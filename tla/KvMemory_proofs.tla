--------------------------- MODULE KvMemory_proofs ---------------------------
(***************************************************************************)
(* Theorems about the in-memory backend, for every set of keys, requests   *)
(* and calls and every clock: its types, and that it implements the        *)
(* promise of KvStore, each step of the backend by one step of the promise *)
(* at most.                                                                *)
(***************************************************************************)
EXTENDS KvMemory, TLAPS

\* A request at work has one of its calls, and was made at a moment that has passed.
Invoked ==
  /\ DOMAIN ans = Requests
  /\ changed <= now
  /\ \A r \in Requests :
       /\ pc[r] # "idle" => call[r] \in AnyCall
       /\ started[r] <= now

\* The lock: an EXPIRE between its two readings of the clock holds it alone.
Exclusive ==
  \A r, s \in Requests : pc[s] = "stamp" => pc[r] \notin {"walk", "left"} /\ (pc[r] = "stamp" => r = s)

\* An entry e of the map (or Nil), judged at t.
AliveAt(e, t) == e # Nil /\ (e.expires_at # Nil => t < e.expires_at)
ShownAt(e, t) == IF AliveAt(e, t) THEN e.value ELSE Nil

\* The moments between `from` and `to` that are not before the last write.
Window(from, since, to) == {t \in from .. to : since <= t}

\* What the batch read c has collected in a when it has yet to visit the keys `left` of
\* the map tab: each key it visited is judged at some moment of W.
Walked(c, tab, left, a, W) ==
  /\ left \subseteq c.keys
  /\ c.op = "mget" =>
       /\ a = [k \in c.keys |-> a[k]]
       /\ \A k \in left : a[k] = Nil
       /\ \A k \in c.keys \ left : \E t \in W : a[k] = ShownAt(tab[k], t)
  /\ c.op = "keys" =>
       /\ a \subseteq c.keys \ left
       /\ \A k \in c.keys \ left : \E t \in W : k \in a <=> AliveAt(tab[k], t)

\* One turn of the batch c: it judges the key k at t, and has b where it had a.
Turn(c, tab, k, t, a, b) ==
  /\ AliveAt(tab[k], t) /\ c.op = "mget" => b = [a EXCEPT ![k] = tab[k].value]
  /\ AliveAt(tab[k], t) /\ c.op = "keys" => b = a \union {k}
  /\ ~AliveAt(tab[k], t) => b = a

\* What a request knows that holds the lock at control point p.
Knows(p, c, tab, left, a, W) ==
  /\ p = "walk" => c.op \in {"mget", "keys"} /\ Walked(c, tab, left, a, W)
  /\ p = "left" => /\ c.op = "ttl"
                   /\ tab[c.key] # Nil /\ tab[c.key].expires_at # Nil
                   /\ \E t \in W : AliveAt(tab[c.key], t)
  /\ p = "stamp" => c.op = "expire" /\ \E t \in W : AliveAt(tab[c.key], t)

Held ==
  \A r \in Requests :
    Knows(pc[r], call[r], data, todo[r], ans[r], Window(started[r], changed, now))

IInv == TypeOK /\ Invoked /\ Exclusive /\ Held

-----------------------------------------------------------------------------
(* Lemmas about the API *)

\* What each operation carries: the fields of a call depend on its op only.
LEMMA CallShape ==
  ASSUME NEW c \in AnyCall
  PROVE  /\ c.op \in {"get", "exists", "ttl", "del", "incr", "set", "expire"} => c.key \in Keys
         /\ c.op = "set" => c.value \in Value /\ c.ttl \in Int \union {Nil}
         /\ c.op = "expire" => c.seconds \in Int
         /\ c.op \in {"mget", "keys"} => c.keys \in SUBSET Keys
         /\ c.op = "mset" => \E K \in SUBSET Keys : c.pairs \in [K -> Value]
<1>1. c \in CallType
  BY CallsAssumption DEF AnyCall
<1>2. CASE c \in KeyCall
  BY <1>2 DEF KeyCall
<1>3. CASE c \in SetCall
  BY <1>3 DEF SetCall
<1>4. CASE c \in ExpireCall
  BY <1>4 DEF ExpireCall
<1>5. CASE c \in BatchCall
  BY <1>5 DEF BatchCall
<1>6. CASE c \in MsetCall
  BY <1>6 DEF MsetCall
<1>7. QED
  BY <1>1, <1>2, <1>3, <1>4, <1>5, <1>6 DEF CallType

\* INCR stays within the i64 range, at its upper end too (`current + 1`).
LEMMA SuccType ==
  ASSUME NEW v \in Value \union {Nil}
  PROVE  Succ(Number(v)) \in Value
BY ApiAssumption DEF Succ, Number, Value

\* A reader sees a value or nothing.
LEMMA ShownType ==
  ASSUME TypeOK, NEW k \in Keys
  PROVE  Shown(k) \in Value \union {Nil}
BY DEF TypeOK, Shown, Alive, Entry

\* A deadline in ticks is an integer.
LEMMA DeadlineType ==
  ASSUME NEW t \in Int, NEW s \in Int
  PROVE  t + s * TicksPerSecond \in Int
BY MemoryAssumption

\* A record with the fields of an entry is not "no entry".
LEMMA NoRecord ==
  ASSUME NEW v \in Value, NEW e \in Int \union {Nil}
  PROVE  [value |-> v, expires_at |-> e] # Nil
BY NoEntry DEF Entry

-----------------------------------------------------------------------------
(* The inductive invariant *)

\* The initial states: an empty map.
LEMMA InitIInv == Init => IInv
<1> SUFFICES ASSUME Init PROVE IInv
  OBVIOUS
<1>1. now \in 0 .. MaxNow /\ changed \in 0 .. MaxNow /\ started \in [Requests -> 0 .. MaxNow]
  BY MemoryAssumption DEF Init
<1>2. TypeOK
  BY <1>1 DEF Init, TypeOK
<1>3. Invoked
  BY DEF Init, Invoked
<1>4. Exclusive /\ Held
  BY DEF Init, Exclusive, Held, Knows
<1>5. QED
  BY <1>2, <1>3, <1>4 DEF IInv

\* Every step keeps the map, the clock and the requests what they are.
LEMMA TypePreserved ==
  ASSUME IInv, Next
  PROVE  TypeOK'
<1> USE DEF IInv, TypeOK, Invoked, ReadLock, WriteLock, Keep
<1>1. ASSUME NEW r \in Requests, NEW c \in Calls[r], Invoke(r, c) PROVE TypeOK'
  BY <1>1 DEF Invoke, AnyCall
<1>2. ASSUME NEW r \in Requests, Get(r) \/ Exists(r) \/ Ttl(r) \/ TtlLeft(r)
      PROVE  TypeOK'
  BY <1>2 DEF Get, Exists, Ttl, TtlLeft, Answer, Goto
<1>3. ASSUME NEW r \in Requests, OpenBatch(r) PROVE TypeOK'
  <2>1. call[r].keys \in SUBSET Keys
    BY <1>3, CallShape DEF OpenBatch
  <2>2. todo' \in [Requests -> SUBSET Keys]
    BY <1>3, <2>1 DEF OpenBatch
  <2>3. QED
    BY <1>3, <2>2 DEF OpenBatch
<1>4. ASSUME NEW r \in Requests, Visit(r) PROVE TypeOK'
  BY <1>4 DEF Visit
<1>5. ASSUME NEW r \in Requests, Set(r) PROVE TypeOK'
  <2> DEFINE c == call[r]
             e == [value |-> c.value,
                   expires_at |-> IF HasTtl(c) THEN started[r] + c.ttl * TicksPerSecond ELSE Nil]
  <2>1. c.key \in Keys /\ c.value \in Value /\ c.ttl \in Int \union {Nil}
    BY <1>5, CallShape DEF Set
  <2>2. e \in Entry
    <3>1. started[r] \in Int
      OBVIOUS
    <3>2. QED
      BY <2>1, <3>1, DeadlineType DEF Entry, HasTtl
  <2>3. data' = [data EXCEPT ![c.key] = e]
    BY <1>5 DEF Set
  <2> HIDE DEF e
  <2>4. data' \in [Keys -> Entry \union {Nil}]
    BY <2>2, <2>3
  <2>5. QED
    BY <1>5, <2>4 DEF Set, Answer
<1>6. ASSUME NEW r \in Requests, Mset(r) PROVE TypeOK'
  <2>1. \E K \in SUBSET Keys : call[r].pairs \in [K -> Value]
    BY <1>6, CallShape DEF Mset
  <2>2. data' \in [Keys -> Entry \union {Nil}]
    BY <1>6, <2>1 DEF Mset, Overwrite, Entry
  <2>3. QED
    BY <1>6, <2>2 DEF Mset, Answer
<1>7. ASSUME NEW r \in Requests, Del(r) PROVE TypeOK'
  <2>1. data' \in [Keys -> Entry \union {Nil}]
    BY <1>7 DEF Del
  <2>2. QED
    BY <1>7, <2>1 DEF Del, Answer
<1>8. ASSUME NEW r \in Requests, Incr(r) PROVE TypeOK'
  <2>1. call[r].key \in Keys
    BY <1>8, CallShape DEF Incr
  <2>2. Succ(Number(Shown(call[r].key))) \in Value
    BY <2>1, ShownType, SuccType
  <2>3. data' \in [Keys -> Entry \union {Nil}]
    BY <1>8, <2>2 DEF Incr, Entry
  <2>4. QED
    BY <1>8, <2>3 DEF Incr, Answer
<1>9. ASSUME NEW r \in Requests, Expire(r) PROVE TypeOK'
  BY <1>9 DEF Expire, Answer, Goto
<1>10. ASSUME NEW r \in Requests, Stamp(r) PROVE TypeOK'
  <2> DEFINE at == now + call[r].seconds * TicksPerSecond
  <2>1. call[r].key \in Keys /\ call[r].seconds \in Int /\ data[call[r].key] \in Entry
    <3>1. call[r].op = "expire" /\ call[r] \in AnyCall /\ data[call[r].key] # Nil
      BY <1>10 DEF Stamp, Held, Knows, AliveAt
    <3>2. call[r].key \in Keys /\ call[r].seconds \in Int
      BY <3>1, CallShape
    <3>3. QED
      BY <3>1, <3>2
  <2>2. at \in Int
    <3>1. now \in Int
      OBVIOUS
    <3>2. QED
      BY <2>1, <3>1, DeadlineType
  <2>3. data' = [data EXCEPT ![call[r].key] = [data[call[r].key] EXCEPT !.expires_at = at]]
    BY <1>10 DEF Stamp
  <2> HIDE DEF at
  <2>4. [data[call[r].key] EXCEPT !.expires_at = at] \in Entry
    BY <2>1, <2>2 DEF Entry
  <2>5. data' \in [Keys -> Entry \union {Nil}]
    BY <2>3, <2>4
  <2>6. QED
    BY <1>10, <2>5 DEF Stamp, Answer
<1>11. ASSUME NEW r \in Requests, SetPanics(r) \/ StampPanics(r) \/ FindsPoison(r)
      PROVE  TypeOK'
  BY <1>11 DEF SetPanics, StampPanics, FindsPoison
<1>12. ASSUME NEW r \in Requests, Reply(r) PROVE TypeOK'
  BY <1>12, MemoryAssumption DEF Reply
<1>13. ASSUME Tick PROVE TypeOK'
  BY <1>13, MemoryAssumption DEF Tick
<1>14. QED
  BY <1>1, <1>2, <1>3, <1>4, <1>5, <1>6, <1>7, <1>8, <1>9, <1>10, <1>11, <1>12, <1>13 DEF Next

\* A request keeps its call until it is answered, and the clock only goes forward.
LEMMA InvokedPreserved ==
  ASSUME IInv, Next
  PROVE  Invoked'
<1> USE DEF IInv, TypeOK, Invoked, ReadLock, WriteLock, Keep
<1>1. ASSUME NEW r \in Requests, NEW c \in Calls[r], Invoke(r, c) PROVE Invoked'
  BY <1>1, MemoryAssumption DEF Invoke, AnyCall
<1>2. ASSUME NEW r \in Requests, NEW a, Answer(r, a), pc[r] # "idle",
             changed' = changed \/ changed' = now
      PROVE  Invoked'
  BY <1>2 DEF Answer
<1>3. ASSUME NEW r \in Requests, NEW p, Goto(r, p), pc[r] # "idle", Keep PROVE Invoked'
  BY <1>3 DEF Goto
<1>4. ASSUME NEW r \in Requests, OpenBatch(r) \/ Visit(r) PROVE Invoked'
  BY <1>4 DEF OpenBatch, Visit
<1>5. ASSUME NEW r \in Requests, SetPanics(r) \/ StampPanics(r) \/ FindsPoison(r)
      PROVE  Invoked'
  BY <1>5 DEF SetPanics, DeadlineOverflows, StampPanics, FindsPoison
<1>6. ASSUME NEW r \in Requests, Reply(r) PROVE Invoked'
  BY <1>6, MemoryAssumption DEF Reply
<1>7. ASSUME Tick PROVE Invoked'
  BY <1>7, MemoryAssumption DEF Tick
<1>8. ASSUME NEW r \in Requests, Get(r) \/ Exists(r) \/ Ttl(r) \/ TtlLeft(r) PROVE Invoked'
  BY <1>8, <1>2, <1>3 DEF Get, Exists, Ttl, TtlLeft
<1>9. ASSUME NEW r \in Requests,
             Set(r) \/ Mset(r) \/ Del(r) \/ Incr(r) \/ Expire(r) \/ Stamp(r)
      PROVE  Invoked'
  BY <1>9, <1>2, <1>3 DEF Set, Mset, Del, Incr, Expire, Stamp
<1>10. QED
  BY <1>1, <1>4, <1>5, <1>6, <1>7, <1>8, <1>9 DEF Next

\* A write takes the lock from nobody: no other request holds it.
LEMMA WriterIsAlone ==
  ASSUME TypeOK, Exclusive, NEW r \in Requests,
         pc[r] = "stamp" \/ (\E op \in {"set", "mset", "del", "incr", "expire"} : WriteLock(r, op))
  PROVE  \A s \in Requests \ {r} : pc[s] \notin {"walk", "left", "stamp"}
BY DEF Exclusive, WriteLock, ReadLock, Readers, BatchReaders, Writers

\* At most one EXPIRE has the lock, and nobody else then.
LEMMA ExclusivePreserved ==
  ASSUME IInv, Next
  PROVE  Exclusive'
<1> USE DEF IInv, TypeOK, Exclusive
<1>1. ASSUME NEW r \in Requests, NEW p, pc' = [pc EXCEPT ![r] = p],
             p \in {"walk", "left"} => pc[r] = "walk" \/ Writers = {},
             p = "stamp" => Writers = {} /\ Readers = {}
      PROVE  Exclusive'
  BY <1>1 DEF Writers, Readers, BatchReaders
<1>2. ASSUME NEW r \in Requests, NEW c \in Calls[r], Invoke(r, c) PROVE Exclusive'
  BY <1>1, <1>2 DEF Invoke
<1>3. ASSUME NEW r \in Requests, Get(r) \/ Exists(r) \/ Ttl(r) \/ TtlLeft(r) PROVE Exclusive'
  BY <1>1, <1>3 DEF Get, Exists, Ttl, TtlLeft, Answer, Goto, ReadLock
<1>4. ASSUME NEW r \in Requests, OpenBatch(r) \/ Visit(r) PROVE Exclusive'
  <2>1. PICK p \in {"walk", "done"} : pc' = [pc EXCEPT ![r] = p]
    BY <1>4 DEF OpenBatch, Visit
  <2>2. pc[r] = "walk" \/ Writers = {}
    BY <1>4 DEF OpenBatch, Visit, ReadLock
  <2>3. QED
    BY <1>1, <2>1, <2>2
<1>5. ASSUME NEW r \in Requests,
             Set(r) \/ Mset(r) \/ Del(r) \/ Incr(r) \/ Expire(r) \/ Stamp(r)
      PROVE  Exclusive'
  BY <1>1, <1>5 DEF Set, Mset, Del, Incr, Expire, Stamp, Answer, Goto, ReadLock, WriteLock
<1>6. ASSUME NEW r \in Requests, SetPanics(r) \/ StampPanics(r) \/ FindsPoison(r) \/ Reply(r)
      PROVE  Exclusive'
  BY <1>1, <1>6 DEF SetPanics, StampPanics, FindsPoison, Reply
<1>7. ASSUME Tick PROVE Exclusive'
  BY <1>7 DEF Tick
<1>8. QED
  BY <1>2, <1>3, <1>4, <1>5, <1>6, <1>7 DEF Next

\* What a reader knows it still knows when the clock has moved on.
LEMMA KnowsGrows ==
  ASSUME NEW p, NEW c, NEW tab, NEW left, NEW a, NEW W, NEW V, W \subseteq V,
         Knows(p, c, tab, left, a, W)
  PROVE  Knows(p, c, tab, left, a, V)
<1>1. p = "walk" => Walked(c, tab, left, a, V)
  BY DEF Knows, Walked
<1>2. QED
  BY <1>1 DEF Knows

\* One turn of a walk, at the moment t.
LEMMA WalkGrows ==
  ASSUME NEW c, c.op \in {"mget", "keys"}, NEW tab, NEW left, NEW a, NEW W,
         Walked(c, tab, left, a, W), NEW k \in left, NEW t \in W, NEW b, Turn(c, tab, k, t, a, b)
  PROVE  Walked(c, tab, left \ {k}, b, W)
<1> USE DEF Turn
<1>1. CASE c.op = "mget"
  <2>1. k \in c.keys /\ a = [j \in c.keys |-> a[j]] /\ a[k] = Nil
    BY <1>1 DEF Walked
  <2>2. b = [j \in c.keys |-> b[j]]
    BY <1>1, <2>1
  <2>3. b[k] = ShownAt(tab[k], t)
    BY <1>1, <2>1 DEF ShownAt
  <2>4. \A j \in c.keys \ {k} : b[j] = a[j]
    BY <1>1, <2>1
  <2>5. QED
    BY <1>1, <2>2, <2>3, <2>4 DEF Walked
<1>2. CASE c.op = "keys"
  <2>1. k \in b <=> AliveAt(tab[k], t)
    <3>1. k \notin a
      BY <1>2 DEF Walked
    <3>2. CASE AliveAt(tab[k], t)
      BY <1>2, <3>2
    <3>3. CASE ~AliveAt(tab[k], t)
      BY <3>1, <3>3
    <3>4. QED
      BY <3>2, <3>3
  <2>2. \A j \in c.keys \ {k} : j \in b <=> j \in a
    BY <1>2
  <2>3. b \subseteq c.keys \ (left \ {k})
    BY <1>2 DEF Walked
  <2>4. QED
    BY <1>2, <2>1, <2>2, <2>3 DEF Walked
<1>3. QED
  BY <1>1, <1>2

\* The present is a moment of every call, and the past of a call only grows.
LEMMA NowIsAMoment ==
  ASSUME TypeOK, Invoked, NEW r \in Requests
  PROVE  now \in Window(started[r], changed, now)
BY DEF TypeOK, Invoked, Window

\* The batch that has just been opened, and each turn of it.
LEMMA BatchKnows ==
  ASSUME IInv, NEW r \in Requests, OpenBatch(r) \/ Visit(r)
  PROVE  /\ call[r].op \in {"mget", "keys"}
         /\ Walked(call[r], data, todo'[r], ans'[r], Window(started[r], changed, now))
         /\ pc'[r] \in {"walk", "done"} /\ (pc'[r] = "done" => todo'[r] = {})
<1> DEFINE W == Window(started[r], changed, now)
<1>1. now \in W
  BY NowIsAMoment DEF IInv
<1> HIDE DEF W
<1>2. CASE OpenBatch(r)
  <2> DEFINE visit == IF call[r].op = "mget" THEN call[r].keys
                      ELSE {k \in call[r].keys : data[k] # Nil}
  <2>1. call[r].op \in {"mget", "keys"}
    BY <1>2 DEF OpenBatch, ReadLock
  <2>2. todo'[r] = visit
    BY <1>2 DEF OpenBatch, IInv, TypeOK
  <2>3. ans'[r] = IF call[r].op = "mget" THEN [k \in call[r].keys |-> Nil] ELSE {}
    BY <1>2 DEF OpenBatch, IInv, Invoked
  <2>4. Walked(call[r], data, todo'[r], ans'[r], W)
    <3>1. CASE call[r].op = "mget"
      BY <2>2, <2>3, <3>1 DEF Walked
    <3>2. CASE call[r].op = "keys"
      <4>1. todo'[r] = {k \in call[r].keys : data[k] # Nil} /\ ans'[r] = {}
        BY <2>2, <2>3, <3>2
      <4>2. \A k \in call[r].keys \ todo'[r] : k \in ans'[r] <=> AliveAt(data[k], now)
        BY <4>1 DEF AliveAt
      <4>3. QED
        BY <1>1, <3>2, <4>1, <4>2 DEF Walked
    <3>3. QED
      BY <2>1, <3>1, <3>2
  <2>5. pc'[r] \in {"walk", "done"} /\ (pc'[r] = "done" => todo'[r] = {})
    BY <1>2, <2>2 DEF OpenBatch, IInv, TypeOK
  <2>6. QED
    BY <2>1, <2>4, <2>5 DEF W
<1>3. CASE Visit(r)
  <2>1. call[r].op \in {"mget", "keys"} /\ Walked(call[r], data, todo[r], ans[r], W)
    BY <1>3 DEF Visit, IInv, Held, Knows, W
  <2>2. PICK k \in todo[r] :
          /\ ans' = IF ~Alive(k) THEN ans
                    ELSE IF call[r].op = "mget" THEN [ans EXCEPT ![r][k] = data[k].value]
                    ELSE [ans EXCEPT ![r] = @ \union {k}]
          /\ todo' = [todo EXCEPT ![r] = @ \ {k}]
          /\ pc' = [pc EXCEPT ![r] = IF todo[r] = {k} THEN "done" ELSE "walk"]
    BY <1>3 DEF Visit
  <2>3. todo'[r] = todo[r] \ {k} /\ DOMAIN ans = Requests
    BY <2>2 DEF IInv, TypeOK, Invoked
  <2>4. Alive(k) = AliveAt(data[k], now)
    BY DEF Alive, AliveAt
  <2>5. /\ AliveAt(data[k], now) /\ call[r].op = "mget" => ans'[r] = [ans[r] EXCEPT ![k] = data[k].value]
        /\ AliveAt(data[k], now) /\ call[r].op = "keys" => ans'[r] = ans[r] \union {k}
        /\ ~AliveAt(data[k], now) => ans'[r] = ans[r]
    BY <2>2, <2>3, <2>4
  <2>6. Walked(call[r], data, todo[r] \ {k}, ans'[r], W)
    <3> DEFINE c == call[r]
               left == todo[r]
               a == ans[r]
               b == ans'[r]
    <3>1. c.op \in {"mget", "keys"} /\ Walked(c, data, left, a, W) /\ k \in left
      BY <2>1
    <3>2. Turn(c, data, k, now, a, b)
      BY <2>5 DEF Turn
    <3> HIDE DEF c, left, a, b
    <3>3. Walked(c, data, left \ {k}, b, W)
      BY <1>1, <3>1, <3>2, WalkGrows
    <3>4. QED
      BY <3>3 DEF c, left, b
  <2>7. pc'[r] \in {"walk", "done"} /\ (pc'[r] = "done" => todo'[r] = {})
    BY <2>2, <2>3 DEF IInv, TypeOK
  <2>8. QED
    BY <2>1, <2>3, <2>6, <2>7 DEF W
<1>4. QED
  BY <1>2, <1>3

\* What the holders of the lock know stays true: nobody writes while they hold it.
LEMMA HeldPreserved ==
  ASSUME IInv, Next
  PROVE  Held'
<1> DEFINE W(r) == Window(started[r], changed, now)
           K(r) == Knows(pc[r], call[r], data, todo[r], ans[r], W(r))
<1>0. /\ \A r \in Requests : K(r) /\ now \in W(r)
      /\ DOMAIN ans = Requests /\ TypeOK
  BY NowIsAMoment DEF IInv, Held, Invoked
<1>1. ASSUME NEW s \in Requests, pc'[s] \notin {"walk", "left", "stamp"} PROVE K(s)'
  BY <1>1 DEF Knows
<1>2. ASSUME NEW s \in Requests,
             pc'[s] = pc[s], call'[s] = call[s], todo'[s] = todo[s], ans'[s] = ans[s],
             data' = data, W(s) \subseteq W(s)'
      PROVE  K(s)'
  <2> DEFINE V == W(s)
             U == W(s)'
  <2>1. Knows(pc[s], call[s], data, todo[s], ans[s], V) /\ V \subseteq U
    BY <1>0, <1>2
  <2> HIDE DEF V, U
  <2>2. Knows(pc[s], call[s], data, todo[s], ans[s], U)
    BY <2>1, KnowsGrows
  <2>3. QED
    BY <1>2, <2>2 DEF U
<1> SUFFICES ASSUME NEW s \in Requests PROVE K(s)'
  BY DEF Held
<1> HIDE DEF K
<1>3. ASSUME NEW r \in Requests, s # r, pc'[s] = pc[s], call'[s] = call[s], started'[s] = started[s],
             todo'[s] = todo[s], ans'[s] = ans[s], UNCHANGED <<data, changed, now>>
      PROVE  K(s)'
  BY <1>2, <1>3
<1>4. ASSUME NEW r \in Requests, NEW c \in Calls[r], Invoke(r, c) PROVE K(s)'
  <2>1. CASE s = r
    BY <1>0, <1>1, <1>4, <2>1 DEF Invoke, TypeOK
  <2>2. CASE s # r
    BY <1>0, <1>3, <1>4, <2>2 DEF Invoke, TypeOK
  <2>3. QED
    BY <2>1, <2>2
<1>5. ASSUME NEW r \in Requests, NEW a, Answer(r, a), Keep PROVE K(s)'
  <2>1. CASE s = r
    BY <1>0, <1>1, <1>5, <2>1 DEF Answer, TypeOK
  <2>2. CASE s # r
    BY <1>0, <1>3, <1>5, <2>2 DEF Answer, TypeOK, Keep
  <2>3. QED
    BY <2>1, <2>2
<1>6. ASSUME NEW r \in Requests, NEW a, Answer(r, a),
             pc[r] = "stamp" \/ (\E op \in {"set", "mset", "del", "incr", "expire"} : WriteLock(r, op))
      PROVE  K(s)'
  <2>1. pc'[s] \notin {"walk", "left", "stamp"}
    BY <1>0, <1>6, WriterIsAlone DEF IInv, Answer, TypeOK
  <2>2. QED
    BY <1>1, <2>1
<1>7. ASSUME NEW r \in Requests, NEW p, Goto(r, p), Keep, s # r PROVE K(s)'
  BY <1>0, <1>3, <1>7 DEF Goto, TypeOK, Keep
<1>8. ASSUME NEW r \in Requests, NEW p \in {"left", "stamp"}, Goto(r, p), Keep,
             Alive(call[r].key), p = "left" => call[r].op = "ttl" /\ data[call[r].key].expires_at # Nil,
             p = "stamp" => call[r].op = "expire"
      PROVE  K(s)'
  <2>1. CASE s = r
    <3>1. AliveAt(data[call[r].key], now) /\ data[call[r].key] # Nil
      BY <1>8 DEF Alive, AliveAt
    <3>2. pc'[r] = p /\ W(r)' = W(r) /\ call' = call /\ data' = data
      BY <1>0, <1>8 DEF Goto, TypeOK, Keep
    <3>3. \E t \in W(r) : AliveAt(data[call[r].key], t)
      BY <1>0, <3>1
    <3>4. QED
      BY <1>8, <2>1, <3>1, <3>2, <3>3 DEF Knows, K
  <2>2. QED
    BY <1>7, <1>8, <2>1
<1>9. ASSUME NEW r \in Requests, OpenBatch(r) \/ Visit(r) PROVE K(s)'
  <2>1. CASE s = r
    <3>1. /\ call[r].op \in {"mget", "keys"}
          /\ Walked(call[r], data, todo'[r], ans'[r], W(r))
          /\ pc'[r] \in {"walk", "done"}
      BY <1>9, BatchKnows
    <3>2. UNCHANGED <<data, call, started, changed, now>>
      BY <1>9 DEF OpenBatch, Visit, Keep
    <3>3. QED
      BY <2>1, <3>1, <3>2 DEF Knows, K
  <2>2. CASE s # r
    <3>1. pc'[s] = pc[s] /\ todo'[s] = todo[s] /\ ans'[s] = ans[s]
      BY <1>0, <1>9, <2>2 DEF OpenBatch, Visit, TypeOK
    <3>2. UNCHANGED <<data, call, started, changed, now>>
      BY <1>9 DEF OpenBatch, Visit, Keep
    <3>3. QED
      BY <1>3, <2>2, <3>1, <3>2
  <2>3. QED
    BY <2>1, <2>2
<1>10. ASSUME NEW r \in Requests, SetPanics(r) \/ StampPanics(r) \/ FindsPoison(r) PROVE K(s)'
  <2>1. CASE s = r
    BY <1>0, <1>1, <1>10, <2>1 DEF SetPanics, StampPanics, FindsPoison, TypeOK
  <2>2. CASE s # r
    BY <1>0, <1>3, <1>10, <2>2 DEF SetPanics, StampPanics, FindsPoison, TypeOK
  <2>3. QED
    BY <2>1, <2>2
<1>11. ASSUME NEW r \in Requests, Reply(r) PROVE K(s)'
  <2>1. CASE s = r
    BY <1>0, <1>1, <1>11, <2>1 DEF Reply, TypeOK
  <2>2. CASE s # r
    BY <1>0, <1>3, <1>11, <2>2 DEF Reply, TypeOK
  <2>3. QED
    BY <2>1, <2>2
<1>12. ASSUME Tick PROVE K(s)'
  <2>1. W(s) \subseteq W(s)'
    BY <1>0, <1>12 DEF Tick, Window, TypeOK
  <2>2. QED
    BY <1>2, <1>12, <2>1 DEF Tick
<1>13. ASSUME NEW r \in Requests, Get(r) \/ Exists(r) \/ TtlLeft(r) PROVE K(s)'
  BY <1>5, <1>13 DEF Get, Exists, TtlLeft
<1>14. ASSUME NEW r \in Requests, Ttl(r) \/ Expire(r) PROVE K(s)'
  BY <1>5, <1>8, <1>14 DEF Ttl, Expire, WriteLock, ReadLock
<1>15. ASSUME NEW r \in Requests, Set(r) \/ Mset(r) \/ Del(r) \/ Incr(r) \/ Stamp(r) PROVE K(s)'
  BY <1>6, <1>15 DEF Set, Mset, Del, Incr, Stamp
<1>16. QED
  BY <1>4, <1>9, <1>10, <1>11, <1>12, <1>13, <1>14, <1>15 DEF Next

\* The invariant holds in every reachable state.
THEOREM Invariance == Spec => []IInv
<1>1. Init => IInv
  BY InitIInv
<1>2. IInv /\ [Next]_vars => IInv'
  <2>1. ASSUME IInv, Next PROVE IInv'
    BY <2>1, TypePreserved, InvokedPreserved, ExclusivePreserved, HeldPreserved DEF IInv
  <2>2. ASSUME IInv, UNCHANGED vars PROVE IInv'
    BY <2>2 DEF IInv, TypeOK, Invoked, Exclusive, Held, vars
  <2>3. QED
    BY <2>1, <2>2
<1>3. QED
  BY <1>1, <1>2, PTL DEF Spec

\* The map, the clock and the requests keep their types: a stored number is an i64, and a
\* deadline an integer, whatever ttl clients send.
THEOREM TypeCorrect == Spec => []TypeOK
<1>1. IInv => TypeOK
  BY DEF IInv
<1>2. QED
  BY <1>1, Invariance, PTL

-----------------------------------------------------------------------------
(* The refinement *)

\* Readers of the map and readers of the promise see the same, at every moment.
LEMMA SameView ==
  ASSUME TypeOK, NEW k \in Keys
  PROVE  /\ Store[k] = Nil <=> data[k] = Nil
         /\ data[k] # Nil => /\ Store[k] = data[k].value
                             /\ Expiry[k] = data[k].expires_at
         /\ \A t : /\ Promise!AliveAt(k, t) <=> AliveAt(data[k], t)
                  /\ Promise!ShownAt(k, t) = ShownAt(data[k], t)
         /\ Alive(k) <=> AliveAt(data[k], now)
         /\ Shown(k) = ShownAt(data[k], now)
<1>1. data[k] # Nil => data[k].value \in Value
  BY DEF TypeOK, Entry
<1>2. Store[k] = Nil <=> data[k] = Nil
  BY <1>1, ApiAssumption DEF Store
<1>3. data[k] # Nil => Store[k] = data[k].value /\ Expiry[k] = data[k].expires_at
  BY DEF Store, Expiry
<1>4. ASSUME NEW t PROVE Promise!AliveAt(k, t) <=> AliveAt(data[k], t)
  BY <1>2, <1>3 DEF Promise!AliveAt, AliveAt
<1>5. ASSUME NEW t PROVE Promise!ShownAt(k, t) = ShownAt(data[k], t)
  BY <1>3, <1>4 DEF Promise!ShownAt, ShownAt, AliveAt
<1>6. (Alive(k) <=> AliveAt(data[k], now)) /\ Shown(k) = ShownAt(data[k], now)
  BY DEF Alive, AliveAt, Shown, ShownAt
<1>7. QED
  BY <1>2, <1>3, <1>4, <1>5, <1>6

\* The moments the promise allows a call are those the backend judges its keys at.
LEMMA SameMoments ==
  ASSUME NEW r \in Requests
  PROVE  Promise!Moments(r) = Window(started[r], changed, now)
BY DEF Promise!Moments, Window

\* A call that ends is answered by the promise, whatever lock it held.
LEMMA SameEnd ==
  ASSUME IInv, NEW r \in Requests, pc[r] \in {"lock", "walk", "left", "stamp"}, NEW a,
         pc' = [pc EXCEPT ![r] = "done"], ans'[r] = a,
         \A s \in Requests \ {r} : ans'[s] = ans[s],
         UNCHANGED <<now, call, started>>
  PROVE  Promise!Answer(r, a)
<1>1. Phase' = [Phase EXCEPT ![r] = "done"]
  BY DEF IInv, TypeOK, Phase
<1>2. Answers' = [Answers EXCEPT ![r] = a]
  BY DEF IInv, TypeOK, Answers
<1>3. QED
  BY <1>1, <1>2 DEF Promise!Answer

\* An answer of the backend is an answer of the promise.
LEMMA SameAnswer ==
  ASSUME IInv, NEW r \in Requests, NEW a, pc[r] \in {"lock", "walk", "left", "stamp"}, Answer(r, a)
  PROVE  Promise!Answer(r, a)
<1>1. ans'[r] = a /\ \A s \in Requests \ {r} : ans'[s] = ans[s]
  BY DEF IInv, Invoked, Answer
<1>2. QED
  BY <1>1, SameEnd DEF Answer

\* A request that asks for the lock, or holds it, is one the promise has not answered.
LEMMA SameCall ==
  ASSUME NEW r \in Requests, NEW op, call[r].op = op, pc[r] \in {"lock", "walk", "left", "stamp"}
  PROVE  Promise!Calling(r, op)
BY DEF Phase, Promise!Calling

\* The steps that only take the lock, or judge a key that is not the last, are none of
\* the promise's.
LEMMA HoldRefines ==
  ASSUME IInv, NEW r \in Requests, NEW p \in {"walk", "left", "stamp"},
         pc[r] \in {"lock", "walk"}, pc' = [pc EXCEPT ![r] = p],
         \A s \in Requests \ {r} : ans'[s] = ans[s],
         UNCHANGED <<data, now, call, started, changed>>
  PROVE  UNCHANGED Promise!vars
<1>1. Phase' = Phase
  BY DEF IInv, TypeOK, Phase
<1>2. Answers' = Answers
  BY DEF IInv, TypeOK, Answers
<1>3. QED
  BY <1>1, <1>2 DEF Promise!vars, Store, Expiry

\* The reads of one key.
LEMMA ReadsRefine ==
  ASSUME IInv, NEW r \in Requests, Get(r) \/ Exists(r) \/ Ttl(r) \/ TtlLeft(r)
  PROVE  Promise!Apply(r) \/ UNCHANGED Promise!vars
<1> DEFINE k == call[r].key
           W == Window(started[r], changed, now)
<1>1. /\ TypeOK /\ pc[r] \in {"lock", "left"} /\ call[r].op \in {"get", "exists", "ttl"}
      /\ k \in Keys /\ W = Promise!Moments(r) /\ now \in W
  <2>1. pc[r] \in {"lock", "left"} /\ call[r].op \in {"get", "exists", "ttl"}
    BY DEF IInv, Held, Knows, Get, Exists, Ttl, TtlLeft, ReadLock
  <2>2. k \in Keys
    BY <2>1, CallShape DEF IInv, Invoked
  <2>3. QED
    BY <2>1, <2>2, SameMoments, NowIsAMoment DEF IInv
<1>2. UNCHANGED <<Store, Expiry, changed>>
  BY DEF Get, Exists, Ttl, TtlLeft, Keep, Store, Expiry
<1>3. /\ \A t : Promise!AliveAt(k, t) <=> AliveAt(data[k], t)
      /\ Promise!ShownAt(k, now) = Shown(k)
      /\ Alive(k) <=> AliveAt(data[k], now)
      /\ data[k] # Nil => Expiry[k] = data[k].expires_at
  <2>1. Promise!ShownAt(k, now) = ShownAt(data[k], now) /\ Shown(k) = ShownAt(data[k], now)
    BY <1>1, SameView
  <2>2. QED
    BY <1>1, <2>1, SameView
<1> HIDE DEF k, W
<1>4. CASE Get(r)
  <2>1. Promise!Calling(r, "get") /\ Promise!Answer(r, Shown(k))
    BY <1>1, <1>4, SameAnswer, SameCall DEF Get, ReadLock, k
  <2>2. Promise!Get(r)
    BY <1>2, <1>3, <2>1 DEF Promise!Get, Promise!Keep, k
  <2>3. QED
    BY <2>2 DEF Promise!Apply
<1>5. CASE Exists(r)
  <2> DEFINE a == Alive(k)
  <2>1. Answer(r, a) /\ call[r].op = "exists"
    BY <1>5 DEF Exists, ReadLock, k
  <2>2. a = Promise!AliveAt(k, now)
    BY <1>3 DEF Alive, Promise!AliveAt
  <2> HIDE DEF a
  <2>3. Promise!Calling(r, "exists") /\ Promise!Answer(r, a)
    BY <1>1, <2>1, SameAnswer, SameCall
  <2>4. Promise!Exists(r)
    BY <1>2, <2>2, <2>3 DEF Promise!Exists, Promise!Keep, k
  <2>5. QED
    BY <2>4 DEF Promise!Apply
<1>6. CASE Ttl(r)
  <2>1. Promise!Calling(r, "ttl")
    BY <1>1, <1>6, SameCall DEF Ttl, ReadLock
  <2>2. CASE ~Alive(k) /\ Answer(r, -2)
    <3>1. Promise!Answer(r, -2) /\ ~Promise!AliveAt(k, now)
      BY <1>1, <1>3, <2>2, SameAnswer
    <3>2. Promise!Ttl(r)
      BY <1>1, <1>2, <2>1, <3>1 DEF Promise!Ttl, Promise!Keep, k
    <3>3. QED
      BY <3>2 DEF Promise!Apply
  <2>3. CASE Alive(k) /\ data[k].expires_at = Nil /\ Answer(r, -1)
    <3>1. Promise!Answer(r, -1) /\ Promise!AliveAt(k, now) /\ Expiry[k] = Nil
      BY <1>1, <1>3, <2>3, SameAnswer DEF Alive
    <3>2. Promise!Ttl(r)
      BY <1>1, <1>2, <2>1, <3>1 DEF Promise!Ttl, Promise!Keep, k
    <3>3. QED
      BY <3>2 DEF Promise!Apply
  <2>4. CASE Goto(r, "left")
    <3>1. pc' = [pc EXCEPT ![r] = "left"] /\ pc[r] = "lock"
          /\ UNCHANGED <<data, now, call, started, changed, ans>>
      BY <1>6, <2>4 DEF Ttl, Goto, Keep, ReadLock
    <3>2. UNCHANGED Promise!vars
      BY <3>1, HoldRefines
    <3>3. QED
      BY <3>2
  <2>5. QED
    BY <1>6, <2>2, <2>3, <2>4 DEF Ttl, k
<1>7. CASE TtlLeft(r)
  <2> DEFINE at == data[k].expires_at
             a == IF now < at THEN (at - now) \div TicksPerSecond ELSE 0
  <2>1. /\ pc[r] = "left" /\ call[r].op = "ttl" /\ data[k] # Nil /\ at # Nil
        /\ \E t \in W : AliveAt(data[k], t)
    BY <1>7 DEF TtlLeft, IInv, Held, Knows, k, W
  <2>2. PICK t \in W : AliveAt(data[k], t)
    BY <2>1
  <2>3. now \in t .. now
    BY <1>1, <2>2 DEF W, Window, TypeOK
  <2>4. a = Promise!SecondsLeft(k, now) /\ Expiry[k] # Nil
    BY <1>3, <2>1 DEF Promise!SecondsLeft
  <2>5. Answer(r, a)
    BY <1>7 DEF TtlLeft, k
  <2> HIDE DEF a, at
  <2>6. Promise!Calling(r, "ttl") /\ Promise!Answer(r, a)
    BY <1>1, <2>1, <2>5, SameAnswer, SameCall
  <2>7. \E u \in t .. now : Promise!Answer(r, Promise!SecondsLeft(k, u))
    BY <2>3, <2>4, <2>6
  <2>8. Promise!Ttl(r)
    BY <1>1, <1>2, <1>3, <2>2, <2>4, <2>6, <2>7 DEF Promise!Ttl, Promise!Keep, k
  <2>9. QED
    BY <2>8 DEF Promise!Apply
<1>8. QED
  BY <1>4, <1>5, <1>6, <1>7

\* The batches: the last key of the walk settles the answer, from one map and a moment
\* of the call for each key.
LEMMA BatchRefines ==
  ASSUME IInv, NEW r \in Requests, OpenBatch(r) \/ Visit(r)
  PROVE  Promise!Apply(r) \/ UNCHANGED Promise!vars
<1> DEFINE c == call[r]
           W == Window(started[r], changed, now)
           a == ans'[r]
<1>1. /\ c.op \in {"mget", "keys"} /\ Walked(c, data, todo'[r], a, W)
      /\ pc'[r] \in {"walk", "done"} /\ (pc'[r] = "done" => todo'[r] = {})
  BY BatchKnows
<1>2. /\ pc[r] \in {"lock", "walk"} /\ pc' = [pc EXCEPT ![r] = pc'[r]]
      /\ \A s \in Requests \ {r} : ans'[s] = ans[s]
      /\ UNCHANGED <<data, now, call, started, changed>>
  <2>1. pc[r] \in {"lock", "walk"}
    BY DEF OpenBatch, Visit, ReadLock
  <2>2. \E p : pc' = [pc EXCEPT ![r] = p]
    BY DEF OpenBatch, Visit
  <2>3. pc' = [pc EXCEPT ![r] = pc'[r]]
    BY <2>2 DEF IInv, TypeOK
  <2>4. \A s \in Requests \ {r} : ans'[s] = ans[s]
    BY DEF OpenBatch, Visit, IInv, Invoked
  <2>5. UNCHANGED <<data, now, call, started, changed>>
    BY DEF OpenBatch, Visit, Keep
  <2>6. QED
    BY <2>1, <2>3, <2>4, <2>5
<1>3. CASE pc'[r] = "walk"
  BY <1>2, <1>3, HoldRefines
<1>4. CASE pc'[r] = "done"
  <2>1. c.keys \in SUBSET Keys
    BY <1>1, <1>2, CallShape DEF IInv, Invoked
  <2>2. Walked(c, data, {}, a, W) /\ W = Promise!Moments(r)
    BY <1>1, <1>4, SameMoments
  <2>3. Promise!Answer(r, a)
    BY <1>2, <1>4, SameEnd
  <2>4. UNCHANGED <<Store, Expiry, changed>>
    BY <1>2 DEF Store, Expiry
  <2>5. Promise!Calling(r, c.op)
    BY <1>2, SameCall
  <2> HIDE DEF a, W
  <2>6. CASE c.op = "mget"
    <3>1. a = [k \in c.keys |-> a[k]] /\ \A k \in c.keys : \E t \in W : a[k] = ShownAt(data[k], t)
      BY <2>2, <2>6 DEF Walked
    <3> DEFINE at == [k \in c.keys |-> CHOOSE t \in W : a[k] = ShownAt(data[k], t)]
    <3>2. \A k \in c.keys : at[k] \in W /\ a[k] = ShownAt(data[k], at[k])
      BY <3>1
    <3>3. at \in [c.keys -> W]
      BY <3>2
    <3> HIDE DEF at
    <3>4. \A k \in c.keys : a[k] = Promise!ShownAt(k, at[k])
      BY <2>1, <3>2, SameView DEF IInv
    <3>5. a = [k \in c.keys |-> Promise!ShownAt(k, at[k])]
      BY <3>1, <3>4
    <3>6. at \in [c.keys -> Promise!Moments(r)]
      BY <2>2, <3>3
    <3>7. Promise!Mget(r)
      BY <2>3, <2>4, <2>5, <2>6, <3>5, <3>6 DEF Promise!Mget, Promise!Keep
    <3>8. QED
      BY <3>7 DEF Promise!Apply
  <2>7. CASE c.op = "keys"
    <3>1. a \subseteq c.keys /\ \A k \in c.keys : \E t \in W : k \in a <=> AliveAt(data[k], t)
      BY <2>2, <2>7 DEF Walked
    <3> DEFINE at == [k \in c.keys |-> CHOOSE t \in W : k \in a <=> AliveAt(data[k], t)]
    <3>2. \A k \in c.keys : at[k] \in W /\ (k \in a <=> AliveAt(data[k], at[k]))
      BY <3>1
    <3>3. at \in [c.keys -> W]
      BY <3>2
    <3> HIDE DEF at
    <3>4. \A k \in c.keys : k \in a <=> Promise!AliveAt(k, at[k])
      BY <2>1, <3>2, SameView DEF IInv
    <3>5. a = {k \in c.keys : Promise!AliveAt(k, at[k])}
      BY <3>1, <3>4
    <3>6. at \in [c.keys -> Promise!Moments(r)]
      BY <2>2, <3>3
    <3>7. Promise!ListKeys(r)
      BY <2>3, <2>4, <2>5, <2>7, <3>5, <3>6 DEF Promise!ListKeys, Promise!Keep
    <3>8. QED
      BY <3>7 DEF Promise!Apply
  <2>8. QED
    BY <1>1, <2>6, <2>7
<1>5. QED
  BY <1>1, <1>3, <1>4

\* The writes: each changes value and expiry together, as one write of the promise does,
\* and the deadline it stores belongs to a moment of its call.  An EXPIRE that finds its
\* key alive is settled by the deadline it stores.
LEMMA WritesRefine ==
  ASSUME IInv, NEW r \in Requests, Set(r) \/ Mset(r) \/ Del(r) \/ Incr(r) \/ Stamp(r)
  PROVE  Promise!Apply(r)
<1>1. /\ TypeOK /\ TypeOK' /\ call[r] \in AnyCall /\ pc[r] \in {"lock", "walk", "left", "stamp"}
      /\ started[r] \in Int /\ now \in Int /\ started[r] <= now
      /\ changed' = now
  <2>1. TypeOK'
    BY TypePreserved DEF Next
  <2>2. pc[r] \in {"lock", "stamp"} /\ changed' = now
    BY DEF Set, Mset, Del, Incr, Stamp, WriteLock, ReadLock
  <2>3. QED
    BY <2>1, <2>2 DEF IInv, TypeOK, Invoked
<1>2. /\ DOMAIN data = Keys /\ DOMAIN data' = Keys
      /\ DOMAIN Store = Keys /\ DOMAIN Expiry = Keys
  BY <1>1 DEF TypeOK, Store, Expiry
<1>3. ASSUME NEW k \in Keys, NEW v \in Value, NEW e \in Int \union {Nil},
             data' = [data EXCEPT ![k] = [value |-> v, expires_at |-> e]]
      PROVE  Promise!Put(k, v, e)
  <2>1. data'[k] # Nil /\ data'[k].value = v /\ data'[k].expires_at = e
    <3>1. data'[k] = [value |-> v, expires_at |-> e]
      BY <1>2, <1>3
    <3>2. data'[k] # Nil
      BY <3>1, NoRecord
    <3>3. QED
      BY <3>1, <3>2
  <2>2. \A j \in Keys \ {k} : data'[j] = data[j]
    BY <1>2, <1>3
  <2>3. Store' = [Store EXCEPT ![k] = v]
    BY <2>1, <2>2 DEF Store
  <2>4. Expiry' = [Expiry EXCEPT ![k] = e]
    BY <2>1, <2>2 DEF Expiry
  <2>5. QED
    BY <1>1, <2>3, <2>4 DEF Promise!Put
<1>4. CASE Set(r)
  <2> DEFINE c == call[r]
             d == started[r] + c.ttl * TicksPerSecond
  <2>1. WriteLock(r, "set") /\ Answer(r, "ok")
    BY <1>4 DEF Set
  <2>2. c.key \in Keys /\ c.value \in Value
    BY <1>1, <2>1, CallShape DEF WriteLock, ReadLock
  <2>3. Promise!Put(c.key, c.value, IF HasTtl(c) THEN d ELSE Nil)
    <3> DEFINE e == IF HasTtl(c) THEN d ELSE Nil
    <3>1. c.ttl \in Int \union {Nil}
      BY <1>1, <2>1, CallShape DEF WriteLock, ReadLock
    <3>2. HasTtl(c) => d \in Int
      BY <1>1, <3>1, DeadlineType DEF HasTtl
    <3>3. e \in Int \union {Nil}
      BY <3>2
    <3>4. data' = [data EXCEPT ![c.key] = [value |-> c.value, expires_at |-> e]]
      BY <1>4 DEF Set
    <3> HIDE DEF e
    <3>5. Promise!Put(c.key, c.value, e)
      BY <1>3, <2>2, <3>3, <3>4
    <3>6. QED
      BY <3>5 DEF e
  <2>4. d \in Promise!Deadlines(started[r], c.ttl)
    BY <1>1 DEF Promise!Deadlines
  <2> HIDE DEF d
  <2>5. \/ HasTtl(c) /\ \E e \in Promise!Deadlines(started[r], c.ttl) : Promise!Put(c.key, c.value, e)
        \/ ~HasTtl(c) /\ Promise!Put(c.key, c.value, Nil)
    BY <2>3, <2>4
  <2>6. Promise!Set(r)
    BY <1>1, <2>1, <2>5, SameAnswer, SameCall DEF WriteLock, ReadLock, Promise!Set, Promise!HasTtl, HasTtl
  <2>7. QED
    BY <2>6 DEF Promise!Apply
<1>5. CASE Mset(r)
  <2> DEFINE pairs == call[r].pairs
  <2>1. WriteLock(r, "mset") /\ Answer(r, "ok")
    BY <1>5 DEF Mset
  <2>2. PICK K \in SUBSET Keys : pairs \in [K -> Value]
    BY <1>1, <2>1, CallShape DEF WriteLock, ReadLock
  <2>3. \A k \in K : data'[k] = [value |-> pairs[k], expires_at |-> Nil]
    BY <1>5, <2>2 DEF Mset, Overwrite
  <2>4. \A k \in K : /\ data'[k] # Nil
                     /\ data'[k].value = pairs[k] /\ data'[k].expires_at = Nil
    <3> TAKE k \in K
    <3>1. pairs[k] \in Value
      BY <2>2
    <3>2. [value |-> pairs[k], expires_at |-> Nil] # Nil
      BY <3>1, NoRecord
    <3>3. data'[k] = [value |-> pairs[k], expires_at |-> Nil]
      BY <2>3
    <3> HIDE DEF pairs
    <3>4. QED
      BY <3>2, <3>3
  <2>5. \A k \in Keys \ K : data'[k] = data[k]
    BY <1>5, <2>2 DEF Mset, Overwrite
  <2>6. Store' = Overwrite(Store, pairs)
    BY <2>2, <2>4, <2>5 DEF Store, Overwrite
  <2>7. Expiry' = Overwrite(Expiry, [k \in DOMAIN pairs |-> Nil])
    BY <2>2, <2>4, <2>5 DEF Expiry, Overwrite
  <2>8. Promise!Mset(r)
    BY <1>1, <2>1, <2>6, <2>7, SameAnswer, SameCall
       DEF WriteLock, ReadLock, Promise!Mset, Promise!Overwrite, Overwrite
  <2>9. QED
    BY <2>8 DEF Promise!Apply
<1>6. CASE Del(r)
  <2> DEFINE k == call[r].key
             a == IF data[k] = Nil THEN 0 ELSE 1
  <2>1. WriteLock(r, "del") /\ Answer(r, a)
    BY <1>6 DEF Del
  <2>2. k \in Keys
    BY <1>1, <2>1, CallShape DEF WriteLock, ReadLock
  <2>3. a = IF Store[k] = Nil THEN 0 ELSE 1
    BY <1>1, <2>2, SameView
  <2>4. Store' = [Store EXCEPT ![k] = Nil] /\ Expiry' = [Expiry EXCEPT ![k] = Nil]
    <3>1. data'[k] = Nil /\ \A j \in Keys \ {k} : data'[j] = data[j]
      BY <1>2, <1>6, <2>2 DEF Del
    <3>2. QED
      BY <3>1 DEF Store, Expiry
  <2> HIDE DEF a
  <2>5. Promise!Calling(r, "del") /\ Promise!Answer(r, a)
    BY <1>1, <2>1, SameAnswer, SameCall DEF WriteLock, ReadLock
  <2>6. Promise!Del(r)
    BY <1>1, <2>3, <2>4, <2>5 DEF Promise!Del, Promise!Put
  <2>7. QED
    BY <2>6 DEF Promise!Apply
<1>7. CASE Incr(r)
  <2> DEFINE k == call[r].key
             n == Succ(Number(Shown(k)))
  <2>1. WriteLock(r, "incr") /\ Answer(r, n)
    BY <1>7 DEF Incr
  <2>2. k \in Keys
    BY <1>1, <2>1, CallShape DEF WriteLock, ReadLock
  <2>3. n \in Value
    BY <1>1, <2>2, ShownType, SuccType
  <2>4. Promise!Put(k, n, Nil)
    BY <1>3, <1>7, <2>2, <2>3 DEF Incr
  <2>5. n = Promise!Succ(Promise!Number(Promise!ShownAt(k, now)))
    <3>1. Promise!ShownAt(k, now) = ShownAt(data[k], now) /\ Shown(k) = ShownAt(data[k], now)
      BY <1>1, <2>2, SameView
    <3>2. QED
      BY <3>1 DEF Promise!Succ, Promise!Number, Succ, Number
  <2> HIDE DEF n
  <2>6. Promise!Calling(r, "incr") /\ Promise!Answer(r, n)
    BY <1>1, <2>1, SameAnswer, SameCall DEF WriteLock, ReadLock
  <2>7. Promise!Incr(r)
    BY <2>4, <2>5, <2>6 DEF Promise!Incr
  <2>8. QED
    BY <2>7 DEF Promise!Apply
<1>8. CASE Stamp(r)
  <2> DEFINE c == call[r]
             k == c.key
             d == now + c.seconds * TicksPerSecond
             W == Window(started[r], changed, now)
  <2>1. pc[r] = "stamp" /\ Answer(r, TRUE)
    BY <1>8 DEF Stamp
  <2>2. c.op = "expire" /\ \E t \in W : AliveAt(data[k], t)
    BY <2>1 DEF IInv, Held, Knows
  <2>3. PICK t \in W : AliveAt(data[k], t)
    BY <2>2
  <2>4. k \in Keys /\ c.seconds \in Int
    BY <1>1, <2>2, CallShape
  <2>5. d \in Promise!Deadlines(t, c.seconds) /\ d \in Int
    <3>1. now \in t .. now
      BY <1>1, <2>3 DEF Window, TypeOK
    <3>2. QED
      BY <1>1, <2>4, <3>1, DeadlineType DEF Promise!Deadlines
  <2>6. /\ data[k] \in Entry /\ data[k] # Nil
        /\ data' = [data EXCEPT ![k] = [data[k] EXCEPT !.expires_at = d]]
    BY <1>1, <1>8, <2>3, <2>4 DEF TypeOK, AliveAt, Stamp
  <2> HIDE DEF d
  <2>7. data' = [data EXCEPT ![k] = [value |-> data[k].value, expires_at |-> d]]
    <3>1. [data[k] EXCEPT !.expires_at = d] = [value |-> data[k].value, expires_at |-> d]
      BY <2>6 DEF Entry
    <3>2. QED
      BY <2>6, <3>1
  <2>8. Promise!Put(k, Store[k], d)
    <3>1. data[k].value \in Value /\ Store[k] = data[k].value
      BY <1>1, <2>4, <2>6, SameView DEF Entry
    <3>2. QED
      BY <1>3, <2>4, <2>5, <2>7, <3>1
  <2>9. t \in Promise!Moments(r) /\ Promise!AliveAt(k, t)
    BY <1>1, <2>3, <2>4, SameView, SameMoments
  <2>10. Promise!Calling(r, "expire") /\ Promise!Answer(r, TRUE)
    <3> DEFINE a == TRUE
    <3>1. Answer(r, a)
      BY <2>1
    <3> HIDE DEF a
    <3>2. Promise!Answer(r, a)
      BY <1>1, <3>1, SameAnswer
    <3>3. QED
      BY <1>1, <2>2, <3>2, SameCall DEF a
  <2>11. Promise!Expire(r)
    BY <2>5, <2>8, <2>9, <2>10 DEF Promise!Expire
  <2>12. QED
    BY <2>11 DEF Promise!Apply
<1>9. QED
  BY <1>4, <1>5, <1>6, <1>7, <1>8

\* An EXPIRE asks first whether its key is alive: if not, that is its answer.
LEMMA ExpireRefines ==
  ASSUME IInv, NEW r \in Requests, Expire(r)
  PROVE  Promise!Apply(r) \/ UNCHANGED Promise!vars
<1>1. pc[r] = "lock" /\ call[r].op = "expire" /\ call[r].key \in Keys /\ UNCHANGED <<data, changed>>
  <2>1. pc[r] = "lock" /\ call[r].op = "expire" /\ UNCHANGED <<data, changed>>
    BY DEF Expire, WriteLock, ReadLock, Keep
  <2>2. QED
    BY <2>1, CallShape DEF IInv, Invoked
<1>2. CASE Goto(r, "stamp")
  BY <1>1, <1>2, HoldRefines DEF Goto
<1>3. CASE ~Alive(call[r].key) /\ Answer(r, FALSE)
  <2>1. ~Promise!AliveAt(call[r].key, now) /\ now \in Promise!Moments(r)
    BY <1>1, <1>3, SameView, SameMoments, NowIsAMoment DEF IInv
  <2>2. Promise!Calling(r, "expire") /\ Promise!Answer(r, FALSE)
    <3> DEFINE a == FALSE
    <3>1. Answer(r, a)
      BY <1>3
    <3> HIDE DEF a
    <3>2. Promise!Answer(r, a)
      BY <1>1, <3>1, SameAnswer
    <3>3. QED
      BY <1>1, <3>2, SameCall DEF a
  <2>3. Promise!Expire(r)
    BY <1>1, <2>1, <2>2 DEF Promise!Expire, Promise!Keep, Store, Expiry
  <2>4. QED
    BY <2>3 DEF Promise!Apply
<1>4. QED
  BY <1>2, <1>3 DEF Expire

\* Every step of the backend is a step of the promise, or none of it.
LEMMA StepRefines ==
  ASSUME IInv, Next
  PROVE  Promise!Next \/ UNCHANGED Promise!vars
<1>1. ASSUME NEW r \in Requests, NEW c \in Calls[r], Invoke(r, c) PROVE Promise!Invoke(r, c)
  <2>1. /\ Phase[r] = "idle" /\ Phase' = [Phase EXCEPT ![r] = "called"]
        /\ Answers' = Answers
    BY <1>1 DEF IInv, TypeOK, Invoke, Phase, Answers
  <2>2. UNCHANGED <<Store, Expiry>>
    BY <1>1 DEF Invoke, Store, Expiry
  <2>3. QED
    BY <1>1, <2>1, <2>2 DEF Invoke, Promise!Invoke
<1>2. ASSUME NEW r \in Requests, SetPanics(r) \/ StampPanics(r) \/ FindsPoison(r)
      PROVE  Promise!Fail(r)
  <2>1. pc[r] \in {"lock", "stamp"} /\ pc' = [pc EXCEPT ![r] = "panicked"] /\ ans' = ans
    BY <1>2 DEF SetPanics, DeadlineOverflows, StampPanics, FindsPoison
  <2>2. /\ Phase[r] = "called" /\ Phase' = [Phase EXCEPT ![r] = "failed"]
        /\ Answers' = Answers
    BY <2>1 DEF IInv, TypeOK, Phase, Answers
  <2>3. UNCHANGED <<Store, Expiry, now, call, started, changed>>
    BY <1>2 DEF SetPanics, StampPanics, FindsPoison, Store, Expiry
  <2>4. QED
    BY <2>2, <2>3 DEF Promise!Fail
<1>3. ASSUME NEW r \in Requests, Reply(r) PROVE Promise!Reply(r)
  <2>1. Phase[r] \in {"done", "failed"} /\ Phase' = [Phase EXCEPT ![r] = "idle"]
    BY <1>3 DEF IInv, TypeOK, Reply, Phase
  <2>2. Answers' = [Answers EXCEPT ![r] = Nil]
    BY <1>3 DEF IInv, TypeOK, Invoked, Reply, Answers
  <2>3. UNCHANGED <<Store, Expiry>>
    BY <1>3 DEF Reply, Store, Expiry
  <2>4. QED
    BY <1>3, <2>1, <2>2, <2>3 DEF Reply, Promise!Reply
<1>4. ASSUME Tick PROVE Promise!Tick
  BY <1>4 DEF Tick, Promise!Tick, Store, Expiry, Phase, Answers
<1>5. QED
  BY <1>1, <1>2, <1>3, <1>4, ReadsRefine, BatchRefines, WritesRefine, ExpireRefines
     DEF Next, Promise!Next

\* The in-memory backend implements the promise of the API, for any number of keys,
\* requests and calls and any clock: whatever runs concurrently, a call has its effect on
\* the map at one moment, and its answer is read from one map, each key judged at a
\* moment of the call at which the map was that one.
THEOREM MemoryImplementsPromise == Spec => ImplementsPromise
<1>1. Init => Promise!Init
  BY DEF Init, Promise!Init, Store, Expiry, Phase, Answers
<1>2. IInv /\ [Next]_vars => [Promise!Next]_Promise!vars
  <2>1. ASSUME UNCHANGED vars PROVE UNCHANGED Promise!vars
    BY <2>1 DEF vars, Promise!vars, Store, Expiry, Phase, Answers
  <2>2. QED
    BY <2>1, StepRefines
<1>3. QED
  BY <1>1, <1>2, Invariance, PTL DEF Spec, ImplementsPromise, Promise!Spec

=============================================================================
