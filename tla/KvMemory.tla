------------------------------ MODULE KvMemory ------------------------------
(***************************************************************************)
(* The in-memory backend (MemoryBackend in src/kv.rs): a HashMap behind a  *)
(* std::sync::RwLock.                                                      *)
(*                                                                         *)
(* Every method takes the lock once and holds it for its whole effect.  An *)
(* operation that reads the clock once under the lock is one step.  MGET   *)
(* and KEYS read the clock for every key, TTL and EXPIRE twice: they are a *)
(* step for each reading, with the lock held in between.  SET reads the    *)
(* clock before it asks for the write lock.  A panic while the write lock  *)
(* is held poisons the lock for good, and EXPIRE can panic there:          *)
(* `seconds as u64` turns a negative i64 into more seconds than an Instant *)
(* can hold.                                                               *)
(***************************************************************************)
EXTENDS KvApi

CONSTANTS MaxNow,          \* the clock stops here (bound of the model)
          TicksPerSecond,  \* an Instant is finer than the seconds TTL reports
          MaxInstant       \* the latest Instant, in ticks

ASSUME MemoryAssumption ==
  /\ MaxNow \in Nat
  /\ TicksPerSecond \in Nat \ {0}
  /\ MaxInstant \in Nat
  /\ MaxNow <= MaxInstant

VARIABLES data,      \* HashMap<String, MemoryEntry>: an entry or Nil for each key
          poisoned,  \* the RwLock is poisoned
          now,       \* Instant::now()
          pc, call, started,
          todo,      \* the keys a batch read has yet to visit
          ans,
          changed    \* history: when the map was last written

vars == <<data, poisoned, now, pc, call, started, todo, ans, changed>>

Entry == [value : Value, expires_at : Int \union {Nil}]

ASSUME NoEntry == Nil \notin Entry

TypeOK ==
  /\ data \in [Keys -> Entry \union {Nil}]
  /\ poisoned \in BOOLEAN
  /\ now \in 0 .. MaxNow
  /\ pc \in [Requests -> {"idle", "lock", "walk", "left", "stamp", "done", "panicked"}]
  /\ call \in [Requests -> AnyCall \union {Nil}]
  /\ started \in [Requests -> 0 .. MaxNow]
  /\ todo \in [Requests -> SUBSET Keys]
  /\ changed \in 0 .. MaxNow

Init ==
  /\ data = [k \in Keys |-> Nil]
  /\ poisoned = FALSE
  /\ now = 0
  /\ pc = [r \in Requests |-> "idle"]
  /\ call = [r \in Requests |-> Nil]
  /\ started = [r \in Requests |-> 0]
  /\ todo = [r \in Requests |-> {}]
  /\ ans = [r \in Requests |-> Nil]
  /\ changed = 0

\* Some(entry) if !Self::is_expired(entry)
Alive(k) ==
  /\ data[k] # Nil
  /\ data[k].expires_at # Nil => now < data[k].expires_at

Shown(k) == IF Alive(k) THEN data[k].value ELSE Nil

\* `Instant::now() + Duration::from_secs(s as u64)` panics.
Overflows(t, s) == s < 0 \/ t + s * TicksPerSecond > MaxInstant

\* A handler calls the backend.  SET reads the clock here, before the lock.
Invoke(r, c) ==
  /\ pc[r] = "idle"
  /\ pc' = [pc EXCEPT ![r] = "lock"]
  /\ call' = [call EXCEPT ![r] = c]
  /\ started' = [started EXCEPT ![r] = now]
  /\ UNCHANGED <<data, poisoned, now, todo, ans, changed>>

\* Mutant of BatchReaders: the read lock is taken anew for every key.
BatchReadersUnlocked == {}

\* The requests that hold the lock: as readers, between two readings of the clock, ...
BatchReaders == {r \in Requests : pc[r] = "walk"}
Readers == BatchReaders \union {r \in Requests : pc[r] = "left"}

\* ... and as the writer, which is an EXPIRE.
Writers == {r \in Requests : pc[r] = "stamp"}

\* `.read().unwrap()` and `.write().unwrap()`.
ReadLock(r, op) == pc[r] = "lock" /\ ~poisoned /\ call[r].op = op /\ Writers = {}
WriteLock(r, op) == ReadLock(r, op) /\ Readers = {}

Answer(r, a) ==
  /\ pc' = [pc EXCEPT ![r] = "done"]
  /\ ans' = [ans EXCEPT ![r] = a]
  /\ UNCHANGED <<poisoned, now, call, started, todo>>

\* The lock is kept: the clock will be read again.
Goto(r, point) ==
  /\ pc' = [pc EXCEPT ![r] = point]
  /\ UNCHANGED <<poisoned, now, call, started, todo, ans>>

Keep == UNCHANGED <<data, changed>>

Get(r) ==
  /\ ReadLock(r, "get")
  /\ Answer(r, Shown(call[r].key))
  /\ Keep

Exists(r) ==
  /\ ReadLock(r, "exists")
  /\ Answer(r, Alive(call[r].key))
  /\ Keep

\* is_expired ...
Ttl(r) ==
  LET k == call[r].key IN
  /\ ReadLock(r, "ttl")
  /\ \/ ~Alive(k) /\ Answer(r, -2)
     \/ Alive(k) /\ data[k].expires_at = Nil /\ Answer(r, -1)
     \/ Alive(k) /\ data[k].expires_at # Nil /\ Goto(r, "left")
  /\ Keep

\* ... and `expires.saturating_duration_since(Instant::now())`, in whole seconds.
TtlLeft(r) ==
  LET at == data[call[r].key].expires_at IN
  /\ pc[r] = "left"
  /\ Answer(r, IF now < at THEN (at - now) \div TicksPerSecond ELSE 0)
  /\ Keep

\* MGET walks the keys it was given, KEYS the entries of the map that match.
OpenBatch(r) ==
  LET visit == IF call[r].op = "mget" THEN call[r].keys
               ELSE {k \in call[r].keys : data[k] # Nil}
  IN
  /\ \E op \in {"mget", "keys"} : ReadLock(r, op)
  /\ todo' = [todo EXCEPT ![r] = visit]
  /\ ans' = [ans EXCEPT ![r] = IF call[r].op = "mget" THEN [k \in call[r].keys |-> Nil] ELSE {}]
  /\ pc' = [pc EXCEPT ![r] = IF visit = {} THEN "done" ELSE "walk"]
  /\ UNCHANGED <<poisoned, now, call, started>>
  /\ Keep

\* One turn of the walk, at the clock it finds.
Visit(r) ==
  /\ pc[r] = "walk"
  /\ \E k \in todo[r] :
       /\ ans' = IF ~Alive(k) THEN ans
                 ELSE IF call[r].op = "mget" THEN [ans EXCEPT ![r][k] = data[k].value]
                 ELSE [ans EXCEPT ![r] = @ \union {k}]
       /\ todo' = [todo EXCEPT ![r] = @ \ {k}]
       /\ pc' = [pc EXCEPT ![r] = IF todo[r] = {k} THEN "done" ELSE "walk"]
  /\ UNCHANGED <<poisoned, now, call, started>>
  /\ Keep

DeadlineOverflows(r) ==
  /\ pc[r] = "lock" /\ call[r].op = "set"
  /\ HasTtl(call[r]) /\ Overflows(started[r], call[r].ttl)

\* The addition panics before the lock is taken: only this request is lost.
SetPanics(r) ==
  /\ DeadlineOverflows(r)
  /\ pc' = [pc EXCEPT ![r] = "panicked"]
  /\ UNCHANGED <<data, poisoned, now, call, started, todo, ans, changed>>

Set(r) ==
  LET c == call[r] IN
  /\ WriteLock(r, "set") /\ ~DeadlineOverflows(r)
  /\ data' = [data EXCEPT ![c.key] =
                [value |-> c.value,
                 expires_at |-> IF HasTtl(c) THEN started[r] + c.ttl * TicksPerSecond ELSE Nil]]
  /\ changed' = now
  /\ Answer(r, "ok")

Mset(r) ==
  LET pairs == call[r].pairs IN
  /\ WriteLock(r, "mset")
  /\ data' = Overwrite(data, [k \in DOMAIN pairs |-> [value |-> pairs[k], expires_at |-> Nil]])
  /\ changed' = now
  /\ Answer(r, "ok")

Del(r) ==
  LET k == call[r].key IN
  /\ WriteLock(r, "del")
  /\ data' = [data EXCEPT ![k] = Nil]
  /\ changed' = now
  /\ Answer(r, IF data[k] = Nil THEN 0 ELSE 1)

Incr(r) ==
  LET k == call[r].key
      n == Succ(Number(Shown(k)))
  IN
  /\ WriteLock(r, "incr")
  /\ data' = [data EXCEPT ![k] = [value |-> n, expires_at |-> Nil]]
  /\ changed' = now
  /\ Answer(r, n)

\* is_expired ...
Expire(r) ==
  /\ WriteLock(r, "expire")
  /\ \/ Alive(call[r].key) /\ Goto(r, "stamp")
     \/ ~Alive(call[r].key) /\ Answer(r, FALSE)
  /\ Keep

\* ... and `Instant::now() + Duration::from_secs(seconds as u64)`.
Stamp(r) ==
  LET c == call[r] IN
  /\ pc[r] = "stamp" /\ ~Overflows(now, c.seconds)
  /\ data' = [data EXCEPT ![c.key].expires_at = now + c.seconds * TicksPerSecond]
  /\ changed' = now
  /\ Answer(r, TRUE)

\* The addition panics with the write guard alive: unwinding poisons the lock.
StampPanics(r) ==
  /\ pc[r] = "stamp" /\ Overflows(now, call[r].seconds)
  /\ poisoned' = TRUE
  /\ pc' = [pc EXCEPT ![r] = "panicked"]
  /\ UNCHANGED <<data, now, call, started, todo, ans, changed>>

\* `.read().unwrap()` and `.write().unwrap()` on a poisoned lock.
FindsPoison(r) ==
  /\ pc[r] = "lock" /\ poisoned /\ ~DeadlineOverflows(r)
  /\ pc' = [pc EXCEPT ![r] = "panicked"]
  /\ UNCHANGED <<data, poisoned, now, call, started, todo, ans, changed>>

Reply(r) ==
  /\ pc[r] \in {"done", "panicked"}
  /\ pc' = [pc EXCEPT ![r] = "idle"]
  /\ call' = [call EXCEPT ![r] = Nil]
  /\ started' = [started EXCEPT ![r] = 0]
  /\ todo' = [todo EXCEPT ![r] = {}]
  /\ ans' = [ans EXCEPT ![r] = Nil]
  /\ UNCHANGED <<data, poisoned, now, changed>>

Tick ==
  /\ now < MaxNow
  /\ now' = now + 1
  /\ UNCHANGED <<data, poisoned, pc, call, started, todo, ans, changed>>

Next ==
  \/ \E r \in Requests :
       \/ \E c \in Calls[r] : Invoke(r, c)
       \/ Get(r) \/ Exists(r) \/ Ttl(r) \/ TtlLeft(r) \/ OpenBatch(r) \/ Visit(r)
       \/ Set(r) \/ Mset(r) \/ Del(r) \/ Incr(r) \/ Expire(r) \/ Stamp(r)
       \/ SetPanics(r) \/ StampPanics(r) \/ FindsPoison(r) \/ Reply(r)
  \/ Tick

Spec == Init /\ [][Next]_vars

-----------------------------------------------------------------------------
(***************************************************************************)
(* Refinement: the backend implements the promise of KvStore.  A call of   *)
(* several steps takes effect with the last of them, when it answers.      *)
(* A panicked request is a failed one.                                     *)
(***************************************************************************)
Store   == [k \in Keys |-> IF data[k] = Nil THEN Nil ELSE data[k].value]
Expiry  == [k \in Keys |-> IF data[k] = Nil THEN Nil ELSE data[k].expires_at]
Phase   == [r \in Requests |->
              CASE pc[r] \in {"idle", "done"} -> pc[r]
                [] pc[r] = "panicked" -> "failed"
                [] OTHER -> "called"]
Answers == [r \in Requests |-> IF pc[r] = "done" THEN ans[r] ELSE Nil]

Promise == INSTANCE KvStore WITH
  store <- Store, expiry <- Expiry, phase <- Phase, asked <- started, ans <- Answers

\* Whatever calls run concurrently, every call has its effect on the map at one moment
\* between its invocation and its answer, and a read is answered from one map.  The clock
\* is read as often as the code reads it: a batch may show a key at one moment and find
\* another expired at a later one, always at moments of the call when the map was as it
\* was answered from.
ImplementsPromise == Promise!Spec
=============================================================================
