---------------------------- MODULE KvRedb_proofs ----------------------------
(***************************************************************************)
(* Theorems about the redb backend, for every set of keys, requests and    *)
(* calls and every clock.  Three inductive invariants carry them: TypeOK   *)
(* /\ Isolation (IInv) for the transactions; HInv, over the histories of   *)
(* KvRedbHistory, for the answers of reads; and PlainInv, for the          *)
(* refinement of KvStore when nothing expires.                             *)
(***************************************************************************)
EXTENDS KvRedbHistory, KvRedbRefinement, TLAPS

-----------------------------------------------------------------------------
(* Lemmas about the API *)

\* What each operation carries: the fields of a call depend on its op only.
LEMMA CallShape ==
  ASSUME NEW c \in AnyCall
  PROVE  /\ c.op \in {"get", "exists", "ttl", "del", "incr", "set", "expire",
                      "mget", "keys", "mset"}
         /\ c.op \in {"get", "exists", "ttl", "del", "incr", "set", "expire"} => c.key \in Keys
         /\ c.op = "set" => c.value \in Value /\ c.ttl \in Int \union {Nil}
         /\ c.op = "expire" => c.seconds \in Int
         /\ c.op \in {"mget", "keys"} => c.keys \in SUBSET Keys
         /\ c.op = "mset" => \E K \in SUBSET Keys : c.pairs \in [K -> Value]
<1>1. c \in CallType
  BY CallsAssumption DEF AnyCall
<1>2. CASE c \in KeyCall
  BY <1>2 DEF KeyCall
<1>3. CASE c \in SetCall
  BY <1>3 DEF SetCall
<1>4. CASE c \in ExpireCall
  BY <1>4 DEF ExpireCall
<1>5. CASE c \in BatchCall
  BY <1>5 DEF BatchCall
<1>6. CASE c \in MsetCall
  BY <1>6 DEF MsetCall
<1>7. QED
  BY <1>1, <1>2, <1>3, <1>4, <1>5, <1>6 DEF CallType

\* INCR stays within the i64 range, at its upper end too (`current + 1`).
LEMMA SuccType ==
  ASSUME NEW v \in Value \union {Nil}
  PROVE  Succ(Number(v)) \in Value
BY ApiAssumption DEF Succ, Number, Value

\* An MSET leaves a table a table (mset_sync).
LEMMA OverwriteType ==
  ASSUME NEW table \in Table, NEW K \in SUBSET Keys, NEW pairs \in [K -> Value]
  PROVE  Overwrite(table, pairs) \in Table
BY DEF Overwrite, Table

\* A stored timestamp is a u64, whatever the seconds (`seconds as u64`).
LEMMA TimestampType ==
  ASSUME now \in Nat, NEW s \in Int
  PROVE  Timestamp(s) \in Stamp
<1>1. now + s \in Int /\ U64 \in Nat /\ U64 > 0
  BY RedbAssumption
<1>2. (now + s) % U64 \in 0 .. U64 - 1
  BY <1>1
<1>3. QED
  BY <1>2 DEF Timestamp, Stamp

-----------------------------------------------------------------------------
(* The inductive invariant *)

WriteOps == {"set", "mset", "del", "incr", "expire"}

\* The tables of the open transaction differ from the committed ones in the keys
\* of its call alone, and an INCR has added one to the committed number.
Delta(r) ==
  /\ \A k \in Keys \ KeysOf(call[r]) : wkv[k] = kv[k] /\ wttl[k] = ttl[k]
  /\ call[r].op = "incr" => /\ wkv[call[r].key] = Succ(Number(kv[call[r].key]))
                            /\ ans[r] = wkv[call[r].key]

\* Write transactions exclude each other.
Isolation ==
  /\ DOMAIN ans = Requests
  /\ \A r \in Requests : pc[r] # "idle" => call[r] \in AnyCall
  /\ \A r \in Requests : pc[r] = "commit" => writer = r /\ Delta(r)

IInv == TypeOK /\ Isolation

\* The initial tables are empty and nobody holds a transaction.
LEMMA InitIInv == Init => IInv
BY RedbAssumption DEF Init, IInv, TypeOK, Isolation, Empty, Table, TtlTable, ControlPoints

\* A step of one request at a point other than "commit" that leaves the tables
\* and the transaction alone preserves the invariant of all the others.
LEMMA ReadPreserves ==
  ASSUME IInv, ReadsOnly,
         NEW r \in Requests, pc[r] # "commit",
         NEW point \in ControlPoints \ {"commit"}, pc' = [pc EXCEPT ![r] = point],
         NEW c \in AnyCall \union {Nil}, call' = [call EXCEPT ![r] = c],
         point = "idle" \/ c \in AnyCall,
         NEW a, ans' = [ans EXCEPT ![r] = a] \/ ans' = ans,
         snap' \in [Requests -> Table],
         todo' \in [Requests -> SUBSET Keys],
         row' \in [Requests -> Row \union {Nil}]
  PROVE  IInv'
<1> USE DEF IInv, ReadsOnly
<1>1. TypeOK'
  BY DEF TypeOK
<1>2. DOMAIN ans' = Requests
  BY DEF Isolation
<1>3. ASSUME NEW q \in Requests, pc'[q] # "idle"
      PROVE  call'[q] \in AnyCall
  BY <1>3 DEF TypeOK, Isolation
<1>4. ASSUME NEW q \in Requests, pc'[q] = "commit"
      PROVE  writer' = q /\ Delta(q)'
  <2>1. q # r /\ pc[q] = "commit" /\ call'[q] = call[q]
    BY <1>4 DEF TypeOK
  <2>2. ans'[q] = ans[q]
    BY <2>1 DEF Isolation
  <2>3. QED
    BY <2>1, <2>2 DEF Isolation, Delta, KeysOf
<1>5. QED
  BY <1>1, <1>2, <1>3, <1>4 DEF Isolation

-----------------------------------------------------------------------------
(* Steps that leave the tables alone *)

\* A new call opens no write transaction.
LEMMA InvokePreserves ==
  ASSUME IInv, NEW r \in Requests, NEW c \in Calls[r], Invoke(r, c)
  PROVE  IInv'
<1>1. c \in AnyCall
  BY DEF AnyCall
<1>2. Start(c.op) \in ControlPoints \ {"commit"}
  BY DEF Start, ControlPoints
<1>3. todo' \in [Requests -> SUBSET Keys]
  BY <1>1, CallShape DEF Invoke, IInv, TypeOK
<1>4. QED
  BY <1>1, <1>2, <1>3, ReadPreserves DEF Invoke, IInv, TypeOK

\* The end of a call leaves the tables alone.
LEMMA ReplyPreserves ==
  ASSUME IInv, NEW r \in Requests, Reply(r)
  PROVE  IInv'
<1>1. Empty \in Table
  BY DEF Empty, Table
<1>2. "idle" \in ControlPoints \ {"commit"}
  BY DEF ControlPoints
<1>3. QED
  BY <1>1, <1>2, ReadPreserves DEF Reply, IInv, TypeOK

\* In the steps of a running read the call stays what it is.
LEMMA SameCall ==
  ASSUME IInv, NEW r \in Requests, pc[r] # "idle"
  PROVE  call[r] \in AnyCall /\ call = [call EXCEPT ![r] = call[r]]
BY DEF IInv, Isolation, TypeOK

\* No step of a read (get, exists, ttl, mget, keys, the look of expire) disturbs the
\* tables or the open transaction.
LEMMA ReadStepPreserves ==
  ASSUME IInv, NEW r \in Requests, Read(r)
  PROVE  IInv'
<1> DEFINE Points == {"check", "clock", "value", "begin", "done"}
<1>1. pc[r] # "idle" /\ pc[r] # "commit"
  BY DEF Read, OpenBatch, CheckRow, ClockGet, ReadValue, ClockBatch, OpenTtl, ClockTtl,
         LookExpire, At
<1>2. call[r] \in AnyCall /\ call' = [call EXCEPT ![r] = call[r]]
  BY <1>1, SameCall DEF Read, OpenBatch, CheckRow, ClockGet, ReadValue, ClockBatch, OpenTtl,
         ClockTtl, LookExpire, Goto, Answer
<1>3. ReadsOnly
  BY DEF Read, OpenBatch, CheckRow, ClockGet, ReadValue, ClockBatch, OpenTtl, ClockTtl,
         LookExpire
<1>4. \E point \in Points : pc' = [pc EXCEPT ![r] = point]
  BY DEF Read, OpenBatch, CheckRow, ClockGet, ReadValue, ClockBatch, OpenTtl, ClockTtl,
         LookExpire, Goto, Answer
<1>5. \E a : ans' = [ans EXCEPT ![r] = a] \/ ans' = ans
  BY DEF Read, OpenBatch, CheckRow, ClockGet, ReadValue, ClockBatch, OpenTtl, ClockTtl,
         LookExpire, Goto, Answer
<1>6. snap' \in [Requests -> Table]
  BY DEF Read, OpenBatch, CheckRow, ClockGet, ReadValue, ClockBatch, OpenTtl, ClockTtl,
         LookExpire, IInv, TypeOK
<1>7. todo' \in [Requests -> SUBSET Keys]
  <2>1. CASE OpenBatch(r)
    BY <2>1, <1>2, CallShape DEF OpenBatch, At, IInv, TypeOK
  <2>2. CASE ClockBatch(r)
    <3>1. todo[r] \ {row[r].key} \in SUBSET Keys
      BY DEF IInv, TypeOK
    <3>2. QED
      BY <2>2, <3>1 DEF ClockBatch, IInv, TypeOK
  <2>3. CASE ~OpenBatch(r) /\ ~ClockBatch(r)
    <3>1. todo' = todo
      BY <2>3 DEF Read, CheckRow, ClockGet, ReadValue, OpenTtl, ClockTtl, LookExpire
    <3>2. QED
      BY <3>1 DEF IInv, TypeOK
  <2>4. QED
    BY <2>1, <2>2, <2>3
<1>8. row' \in [Requests -> Row \union {Nil}]
  <2>1. CASE OpenTtl(r)
    BY <2>1, <1>2, CallShape DEF OpenTtl, At, IInv, TypeOK, TtlTable, Row
  <2>2. CASE CheckRow(r)
    BY <2>2 DEF CheckRow, IInv, TypeOK, TtlTable, Row
  <2>3. CASE ~OpenTtl(r) /\ ~CheckRow(r)
    BY <2>3 DEF Read, OpenBatch, ClockGet, ReadValue, ClockBatch, ClockTtl, LookExpire,
         IInv, TypeOK
  <2>4. QED
    BY <2>1, <2>2, <2>3
<1>9. \A point \in Points : point \in ControlPoints \ {"commit"}
  BY DEF ControlPoints
<1>10. QED
  BY <1>1, <1>2, <1>3, <1>4, <1>5, <1>6, <1>7, <1>8, <1>9, ReadPreserves

\* Time passing changes no table.
LEMMA TickPreserves ==
  ASSUME IInv, Tick
  PROVE  IInv'
BY DEF IInv, TypeOK, Isolation, Delta, KeysOf, Tick

\* A restart finds the committed tables and no transaction.
LEMMA CrashPreserves ==
  ASSUME IInv, Crash
  PROVE  IInv'
BY DEF IInv, TypeOK, Isolation, Crash, Empty, Table, ControlPoints

-----------------------------------------------------------------------------
(* Write transactions *)

\* What the five bodies of a write transaction have in common.
LEMMA BeginPreserves ==
  ASSUME IInv, NEW r \in Requests, NEW op \in WriteOps, Begin(r, op),
         wkv' \in Table, wttl' \in TtlTable,
         NEW a, Computes(r, a), Delta(r)'
  PROVE  IInv'
<1> USE DEF IInv, Begin, Computes, At
<1>1. TypeOK'
  BY DEF TypeOK, ControlPoints
<1>2. DOMAIN ans' = Requests
  BY DEF Isolation
<1>3. ASSUME NEW q \in Requests, pc'[q] # "idle"
      PROVE  call'[q] \in AnyCall
  BY <1>3 DEF TypeOK, Isolation
<1>4. ASSUME NEW q \in Requests, pc'[q] = "commit"
      PROVE  writer' = q /\ Delta(q)'
  BY <1>4, ApiAssumption DEF TypeOK, Isolation
<1>5. QED
  BY <1>1, <1>2, <1>3, <1>4 DEF Isolation

\* The body of set_sync writes its own key only.
LEMMA BeginSetPreserves ==
  ASSUME IInv, NEW r \in Requests, BeginSet(r)
  PROVE  IInv'
<1>1. call[r] \in AnyCall /\ call[r].op = "set" /\ "set" \in WriteOps
  BY DEF BeginSet, Begin, At, IInv, Isolation, WriteOps
<1>2. call[r].key \in Keys /\ call[r].value \in Value /\ call[r].ttl \in Int \union {Nil}
  BY <1>1, CallShape
<1>3. wkv' \in Table
  BY <1>2 DEF BeginSet, IInv, TypeOK, Table
<1>4. wttl' \in TtlTable
  BY <1>2, TimestampType DEF BeginSet, HasTtl, IInv, TypeOK, TtlTable
<1>5. Delta(r)'
  BY <1>1, <1>2 DEF BeginSet, Begin, Delta, KeysOf, IInv, TypeOK, Table, TtlTable
<1>6. QED
  BY <1>1, <1>3, <1>4, <1>5, BeginPreserves DEF BeginSet

\* The body of mset_sync writes the keys of its batch only.
LEMMA BeginMsetPreserves ==
  ASSUME IInv, NEW r \in Requests, BeginMset(r)
  PROVE  IInv'
<1>1. call[r] \in AnyCall /\ call[r].op = "mset" /\ "mset" \in WriteOps
  BY DEF BeginMset, Begin, At, IInv, Isolation, WriteOps
<1>2. PICK K \in SUBSET Keys : call[r].pairs \in [K -> Value]
  BY <1>1, CallShape
<1>3. wkv' \in Table
  BY <1>2, OverwriteType DEF BeginMset, IInv, TypeOK
<1>4. wttl' \in TtlTable
  BY DEF BeginMset, IInv, TypeOK
<1>5. Delta(r)'
  BY <1>1 DEF BeginMset, Begin, Delta, KeysOf, Overwrite, IInv, TypeOK, Table, TtlTable
<1>6. QED
  BY <1>1, <1>3, <1>4, <1>5, BeginPreserves DEF BeginMset

\* The body of del_sync writes its own key only, in both tables.
LEMMA BeginDelPreserves ==
  ASSUME IInv, NEW r \in Requests, BeginDel(r)
  PROVE  IInv'
<1>1. call[r] \in AnyCall /\ call[r].op = "del" /\ "del" \in WriteOps
  BY DEF BeginDel, Begin, At, IInv, Isolation, WriteOps
<1>2. call[r].key \in Keys
  BY <1>1, CallShape
<1>3. wkv' \in Table /\ wttl' \in TtlTable
  BY <1>2 DEF BeginDel, IInv, TypeOK, Table, TtlTable
<1>4. Delta(r)'
  BY <1>1, <1>2 DEF BeginDel, Begin, Delta, KeysOf, IInv, TypeOK, Table, TtlTable
<1>5. QED
  BY <1>1, <1>3, <1>4, BeginPreserves DEF BeginDel

\* The body of incr_sync writes its own key only, and answers what it writes.
LEMMA BeginIncrPreserves ==
  ASSUME IInv, NEW r \in Requests, BeginIncr(r)
  PROVE  IInv'
<1>1. call[r] \in AnyCall /\ call[r].op = "incr" /\ "incr" \in WriteOps
  BY DEF BeginIncr, Begin, At, IInv, Isolation, WriteOps
<1>2. call[r].key \in Keys
  BY <1>1, CallShape
<1>3. wkv' \in Table /\ wttl' \in TtlTable
  BY <1>2, SuccType DEF BeginIncr, IInv, TypeOK, Table, TtlTable
<1>4. Delta(r)'
  BY <1>1, <1>2 DEF BeginIncr, Begin, Computes, Delta, KeysOf, IInv, Isolation, TypeOK, Table,
         TtlTable
<1>5. QED
  BY <1>1, <1>3, <1>4, BeginPreserves DEF BeginIncr

\* The body of expire_sync writes the timestamp of its own key only.
LEMMA BeginExpirePreserves ==
  ASSUME IInv, NEW r \in Requests, BeginExpire(r)
  PROVE  IInv'
<1>1. call[r] \in AnyCall /\ call[r].op = "expire" /\ "expire" \in WriteOps
  BY DEF BeginExpire, Begin, At, IInv, Isolation, WriteOps
<1>2. call[r].key \in Keys /\ call[r].seconds \in Int
  BY <1>1, CallShape
<1>3. wkv' \in Table /\ wttl' \in TtlTable
  BY <1>2, TimestampType DEF BeginExpire, IInv, TypeOK, Table, TtlTable
<1>4. Delta(r)'
  BY <1>1, <1>2 DEF BeginExpire, Begin, Delta, KeysOf, IInv, TypeOK, Table, TtlTable
<1>5. QED
  BY <1>1, <1>3, <1>4, BeginPreserves DEF BeginExpire

\* A transaction that ends leaves no request at "commit": there was only one.
LEMMA CommitPreserves ==
  ASSUME IInv, NEW r \in Requests, Commit(r)
  PROVE  IInv'
<1> USE DEF IInv, Commit, Goto
<1>1. TypeOK'
  BY DEF TypeOK, ControlPoints
<1>2. \A q \in Requests : pc'[q] # "commit"
  BY DEF TypeOK, Isolation
<1>3. QED
  BY <1>1, <1>2 DEF Isolation, TypeOK

\* A failed transaction is gone, and its lock with it.
LEMMA AbortPreserves ==
  ASSUME IInv, NEW r \in Requests, Abort(r)
  PROVE  IInv'
<1> USE DEF IInv, Abort
<1>1. TypeOK'
  BY DEF TypeOK, ControlPoints
<1>2. \A q \in Requests : pc'[q] # "commit"
  BY DEF TypeOK, Isolation
<1>3. QED
  BY <1>1, <1>2 DEF Isolation, TypeOK

\* A stuttering step changes nothing.
LEMMA StutterPreserves ==
  ASSUME IInv, UNCHANGED vars
  PROVE  IInv'
BY DEF IInv, TypeOK, Isolation, Delta, KeysOf, vars

\* Every step preserves the inductive invariant.
LEMMA NextPreserves == IInv /\ [Next]_vars => IInv'
<1> SUFFICES ASSUME IInv, [Next]_vars
             PROVE  IInv'
  OBVIOUS
<1>1. ASSUME NEW r \in Requests, Write(r)
      PROVE  IInv'
  BY <1>1, BeginSetPreserves, BeginMsetPreserves, BeginDelPreserves, BeginIncrPreserves,
     BeginExpirePreserves, CommitPreserves, AbortPreserves DEF Write
<1>2. QED
  BY <1>1, InvokePreserves, ReplyPreserves, ReadStepPreserves, TickPreserves, CrashPreserves,
     StutterPreserves DEF Next

\* The inductive invariant holds in every reachable state.
THEOREM Invariance == Spec => []IInv
BY InitIInv, NextPreserves, PTL DEF Spec

\* The tables, the open transaction and the requests keep their types: in
\* particular every timestamp that set_sync and expire_sync store is a u64, also
\* for a negative number of seconds.
THEOREM TypeCorrect == Spec => []TypeOK
<1>1. IInv => TypeOK
  BY DEF IInv
<1>2. QED
  BY <1>1, Invariance, PTL

-----------------------------------------------------------------------------
(* What a commit changes *)

\* A request leaves "commit" for "done" by committing, in no other way.
LEMMA OnlyCommitEnds ==
  ASSUME IInv, [Next]_vars, NEW r \in Requests, pc[r] = "commit", pc'[r] = "done"
  PROVE  Commit(r)
<1>1. ASSUME NEW q \in Requests, NEW c \in Calls[q], Invoke(q, c)
      PROVE  FALSE
  BY <1>1 DEF Invoke, IInv, TypeOK
<1>2. ASSUME NEW q \in Requests, Read(q)
      PROVE  FALSE
  BY <1>2 DEF Read, OpenBatch, CheckRow, ClockGet, ReadValue, ClockBatch, OpenTtl, ClockTtl,
         LookExpire, Goto, Answer, At, IInv, TypeOK
<1>3. ASSUME NEW q \in Requests, Write(q)
      PROVE  Commit(r)
  BY <1>3 DEF Write, BeginSet, BeginMset, BeginDel, BeginIncr, BeginExpire, Begin, Commit, Abort,
         Goto, At, IInv, TypeOK
<1>4. ASSUME NEW q \in Requests, Reply(q)
      PROVE  FALSE
  BY <1>4 DEF Reply, IInv, TypeOK
<1>5. QED
  BY <1>1, <1>2, <1>3, <1>4 DEF Next, Tick, Crash, vars, IInv, TypeOK

\* The committed tables change in commits only.
LEMMA OnlyCommitWrites ==
  ASSUME [Next]_vars, kv' # kv \/ ttl' # ttl
  PROVE  \E r \in Requests : Commit(r)
BY DEF Next, Invoke, Reply, Read, OpenBatch, CheckRow, ClockGet, ReadValue, ClockBatch, OpenTtl,
       ClockTtl, LookExpire, ReadsOnly, Write, BeginSet, BeginMset, BeginDel, BeginIncr,
       BeginExpire, Begin, Abort, Tick, Crash, vars

\* INCR is atomic, for any number of concurrent requests of any kind: the number
\* it commits is the successor of the number it replaces (incr_sync; README
\* "Increment (atomic)").
THEOREM IncrementIsAtomic == Spec => IncrementsOnce
<1> DEFINE Step == \A r \in Requests : Commits(r, {"incr"}) =>
                     LET k == call[r].key IN
                     kv'[k] = Succ(Number(kv[k])) /\ ans'[r] = kv'[k]
<1>1. IInv /\ [Next]_vars => Step
  <2> SUFFICES ASSUME IInv, [Next]_vars, NEW r \in Requests, Commits(r, {"incr"})
               PROVE  /\ kv'[call[r].key] = Succ(Number(kv[call[r].key]))
                      /\ ans'[r] = kv'[call[r].key]
    OBVIOUS
  <2>1. Commit(r)
    BY OnlyCommitEnds DEF Commits, At
  <2>2. call[r].op = "incr" /\ Delta(r)
    BY DEF Commits, At, IInv, Isolation
  <2>3. QED
    BY <2>1, <2>2 DEF Commit, Goto, Delta
<1>2. QED
  BY <1>1, Invariance, PTL DEF Spec, IncrementsOnce

\* No write is lost: whatever else is in flight, the committed value and
\* timestamp of a key change only when a call on that key commits.
THEOREM NoUpdateIsLost == Spec => OnlyTheWriterWrites
<1> DEFINE Step == \A k \in Keys : (kv'[k] # kv[k] \/ ttl'[k] # ttl[k]) =>
                     \E r \in Requests : pc[r] = "commit" /\ pc'[r] = "done" /\ k \in KeysOf(call[r])
<1>1. IInv /\ [Next]_vars => Step
  <2> SUFFICES ASSUME IInv, [Next]_vars, NEW k \in Keys, kv'[k] # kv[k] \/ ttl'[k] # ttl[k]
               PROVE  \E r \in Requests : /\ pc[r] = "commit" /\ pc'[r] = "done"
                                          /\ k \in KeysOf(call[r])
    OBVIOUS
  <2>1. PICK r \in Requests : Commit(r)
    BY OnlyCommitWrites
  <2>2. pc[r] = "commit" /\ pc'[r] = "done"
    BY <2>1 DEF Commit, Goto, IInv, TypeOK
  <2>3. k \in KeysOf(call[r])
    BY <2>1, <2>2 DEF Commit, IInv, Isolation, Delta
  <2>4. QED
    BY <2>2, <2>3
<1>2. QED
  BY <1>1, Invariance, PTL DEF Spec, OnlyTheWriterWrites

-----------------------------------------------------------------------------
(* Orphan timestamps *)

\* A step that neither begins nor commits a write transaction leaves the open one, if it
\* is still there, as it is.
LEMMA OthersKeepTxn ==
  ASSUME IInv, [Next]_vars,
         ~\E r \in Requests : Commit(r),
         ~\E r \in Requests :
            BeginSet(r) \/ BeginMset(r) \/ BeginDel(r) \/ BeginIncr(r) \/ BeginExpire(r)
  PROVE  \A q \in Requests : pc'[q] = "commit" =>
           pc[q] = "commit" /\ wkv' = wkv /\ wttl' = wttl /\ call'[q] = call[q]
<1> DEFINE Keeps == \A q \in Requests : pc'[q] = "commit" =>
                      pc[q] = "commit" /\ wkv' = wkv /\ wttl' = wttl /\ call'[q] = call[q]
<1>1. ASSUME NEW r \in Requests, NEW c \in Calls[r], Invoke(r, c)
      PROVE  Keeps
  BY <1>1 DEF Invoke, Start, ReadsOnly, IInv, TypeOK
<1>2. ASSUME NEW r \in Requests, Read(r)
      PROVE  Keeps
  BY <1>2 DEF Read, OpenBatch, CheckRow, ClockGet, ReadValue, ClockBatch, OpenTtl,
         ClockTtl, LookExpire, Goto, Answer, ReadsOnly, IInv, TypeOK
<1>3. ASSUME NEW r \in Requests, Abort(r)
      PROVE  \A q \in Requests : pc'[q] # "commit"
  BY <1>3 DEF Abort, IInv, Isolation, TypeOK
<1>4. ASSUME NEW r \in Requests, Reply(r)
      PROVE  Keeps
  BY <1>4 DEF Reply, ReadsOnly, IInv, TypeOK
<1>5. QED
  BY <1>1, <1>2, <1>3, <1>4 DEF Next, Write, Tick, Crash, vars

\* In the open transaction, only EXPIRE has left a timestamp without its key.
NewOrphanInTxn ==
  \A r \in Requests : pc[r] = "commit" =>
    \A k \in Keys : (wttl[k] # Nil /\ wkv[k] = Nil) =>
      \/ ttl[k] # Nil /\ kv[k] = Nil
      \/ call[r].op = "expire" /\ call[r].key = k

\* The bodies of the write transactions, one by one.
LEMMA BeginMakesNoOrphan ==
  ASSUME IInv, NEW r \in Requests,
         BeginSet(r) \/ BeginMset(r) \/ BeginDel(r) \/ BeginIncr(r) \/ BeginExpire(r)
  PROVE  NewOrphanInTxn'
<1> USE DEF IInv, TypeOK, Table, TtlTable
<1>1. pc[r] = "begin" /\ call[r] \in AnyCall /\ call' = call /\ kv' = kv /\ ttl' = ttl
  BY DEF BeginSet, BeginMset, BeginDel, BeginIncr, BeginExpire, Begin, At, Isolation
<1>2. \A q \in Requests : pc'[q] = "commit" => q = r
  BY ApiAssumption
     DEF BeginSet, BeginMset, BeginDel, BeginIncr, BeginExpire, Begin, Isolation
<1>3. \A k \in Keys : (wttl'[k] # Nil /\ wkv'[k] = Nil) =>
        \/ ttl[k] # Nil /\ kv[k] = Nil
        \/ call[r].op = "expire" /\ call[r].key = k
  <2>1. CASE BeginSet(r)
    BY <1>1, <2>1, CallShape, ApiAssumption DEF BeginSet, Begin, At
  <2>2. CASE BeginMset(r)
    BY <1>1, <2>2, CallShape, ApiAssumption DEF BeginMset, Begin, At, Overwrite
  <2>3. CASE BeginDel(r)
    BY <1>1, <2>3, CallShape DEF BeginDel, Begin, At
  <2>4. CASE BeginIncr(r)
    BY <1>1, <2>4, CallShape, SuccType, ApiAssumption DEF BeginIncr, Begin, At
  <2>5. CASE BeginExpire(r)
    BY <1>1, <2>5, CallShape DEF BeginExpire, Begin, At
  <2>6. QED
    BY <2>1, <2>2, <2>3, <2>4, <2>5
<1>4. QED
  BY <1>1, <1>2, <1>3 DEF NewOrphanInTxn

\* Of all steps only the commit of an EXPIRE can leave a timestamp without its key
\* (expire_sync looks for the key in one transaction and writes in another).
THEOREM OrphansComeFromExpire == Spec => OrphanOnlyByExpire
<1> DEFINE Step == \A k \in Keys : (ttl'[k] # Nil /\ kv'[k] = Nil) =>
                     \/ ttl[k] # Nil /\ kv[k] = Nil
                     \/ \E r \in Requests : Commits(r, {"expire"}) /\ call[r].key = k
<1>1. Init => NewOrphanInTxn
  BY DEF Init, NewOrphanInTxn
<1>2. IInv /\ NewOrphanInTxn /\ [Next]_vars => NewOrphanInTxn' /\ Step
  <2> SUFFICES ASSUME IInv, NewOrphanInTxn, [Next]_vars
               PROVE  NewOrphanInTxn' /\ Step
    OBVIOUS
  <2>1. CASE \E r \in Requests : Commit(r)
    <3>1. PICK r \in Requests : Commit(r)
      BY <2>1
    <3>2. NewOrphanInTxn'
      BY <3>1 DEF Commit, Goto, NewOrphanInTxn, IInv, Isolation, TypeOK
    <3>3. Step
      BY <3>1 DEF Commit, Goto, Commits, At, NewOrphanInTxn, IInv, TypeOK
    <3>4. QED
      BY <3>2, <3>3
  <2>2. CASE ~\E r \in Requests : Commit(r)
    <3>1. kv' = kv /\ ttl' = ttl
      BY <2>2, OnlyCommitWrites
    <3>2. CASE \E r \in Requests :
                 BeginSet(r) \/ BeginMset(r) \/ BeginDel(r) \/ BeginIncr(r) \/ BeginExpire(r)
      BY <3>1, <3>2, BeginMakesNoOrphan
    <3>3. CASE ~\E r \in Requests :
                 BeginSet(r) \/ BeginMset(r) \/ BeginDel(r) \/ BeginIncr(r) \/ BeginExpire(r)
      BY <2>2, <3>1, <3>3, OthersKeepTxn DEF NewOrphanInTxn
    <3>4. QED
      BY <3>1, <3>2, <3>3
  <2>3. QED
    BY <2>1, <2>2
<1>3. QED
  BY <1>1, <1>2, Invariance, PTL DEF Spec, OrphanOnlyByExpire

-----------------------------------------------------------------------------
(* Who does what *)

StepOf(r) == (\E c \in Calls[r] : Invoke(r, c)) \/ Read(r) \/ Write(r) \/ Reply(r)

\* Nothing of request s changes.
Rests(s) ==
  /\ pc'[s] = pc[s] /\ call'[s] = call[s] /\ snap'[s] = snap[s]
  /\ todo'[s] = todo[s] /\ row'[s] = row[s] /\ ans'[s] = ans[s]

\* Each operation passes its own control points.
ControlOf(r) ==
  /\ pc[r] = "check" => call[r].op \in {"get", "exists", "mget", "keys"}
  /\ pc[r] = "clock" => call[r].op \in {"get", "exists", "mget", "keys", "ttl"}
  /\ pc[r] = "value" => call[r].op \in {"get", "exists"}
  /\ pc[r] = "open" => call[r].op \in {"mget", "keys", "ttl"}
  /\ pc[r] = "look" => call[r].op = "expire"
  /\ pc[r] \in {"begin", "commit", "failed"} => call[r].op \in WriteOps

Control == \A r \in Requests : ControlOf(r)

\* A step of one request touches no other, and no clock.
LEMMA OneActs ==
  ASSUME IInv, NEW r \in Requests, StepOf(r), NEW s \in Requests \ {r}
  PROVE  Rests(s) /\ now' = now
<1> USE DEF IInv, TypeOK, Isolation
<1>1. CASE \E c \in Calls[r] : Invoke(r, c)
  BY <1>1 DEF Invoke, ReadsOnly, Rests
<1>2. CASE Read(r)
  <2>1. now' = now
    BY <1>2 DEF Read, OpenBatch, CheckRow, ClockGet, ReadValue, ClockBatch, OpenTtl, ClockTtl,
       LookExpire, ReadsOnly
  <2>2. CASE OpenBatch(r) \/ CheckRow(r)
    BY <2>1, <2>2 DEF OpenBatch, CheckRow, Goto, Rests
  <2>3. CASE ClockGet(r) \/ ReadValue(r)
    BY <2>1, <2>3 DEF ClockGet, ReadValue, Goto, Answer, Rests
  <2>4. CASE ClockBatch(r)
    BY <2>1, <2>4 DEF ClockBatch, Rests
  <2>5. CASE OpenTtl(r) \/ ClockTtl(r) \/ LookExpire(r)
    BY <2>1, <2>5 DEF OpenTtl, ClockTtl, LookExpire, Goto, Answer, Rests
  <2>6. QED
    BY <1>2, <2>2, <2>3, <2>4, <2>5 DEF Read
<1>3. CASE Write(r)
  <2>1. CASE BeginSet(r) \/ BeginMset(r) \/ BeginDel(r) \/ BeginIncr(r) \/ BeginExpire(r)
    BY <2>1 DEF BeginSet, BeginMset, BeginDel, BeginIncr, BeginExpire, Begin, Computes, Rests
  <2>2. CASE Commit(r) \/ Abort(r)
    BY <2>2 DEF Commit, Abort, Goto, Rests
  <2>3. QED
    BY <1>3, <2>1, <2>2 DEF Write
<1>4. CASE Reply(r)
  BY <1>4 DEF Reply, ReadsOnly, Rests
<1>5. QED
  BY <1>1, <1>2, <1>3, <1>4 DEF StepOf

\* No step takes a request where its operation does not go.
LEMMA ControlStep ==
  ASSUME IInv, Control, NEW r \in Requests, StepOf(r)
  PROVE  ControlOf(r)'
<1>0. /\ pc \in [Requests -> ControlPoints] /\ ControlOf(r)
      /\ call \in [Requests -> AnyCall \union {Nil}]
      /\ pc[r] # "idle" => call[r] \in AnyCall
  BY DEF IInv, TypeOK, Isolation, Control
<1>1. CASE \E c \in Calls[r] : Invoke(r, c)
  <2>1. PICK c \in Calls[r] : Invoke(r, c)
    BY <1>1
  <2>2. c \in AnyCall
    BY DEF AnyCall
  <2>3. pc'[r] = Start(c.op) /\ call'[r] = c
    BY <1>0, <2>1 DEF Invoke
  <2>4. c.op \in {"get", "exists", "ttl", "mget", "keys"} \union WriteOps
    BY <2>2, CallShape DEF WriteOps
  <2>5. QED
    BY <2>3, <2>4 DEF ControlOf, Start, WriteOps
<1>2. CASE Read(r)
  <2>1. CASE OpenBatch(r)
    BY <1>0, <2>1 DEF OpenBatch, At, ControlOf
  <2>2. CASE CheckRow(r)
    BY <1>0, <2>2 DEF CheckRow, Goto, ControlOf
  <2>3. CASE ClockGet(r) \/ ReadValue(r)
    BY <1>0, <2>3 DEF ClockGet, ReadValue, At, Goto, Answer, ControlOf
  <2>4. CASE ClockBatch(r)
    BY <1>0, <2>4 DEF ClockBatch, At, ControlOf
  <2>5. CASE OpenTtl(r) \/ ClockTtl(r)
    BY <1>0, <2>5 DEF OpenTtl, ClockTtl, At, Goto, Answer, ControlOf
  <2>6. CASE LookExpire(r)
    BY <1>0, <2>6 DEF LookExpire, At, Goto, Answer, ControlOf, WriteOps
  <2>7. QED
    BY <1>2, <2>1, <2>2, <2>3, <2>4, <2>5, <2>6 DEF Read
<1>3. CASE Write(r)
  <2>1. call' = call /\ pc'[r] \in {"commit", "done", "failed"} /\ pc[r] \in {"begin", "commit"}
    BY <1>0, <1>3 DEF Write, BeginSet, BeginMset, BeginDel, BeginIncr, BeginExpire, Begin, At,
       Commit, Goto, Abort
  <2>2. QED
    BY <1>0, <2>1 DEF ControlOf
<1>4. CASE Reply(r)
  <2>1. pc'[r] = "idle"
    BY <1>0, <1>4 DEF Reply
  <2>2. QED
    BY <2>1 DEF ControlOf
<1>5. QED
  BY <1>1, <1>2, <1>3, <1>4 DEF StepOf

\* ... whoever acts.
LEMMA ControlPreserved ==
  ASSUME IInv, Control, [Next]_vars
  PROVE  Control'
<1>1. ASSUME NEW r \in Requests, StepOf(r) PROVE Control'
  <2>1. ASSUME NEW s \in Requests \ {r} PROVE ControlOf(s)'
    <3>1. Rests(s) /\ ControlOf(s)
      BY <1>1, OneActs DEF Control
    <3>2. QED
      BY <3>1 DEF Rests, ControlOf
  <2>2. QED
    BY <1>1, <2>1, ControlStep DEF Control
<1>2. CASE Tick \/ UNCHANGED vars
  BY <1>2 DEF Tick, vars, Control, ControlOf
<1>3. CASE Crash
  BY <1>3 DEF Crash, Control, ControlOf
<1>4. QED
  BY <1>1, <1>2, <1>3 DEF Next, StepOf

-----------------------------------------------------------------------------
(* Reads *)

Batches == {"mget", "keys"}

\* The row a read has looked at was there during its call.
RowSeen(r) ==
  /\ row[r] \in Row
  /\ row[r].at # Nil => <<row[r].key, row[r].at>> \in stamps[r]

\* Table t explains the answer a to the batch c, but for the keys yet to visit.
Walked(c, a, t, pending, aged) ==
  /\ c.op = "mget" =>
       /\ DOMAIN a = c.keys
       /\ \A k \in c.keys : a[k] = t[k] \/ (a[k] = Nil /\ k \in pending \union aged)
  /\ c.op = "keys" =>
       \A k \in c.keys :
         IF k \in a THEN t[k] # Nil ELSE t[k] = Nil \/ k \in pending \union aged

\* Tables T and the keys that have aged justify the answer a to the lookup c.
LookupOk(c, a, T, aged) ==
  /\ c.op = "get" => (\E t \in T : a = t[c.key]) \/ (a = Nil /\ c.key \in aged)
  /\ c.op = "exists" => (\E t \in T : a = (t[c.key] # Nil)) \/ (a = FALSE /\ c.key \in aged)

\* ... and rows R of the "ttl" table, at time n, that to a TTL of key k.
TtlOk(k, a, T, R, n, aged) ==
  \/ a = -2 /\ ((\E t \in T : t[k] = Nil) \/ k \in aged)
  \/ a = -1 /\ (\E t \in T : t[k] # Nil)
  \/ a >= 1 /\ (\E s \in R : s[1] = k /\ s[2] - a \in Epoch .. n)
  \/ a < -2 /\ (\E s \in R : s[1] = k /\ s[2] - (a + U64) \in Epoch .. n)

AgedKeys(r) == {k \in Keys : Aged(r, k)}

\* A read knows what its history has.
ReadInv(r) ==
  /\ pc[r] # "done" => kv \in tabs[r] /\ Stamps \subseteq stamps[r]
  /\ pc[r] = "clock" => RowSeen(r)
  /\ pc[r] \in {"check", "clock"} /\ call[r].op \in {"get", "exists"} =>
       todo[r] = {call[r].key}
  /\ pc[r] = "clock" /\ call[r].op \in {"get", "exists", "ttl"} => row[r].key = call[r].key
  /\ pc[r] = "clock" /\ call[r].op = "ttl" => row[r].at # Nil
  /\ pc[r] \in {"check", "clock"} /\ call[r].op \in Batches =>
       /\ snap[r] \in tabs[r]
       /\ Walked(call[r], ans[r], snap[r], todo[r], AgedKeys(r))
       /\ pc[r] = "clock" => row[r].key \in todo[r]
       /\ call[r].op = "keys" => \A k \in todo[r] : snap[r][k] # Nil
  /\ pc[r] = "done" =>
       /\ call[r].op \in Batches => \E t \in tabs[r] : Walked(call[r], ans[r], t, {}, AgedKeys(r))
       /\ LookupOk(call[r], ans[r], tabs[r], AgedKeys(r))
       /\ call[r].op = "ttl" =>
            TtlOk(call[r].key, ans[r], tabs[r], stamps[r], now, AgedKeys(r))

Reading(r) == pc[r] # "idle" /\ call[r].op \in Reads

\* What the histories hold.
HistoryType ==
  /\ now >= Epoch
  /\ \A r \in Requests : stamps[r] \subseteq Keys \X Nat

HInv == IInv /\ Control /\ HistoryType /\ \A r \in Requests : Reading(r) => ReadInv(r)

\* A read that goes on: its history has all it had, and what is there now.
LEMMA Recorded ==
  ASSUME HistoryNext, NEW r \in Requests, Reading(r)'
  PROVE  /\ tabs[r] \subseteq tabs'[r] /\ stamps[r] \subseteq stamps'[r]
         /\ pc[r] # "done" => kv' \in tabs'[r] /\ Stamps' \subseteq stamps'[r]
<1>1. pc'[r] # "idle" /\ call'[r].op \in Reads
  BY DEF Reading
<1>2. tabs'[r] = IF pc[r] = "done" THEN tabs[r] ELSE tabs[r] \union {kv'}
  BY <1>1 DEF HistoryNext, Record
<1>3. stamps'[r] = IF pc[r] = "done" THEN stamps[r] ELSE stamps[r] \union Stamps'
  BY <1>1 DEF HistoryNext, Record
<1>4. QED
  BY <1>2, <1>3

\* What has aged stays so.
LEMMA AgedGrows ==
  ASSUME HistoryType, NEW r \in Requests, now \in Nat, now' \in Nat, now' >= now,
         stamps[r] \subseteq stamps'[r]
  PROVE  AgedKeys(r) \subseteq AgedKeys(r)'
<1> SUFFICES ASSUME NEW k \in Keys, Aged(r, k) PROVE Aged(r, k)'
  BY DEF AgedKeys
<1>1. PICK s \in stamps[r] : s[1] = k /\ now >= s[2]
  BY DEF Aged
<1>2. s[2] \in Nat
  BY DEF HistoryType
<1>3. now' >= s[2] /\ s \in stamps'[r]
  BY <1>1, <1>2
<1>4. QED
  BY <1>1, <1>3 DEF Aged

\* What explains an answer still does when more has aged.
LEMMA MoreAged ==
  ASSUME NEW c, NEW a, NEW t, NEW p, NEW A, NEW A2, A \subseteq A2, Walked(c, a, t, p, A)
  PROVE  Walked(c, a, t, p, A2)
BY DEF Walked

\* More history justifies no less.
LEMMA MoreHistory ==
  ASSUME NEW T, NEW T2, T \subseteq T2, NEW A, NEW A2, A \subseteq A2, NEW R, NEW R2, R \subseteq R2,
         NEW n \in Nat, NEW m \in Nat, n <= m, NEW c, NEW a
  PROVE  /\ \A t, p : Walked(c, a, t, p, A) => Walked(c, a, t, p, A2)
         /\ LookupOk(c, a, T, A) => LookupOk(c, a, T2, A2)
         /\ TtlOk(c.key, a, T, R, n, A) => TtlOk(c.key, a, T2, R2, m, A2)
<1>1. ASSUME NEW t, NEW p, Walked(c, a, t, p, A) PROVE Walked(c, a, t, p, A2)
  BY <1>1, MoreAged
<1>2. ASSUME LookupOk(c, a, T, A) PROVE LookupOk(c, a, T2, A2)
  BY <1>2 DEF LookupOk
<1>3. Epoch .. n \subseteq Epoch .. m
  BY RedbAssumption
<1>4. ASSUME TtlOk(c.key, a, T, R, n, A) PROVE TtlOk(c.key, a, T2, R2, m, A2)
  <2>1. CASE a >= 1 /\ \E s \in R : s[1] = c.key /\ s[2] - a \in Epoch .. n
    BY <1>3, <2>1 DEF TtlOk
  <2>2. CASE a < -2 /\ \E s \in R : s[1] = c.key /\ s[2] - (a + U64) \in Epoch .. n
    BY <1>3, <2>2 DEF TtlOk
  <2>3. CASE a = -2 /\ ((\E t \in T : t[c.key] = Nil) \/ c.key \in A)
    BY <2>3 DEF TtlOk
  <2>4. CASE a = -1 /\ (\E t \in T : t[c.key] # Nil)
    BY <2>4 DEF TtlOk
  <2>5. QED
    BY <1>4, <2>1, <2>2, <2>3, <2>4 DEF TtlOk
<1>5. QED
  BY <1>1, <1>2, <1>4

\* A read that rests stays justified, whatever the others commit.
LEMMA RestPreserves ==
  ASSUME HInv, HistoryNext, now' \in Nat, now' >= now,
         NEW r \in Requests, Rests(r), Reading(r)'
  PROVE  ReadInv(r)'
<1>1. Reading(r) /\ ReadInv(r) /\ HistoryType /\ now \in Nat
  BY DEF HInv, Reading, Rests, IInv, TypeOK
<1>2. /\ tabs[r] \subseteq tabs'[r] /\ stamps[r] \subseteq stamps'[r]
      /\ pc[r] # "done" => kv' \in tabs'[r] /\ Stamps' \subseteq stamps'[r]
  BY Recorded
<1>3. AgedKeys(r) \subseteq AgedKeys(r)'
  BY <1>1, <1>2, AgedGrows
<1>4. /\ \A t, p : Walked(call[r], ans[r], t, p, AgedKeys(r)) =>
                     Walked(call[r], ans[r], t, p, AgedKeys(r)')
      /\ LookupOk(call[r], ans[r], tabs[r], AgedKeys(r)) =>
           LookupOk(call[r], ans[r], tabs'[r], AgedKeys(r)')
      /\ TtlOk(call[r].key, ans[r], tabs[r], stamps[r], now, AgedKeys(r)) =>
           TtlOk(call[r].key, ans[r], tabs'[r], stamps'[r], now', AgedKeys(r)')
  BY <1>1, <1>2, <1>3, MoreHistory
<1>5. QED
  BY <1>1, <1>2, <1>4 DEF ReadInv, RowSeen, Rests

\* A step of a read: it finds the tables as they are, and its history goes on.
LEMMA ReaderSees ==
  ASSUME HInv, HistoryNext, NEW r \in Requests, Read(r), Reading(r)'
  PROVE  /\ ReadInv(r) /\ Reading(r) /\ call[r] \in AnyCall /\ pc[r] # "done"
         /\ kv' = kv /\ ttl' = ttl /\ now' = now /\ call' = call /\ now \in Nat
         /\ kv \in tabs'[r] /\ Stamps \subseteq stamps'[r] /\ Stamps' = Stamps
         /\ tabs[r] \subseteq tabs'[r] /\ stamps[r] \subseteq stamps'[r]
         /\ AgedKeys(r) \subseteq AgedKeys(r)'
<1>1. /\ kv' = kv /\ ttl' = ttl /\ now' = now /\ call' = call
      /\ pc[r] \notin {"idle", "done"}
  BY DEF Read, OpenBatch, CheckRow, ClockGet, ReadValue, ClockBatch, OpenTtl, ClockTtl,
         LookExpire, Goto, Answer, At, ReadsOnly
<1>2. Reading(r) /\ ReadInv(r) /\ HistoryType /\ now \in Nat /\ call[r] \in AnyCall
  BY <1>1 DEF Reading, HInv, IInv, TypeOK, Isolation
<1>3. Stamps' = Stamps
  BY <1>1 DEF Stamps
<1>4. /\ tabs[r] \subseteq tabs'[r] /\ stamps[r] \subseteq stamps'[r]
      /\ kv \in tabs'[r] /\ Stamps \subseteq stamps'[r]
  BY <1>1, <1>3, Recorded
<1>5. AgedKeys(r) \subseteq AgedKeys(r)'
  BY <1>1, <1>2, <1>4, AgedGrows
<1>6. QED
  BY <1>1, <1>2, <1>3, <1>4, <1>5

\* A row of the history that has passed.
LEMMA PassedIsAged ==
  ASSUME NEW r \in Requests, RowSeen(r), Past(row[r].at), stamps[r] \subseteq stamps'[r],
         now' = now
  PROVE  row[r].key \in AgedKeys(r)'
<1>1. <<row[r].key, row[r].at>> \in stamps'[r] /\ now' >= row[r].at /\ row[r].key \in Keys
  BY DEF RowSeen, Past, Row
<1> DEFINE s == <<row[r].key, row[r].at>>
<1>2. s[1] = row[r].key /\ s[2] = row[r].at
  OBVIOUS
<1>3. \E x \in stamps'[r] : x[1] = row[r].key /\ now' >= x[2]
  BY <1>1, <1>2
<1>4. QED
  BY <1>1, <1>3 DEF AgedKeys, Aged

\* A timestamp that is there is a row of the history.
LEMMA RowOfTable ==
  ASSUME NEW k \in Keys, ttl[k] # Nil
  PROVE  <<k, ttl[k]>> \in Stamps
BY DEF Stamps

\* A snapshot explains the answer with which its batch begins.
LEMMA OpenBatchJustified ==
  ASSUME HInv, HistoryNext, NEW r \in Requests, OpenBatch(r), Reading(r)'
  PROVE  ReadInv(r)'
<1> DEFINE c == call[r]
           visit == IF c.op = "mget" THEN c.keys ELSE {k \in c.keys : kv[k] # Nil}
           a == IF c.op = "mget" THEN [k \in c.keys |-> Nil] ELSE {}
<1>1. Read(r) /\ c.op \in Batches
  BY DEF OpenBatch, At, Read, Batches
<1>2. /\ kv' = kv /\ call' = call /\ kv \in tabs'[r] /\ Stamps' \subseteq stamps'[r]
      /\ pc[r] # "done"
  BY <1>1, ReaderSees
<1>3. /\ snap'[r] = kv /\ todo'[r] = visit /\ ans'[r] = a
      /\ pc'[r] = IF visit = {} THEN "done" ELSE "check"
  BY DEF OpenBatch, HInv, IInv, TypeOK, Isolation
<1>4. Walked(c, a, kv, visit, AgedKeys(r)')
  BY DEF Walked
<1>5. c.op = "keys" => \A k \in visit : kv[k] # Nil
  OBVIOUS
<1> HIDE DEF visit, a
<1>6. LookupOk(c, a, tabs'[r], AgedKeys(r)') /\ c.op # "ttl"
  BY <1>1 DEF LookupOk, Batches
<1>7. pc'[r] = "done" => \E t \in tabs'[r] : Walked(c, a, t, {}, AgedKeys(r)')
  BY <1>2, <1>3, <1>4
<1>8. QED
  BY <1>1, <1>2, <1>3, <1>4, <1>5, <1>6, <1>7 DEF ReadInv, Batches

\* The row that is looked at is in the history.
LEMMA CheckRowJustified ==
  ASSUME HInv, HistoryNext, NEW r \in Requests, CheckRow(r), Reading(r)'
  PROVE  ReadInv(r)'
<1>1. Read(r)
  BY DEF Read
<1>2. /\ ReadInv(r) /\ kv' = kv /\ call' = call /\ kv \in tabs'[r] /\ Stamps \subseteq stamps'[r]
      /\ Stamps' = Stamps /\ tabs[r] \subseteq tabs'[r]
      /\ AgedKeys(r) \subseteq AgedKeys(r)' /\ now \in Nat
  BY <1>1, ReaderSees
<1>3. /\ pc[r] = "check" /\ pc'[r] = "clock" /\ snap' = snap /\ todo' = todo /\ ans' = ans
      /\ call[r].op # "ttl"
  BY DEF CheckRow, Goto, HInv, IInv, TypeOK, Control, ControlOf
<1>4. PICK k \in todo[r] : row'[r] = [key |-> k, at |-> ttl[k]]
  BY DEF CheckRow, HInv, IInv, TypeOK
<1>5. k \in Keys /\ ttl[k] \in Stamp \union {Nil}
  BY <1>4 DEF HInv, IInv, TypeOK, TtlTable
<1>6. RowSeen(r)'
  <2>1. row'[r] \in Row /\ row'[r].key = k /\ row'[r].at = ttl[k]
    BY <1>4, <1>5 DEF Row
  <2>2. ttl[k] # Nil => <<k, ttl[k]>> \in stamps'[r]
    BY <1>2, <1>5, RowOfTable
  <2>3. QED
    BY <2>1, <2>2 DEF RowSeen
<1>7. Walked(call[r], ans[r], snap[r], todo[r], AgedKeys(r)) =>
        Walked(call[r], ans[r], snap[r], todo[r], AgedKeys(r)')
  BY <1>2, MoreAged
<1>8. row'[r].key = k
  BY <1>4
<1>9. QED
  BY <1>2, <1>3, <1>4, <1>6, <1>7, <1>8 DEF ReadInv

\* A lookup that finds its timestamp passed says so; it has been in the history.
LEMMA ClockGetJustified ==
  ASSUME HInv, HistoryNext, NEW r \in Requests, ClockGet(r), Reading(r)'
  PROVE  ReadInv(r)'
<1>1. Read(r)
  BY DEF Read
<1>2. /\ ReadInv(r) /\ kv' = kv /\ call' = call /\ now' = now
      /\ kv \in tabs'[r] /\ Stamps' \subseteq stamps'[r] /\ stamps[r] \subseteq stamps'[r]
  BY <1>1, ReaderSees
<1>3. pc[r] = "clock" /\ call[r].op \in {"get", "exists"}
  BY DEF ClockGet, At
<1>4. RowSeen(r) /\ row[r].key = call[r].key
  BY <1>2, <1>3 DEF ReadInv
<1>5. CASE Past(row[r].at) /\ Answer(r, IF call[r].op = "get" THEN Nil ELSE FALSE)
  <2>1. pc'[r] = "done" /\ ans'[r] = IF call[r].op = "get" THEN Nil ELSE FALSE
    BY <1>5 DEF Answer, HInv, IInv, TypeOK, Isolation
  <2>2. call[r].key \in AgedKeys(r)'
    BY <1>2, <1>4, <1>5, PassedIsAged
  <2>3. LookupOk(call[r], ans'[r], tabs'[r], AgedKeys(r)')
    BY <1>3, <2>1, <2>2 DEF LookupOk
  <2>4. QED
    BY <1>2, <1>3, <2>1, <2>3 DEF ReadInv, Batches
<1>6. CASE ~Past(row[r].at) /\ Goto(r, "value")
  <2>1. pc'[r] = "value"
    BY <1>6 DEF Goto, HInv, IInv, TypeOK
  <2>2. QED
    BY <1>2, <2>1 DEF ReadInv
<1>7. QED
  BY <1>5, <1>6 DEF ClockGet

\* A value that is read is in a table of the history.
LEMMA ReadValueJustified ==
  ASSUME HInv, HistoryNext, NEW r \in Requests, ReadValue(r), Reading(r)'
  PROVE  ReadInv(r)'
<1>1. Read(r)
  BY DEF Read
<1>2. call' = call /\ kv \in tabs'[r]
  BY <1>1, ReaderSees
<1>3. /\ call[r].op \in {"get", "exists"} /\ pc'[r] = "done"
      /\ ans'[r] = IF call[r].op = "get" THEN kv[call[r].key] ELSE kv[call[r].key] # Nil
  BY DEF ReadValue, At, Answer, HInv, IInv, TypeOK, Isolation
<1>4. LookupOk(call[r], ans'[r], tabs'[r], AgedKeys(r)')
  <2>1. CASE call[r].op = "get"
    BY <1>2, <1>3, <2>1 DEF LookupOk
  <2>2. CASE call[r].op = "exists"
    <3>1. ans'[r] = (kv[call[r].key] # Nil)
      BY <1>3, <2>2
    <3>2. QED
      BY <1>2, <2>2, <3>1 DEF LookupOk
  <2>3. QED
    BY <1>3, <2>1, <2>2
<1>5. QED
  BY <1>2, <1>3, <1>4 DEF ReadInv, Batches

\* Each turn of the loops settles one key, by the snapshot or by a timestamp that passed.
LEMMA ClockBatchJustified ==
  ASSUME HInv, HistoryNext, NEW r \in Requests, ClockBatch(r), Reading(r)'
  PROVE  ReadInv(r)'
<1> DEFINE c == call[r]
           k == row[r].key
           left == todo[r] \ {k}
           A == AgedKeys(r)'
<1>1. Read(r) /\ c.op \in Batches /\ pc[r] = "clock"
  BY DEF ClockBatch, At, Read, Batches
<1>2. /\ ReadInv(r) /\ kv' = kv /\ call' = call /\ kv \in tabs'[r] /\ Stamps' \subseteq stamps'[r]
      /\ tabs[r] \subseteq tabs'[r] /\ AgedKeys(r) \subseteq A /\ now \in Nat /\ now' = now
      /\ stamps[r] \subseteq stamps'[r]
  BY <1>1, ReaderSees
<1>3. /\ snap' = snap /\ todo'[r] = left
      /\ pc'[r] = IF left = {} THEN "done" ELSE "check"
  BY DEF ClockBatch, HInv, IInv, TypeOK
<1>4. /\ snap[r] \in tabs[r] /\ RowSeen(r) /\ k \in todo[r]
      /\ c.op = "keys" => \A j \in todo[r] : snap[r][j] # Nil
      /\ Walked(c, ans[r], snap[r], todo[r], AgedKeys(r))
  BY <1>1, <1>2 DEF ReadInv
<1>5. Walked(c, ans[r], snap[r], todo[r], A)
  <2> HIDE DEF A, c
  <2>1. QED
    BY <1>2, <1>4, MoreAged
<1>6. Walked(c, ans'[r], snap[r], left, A)
  <2>1. CASE Past(row[r].at)
    <3>1. ans' = ans
      BY <2>1 DEF ClockBatch
    <3>2. k \in A
      BY <1>2, <1>4, <2>1, PassedIsAged
    <3> HIDE DEF A, c, k
    <3>3. QED
      BY <1>5, <3>1, <3>2 DEF Walked
  <2>2. CASE ~Past(row[r].at) /\ c.op = "mget"
    <3>1. ans' = [ans EXCEPT ![r] = [ans[r] EXCEPT ![k] = snap[r][k]]]
      BY <2>2 DEF ClockBatch
    <3>2. ans'[r] = [ans[r] EXCEPT ![k] = snap[r][k]]
      BY <3>1 DEF HInv, IInv, Isolation
    <3> HIDE DEF A, c, k
    <3>3. DOMAIN ans[r] = c.keys
      BY <1>5, <2>2 DEF Walked
    <3>4. /\ DOMAIN ans'[r] = c.keys
          /\ \A j \in c.keys : ans'[r][j] = IF j = k THEN snap[r][k] ELSE ans[r][j]
      BY <3>2, <3>3
    <3>5. QED
      BY <1>5, <2>2, <3>4 DEF Walked
  <2>3. CASE ~Past(row[r].at) /\ c.op = "keys"
    <3>1. ans' = [ans EXCEPT ![r] = ans[r] \union {k}]
      BY <2>3 DEF ClockBatch
    <3>2. ans'[r] = ans[r] \union {k}
      BY <3>1 DEF HInv, IInv, Isolation
    <3>3. snap[r][k] # Nil
      BY <1>4, <2>3
    <3> HIDE DEF A, c, k
    <3>4. QED
      BY <1>5, <2>3, <3>2, <3>3 DEF Walked
  <2>4. QED
    BY <1>1, <2>1, <2>2, <2>3 DEF Batches
<1> HIDE DEF A, left, k
<1>7. LookupOk(c, ans'[r], tabs'[r], A) /\ c.op # "ttl"
  BY <1>1 DEF LookupOk, Batches
<1>8. \A j \in left : j \in todo[r]
  BY DEF left
<1>9. snap[r] \in tabs'[r]
  BY <1>2, <1>4
<1>10. pc'[r] = "done" => \E t \in tabs'[r] : Walked(c, ans'[r], t, {}, A)
  BY <1>3, <1>6, <1>9
<1>11. QED
  BY <1>1, <1>2, <1>3, <1>4, <1>6, <1>7, <1>8, <1>9, <1>10 DEF ReadInv, Batches, A

\* TTL reads both tables at once.
LEMMA OpenTtlJustified ==
  ASSUME HInv, HistoryNext, NEW r \in Requests, OpenTtl(r), Reading(r)'
  PROVE  ReadInv(r)'
<1> DEFINE k == call[r].key
<1>1. Read(r)
  BY DEF Read
<1>2. /\ kv' = kv /\ call' = call /\ kv \in tabs'[r] /\ Stamps \subseteq stamps'[r]
      /\ Stamps' = Stamps /\ call[r] \in AnyCall
  BY <1>1, ReaderSees
<1>3. call[r].op = "ttl" /\ row'[r] = [key |-> k, at |-> ttl[k]]
  BY DEF OpenTtl, At, HInv, IInv, TypeOK
<1>4. k \in Keys /\ ttl[k] \in Stamp \union {Nil}
  BY <1>2, <1>3, CallShape DEF HInv, IInv, TypeOK, TtlTable
<1>5. CASE kv[k] = Nil
  <2>1. pc'[r] = "done" /\ ans'[r] = -2
    BY <1>5 DEF OpenTtl, Answer, HInv, IInv, TypeOK, Isolation
  <2>2. QED
    BY <1>2, <1>3, <1>5, <2>1 DEF ReadInv, Batches, LookupOk, TtlOk
<1>6. CASE kv[k] # Nil /\ ttl[k] = Nil
  <2>1. pc'[r] = "done" /\ ans'[r] = -1
    BY <1>6 DEF OpenTtl, Answer, HInv, IInv, TypeOK, Isolation
  <2>2. QED
    BY <1>2, <1>3, <1>6, <2>1 DEF ReadInv, Batches, LookupOk, TtlOk
<1>7. CASE kv[k] # Nil /\ ttl[k] # Nil
  <2>1. pc'[r] = "clock"
    BY <1>7 DEF OpenTtl, Goto, HInv, IInv, TypeOK
  <2>2. <<k, ttl[k]>> \in stamps'[r]
    BY <1>2, <1>4, <1>7, RowOfTable
  <2> HIDE DEF k
  <2>3. row'[r] \in Row /\ row'[r].key = k /\ row'[r].at = ttl[k]
    BY <1>3, <1>4 DEF Row
  <2>4. RowSeen(r)'
    BY <2>2, <2>3 DEF RowSeen
  <2>5. QED
    BY <1>2, <1>3, <1>7, <2>1, <2>3, <2>4 DEF ReadInv, Batches, k
<1>8. QED
  BY <1>5, <1>6, <1>7

\* The seconds TTL answers are left of the timestamp it has read.
LEMMA ClockTtlJustified ==
  ASSUME HInv, HistoryNext, NEW r \in Requests, ClockTtl(r), Reading(r)'
  PROVE  ReadInv(r)'
<1> DEFINE k == call[r].key
           at == row[r].at
<1>1. Read(r)
  BY DEF Read
<1>2. /\ ReadInv(r) /\ call' = call /\ now' = now /\ now \in Nat
      /\ stamps[r] \subseteq stamps'[r]
  BY <1>1, ReaderSees
<1>3. /\ pc[r] = "clock" /\ call[r].op = "ttl" /\ pc'[r] = "done"
      /\ ans'[r] = IF Past(at) THEN -2 ELSE AsSigned(at - now)
  BY DEF ClockTtl, At, Answer, HInv, IInv, TypeOK, Isolation
<1>4. RowSeen(r) /\ row[r].key = k /\ at # Nil
  BY <1>2, <1>3 DEF ReadInv
<1>5. TtlOk(k, ans'[r], tabs'[r], stamps'[r], now', AgedKeys(r)')
  <2>1. CASE Past(at)
    <3>1. k \in AgedKeys(r)'
      BY <1>2, <1>4, <2>1, PassedIsAged
    <3>2. QED
      BY <1>3, <2>1, <3>1 DEF TtlOk
  <2>2. CASE ~Past(at)
    <3>1. at \in Stamp /\ at \in Nat /\ <<k, at>> \in stamps'[r]
      BY <1>2, <1>4, RedbAssumption DEF RowSeen, Row, Stamp
    <3>2. now \in Epoch .. now'
      BY <1>2, RedbAssumption DEF HInv, HistoryType
    <3>3. /\ now < at /\ at <= U64 - 1 /\ now >= 2
          /\ ans'[r] = IF at - now < U64 \div 2 THEN at - now ELSE at - now - U64
      BY <1>2, <1>3, <1>4, <2>2, <3>1, <3>2, RedbAssumption DEF Past, AsSigned, Stamp
    <3> DEFINE s == <<k, at>>
               a == ans'[r]
    <3>4. s[1] = k /\ s[2] = at /\ s \in stamps'[r]
      BY <3>1
    <3>5. \/ a >= 1 /\ at - a = now
          \/ a < -2 /\ at - (a + U64) = now
      BY <1>2, <3>1, <3>3, RedbAssumption
    <3> HIDE DEF k, at, s, a
    <3>6. CASE a >= 1 /\ at - a = now
      BY <3>2, <3>4, <3>6 DEF TtlOk, a
    <3>7. CASE a < -2 /\ at - (a + U64) = now
      BY <3>2, <3>4, <3>7 DEF TtlOk, a
    <3>8. QED
      BY <3>5, <3>6, <3>7
  <2>3. QED
    BY <2>1, <2>2
<1>6. QED
  BY <1>2, <1>3, <1>5 DEF ReadInv, Batches, LookupOk

\* Every step of a read leaves it with an answer that its history justifies.
LEMMA ReadJustified ==
  ASSUME HInv, HistoryNext, NEW r \in Requests, Read(r), Reading(r)'
  PROVE  ReadInv(r)'
<1>1. ~LookExpire(r)
  BY ReaderSees DEF LookExpire, At, Reading, Reads
<1>2. QED
  BY <1>1, OpenBatchJustified, CheckRowJustified, ClockGetJustified, ReadValueJustified,
     ClockBatchJustified, OpenTtlJustified, ClockTtlJustified DEF Read

\* A read begins with the tables as they are.
LEMMA InvokeJustified ==
  ASSUME HInv, HistoryNext, NEW r \in Requests, NEW c \in Calls[r], Invoke(r, c), Reading(r)'
  PROVE  ReadInv(r)'
<1>1. /\ pc[r] = "idle" /\ pc'[r] = Start(c.op) /\ call'[r] = c
      /\ todo'[r] = IF c.op \in {"get", "exists"} THEN {c.key} ELSE {}
  BY DEF Invoke, HInv, IInv, TypeOK
<1>2. kv' \in tabs'[r] /\ Stamps' \subseteq stamps'[r]
  BY <1>1, Recorded
<1>3. c.op \in Reads
  BY <1>1 DEF Reading
<1>4. CASE c.op \in {"get", "exists"}
  BY <1>1, <1>2, <1>4 DEF ReadInv, Start, Batches
<1>5. CASE c.op \in {"mget", "keys", "ttl"}
  BY <1>1, <1>2, <1>5 DEF ReadInv, Start
<1>6. QED
  BY <1>3, <1>4, <1>5 DEF Reads

\* Every step keeps every read justified.
LEMMA HistoryPreserved == HInv /\ [HistoryNext]_<<vars, history>> => HInv'
<1> SUFFICES ASSUME HInv, [HistoryNext]_<<vars, history>> PROVE HInv'
  OBVIOUS
<1>1. CASE UNCHANGED <<vars, history>>
  <2>1. IInv' /\ Control'
    BY <1>1, NextPreserves, ControlPreserved DEF HInv
  <2>2. HistoryType'
    BY <1>1 DEF HInv, HistoryType, vars, history
  <2>3. \A r \in Requests : (Reading(r) => ReadInv(r))'
    BY <1>1 DEF HInv, Reading, ReadInv, RowSeen, AgedKeys, Aged, Stamps, vars, history
  <2>4. QED
    BY <2>1, <2>2, <2>3 DEF HInv
<1>2. CASE HistoryNext
  <2>1. Next /\ IInv /\ Control
    BY <1>2 DEF HistoryNext, HInv
  <2>2. IInv' /\ Control'
    BY <2>1, NextPreserves, ControlPreserved
  <2>3. now \in Nat /\ now' \in Nat /\ now' >= now
    <3>1. now' = now \/ now' = now + 1
      <4>1. ASSUME NEW r \in Requests, StepOf(r) PROVE now' = now
        BY <4>1 DEF StepOf, Invoke, Read, OpenBatch, CheckRow, ClockGet, ReadValue, ClockBatch,
           OpenTtl, ClockTtl, LookExpire, ReadsOnly, Write, BeginSet, BeginMset, BeginDel,
           BeginIncr, BeginExpire, Begin, Commit, Abort, Reply
      <4>2. QED
        BY <2>1, <4>1 DEF Next, StepOf, Tick, Crash
    <3>2. QED
      BY <2>1, <3>1 DEF IInv, TypeOK
  <2>4. HistoryType'
    <3>1. Stamps' \subseteq Keys \X Nat
      BY <2>2, RedbAssumption DEF Stamps, IInv, TypeOK, TtlTable, Stamp
    <3>2. \A r \in Requests : stamps'[r] \subseteq stamps[r] \union Stamps'
      BY <1>2 DEF HistoryNext, Record
    <3>3. now' >= Epoch
      BY <2>3, RedbAssumption DEF HInv, HistoryType
    <3>4. QED
      BY <3>1, <3>2, <3>3 DEF HInv, HistoryType
  <2>5. ASSUME NEW r \in Requests, Reading(r)' PROVE ReadInv(r)'
    <3>1. CASE Rests(r)
      BY <1>2, <2>3, <2>5, <3>1, RestPreserves
    <3>2. ASSUME NEW s \in Requests, StepOf(s) PROVE ReadInv(r)'
      <4>1. CASE s # r
        BY <2>1, <3>1, <3>2, <4>1, OneActs
      <4>2. CASE s = r
        <5>1. ~Reply(r)
          BY <2>1, <2>5 DEF Reply, Reading, IInv, TypeOK
        <5>2. ~Write(r)
          BY <2>1, <2>5 DEF Write, BeginSet, BeginMset, BeginDel, BeginIncr, BeginExpire, Begin,
             Commit, Abort, Goto, At, Reading, Reads, Control, ControlOf, WriteOps
        <5>3. QED
          BY <1>2, <2>5, <3>2, <4>2, <5>1, <5>2, ReadJustified, InvokeJustified DEF StepOf
      <4>3. QED
        BY <4>1, <4>2
    <3>3. CASE Tick
      BY <3>1, <3>3 DEF Tick, Rests
    <3>4. ~Crash
      BY <2>5 DEF Crash, Reading
    <3>5. QED
      BY <2>1, <3>2, <3>3, <3>4 DEF Next, StepOf
  <2>6. QED
    BY <2>2, <2>4, <2>5 DEF HInv
<1>3. QED
  BY <1>1, <1>2

\* The initial states: nobody reads.
LEMMA InitHistory == HistoryInit => HInv
<1> SUFFICES ASSUME HistoryInit PROVE HInv
  OBVIOUS
<1>1. IInv
  BY InitIInv DEF HistoryInit
<1>2. Control /\ HistoryType /\ \A r \in Requests : ~Reading(r)
  BY RedbAssumption DEF HistoryInit, Init, Control, ControlOf, HistoryType, Reading
<1>3. QED
  BY <1>1, <1>2 DEF HInv

\* What reads have seen justifies what they answer, at every moment.
THEOREM HistoryInvariance == HistorySpec => []HInv
BY InitHistory, HistoryPreserved, PTL DEF HistorySpec

\* The answer of a batch read is one snapshot, less what expired during the call.
THEOREM OneSnapshot == HistorySpec => []BatchIsOneSnapshot
<1>1. ASSUME HInv PROVE BatchIsOneSnapshot
  <2>1. ASSUME NEW r \in Requests, Done(r, {"mget"})
        PROVE  \E t \in tabs[r] : \A k \in call[r].keys :
                 ans[r][k] = t[k] \/ (ans[r][k] = Nil /\ Aged(r, k))
    <3>1. pc[r] = "done" /\ call[r].op = "mget" /\ ReadInv(r)
      BY <1>1, <2>1 DEF Done, At, HInv, Reading, Reads
    <3>2. PICK t \in tabs[r] : Walked(call[r], ans[r], t, {}, AgedKeys(r))
      BY <3>1 DEF ReadInv, Batches
    <3>3. QED
      BY <3>1, <3>2 DEF Walked, AgedKeys
  <2>2. ASSUME NEW r \in Requests, Done(r, {"keys"})
        PROVE  \E t \in tabs[r] : \A k \in call[r].keys :
                 IF k \in ans[r] THEN t[k] # Nil ELSE t[k] = Nil \/ Aged(r, k)
    <3>1. pc[r] = "done" /\ call[r].op = "keys" /\ ReadInv(r)
      BY <1>1, <2>2 DEF Done, At, HInv, Reading, Reads
    <3>2. PICK t \in tabs[r] : Walked(call[r], ans[r], t, {}, AgedKeys(r))
      BY <3>1 DEF ReadInv, Batches
    <3>3. QED
      BY <3>1, <3>2 DEF Walked, AgedKeys
  <2>3. QED
    BY <2>1, <2>2 DEF BatchIsOneSnapshot
<1>2. QED
  BY <1>1, HistoryInvariance, PTL

\* A lookup answers what was stored during its call, or denies what had expired.
THEOREM LookupsAreTrue == HistorySpec => []LookupIsJustified
<1>1. ASSUME HInv PROVE LookupIsJustified
  <2>1. ASSUME NEW r \in Requests, pc[r] = "done", call[r].op \in {"get", "exists"}
        PROVE  LookupOk(call[r], ans[r], tabs[r], AgedKeys(r))
    BY <1>1, <2>1 DEF HInv, Reading, Reads, ReadInv
  <2>2. QED
    BY <2>1 DEF LookupIsJustified, Done, At, LookupOk, AgedKeys
<1>2. QED
  BY <1>1, HistoryInvariance, PTL

\* TTL answers for a timestamp its key had during the call: what is left of it, or, of one
\* that an EXPIRE with negative seconds has wrapped below zero, the negative number that
\* the u64 difference is as an i64.
THEOREM TtlIsTrue == HistorySpec => []TtlIsJustified
<1>1. ASSUME HInv PROVE TtlIsJustified
  <2>1. ASSUME NEW r \in Requests, pc[r] = "done", call[r].op = "ttl"
        PROVE  TtlOk(call[r].key, ans[r], tabs[r], stamps[r], now, AgedKeys(r))
    BY <1>1, <2>1 DEF HInv, Reading, Reads, ReadInv
  <2>2. QED
    BY <2>1 DEF TtlIsJustified, Done, At, TtlOk, AgedKeys
<1>2. QED
  BY <1>1, HistoryInvariance, PTL

-----------------------------------------------------------------------------
(* Without expiries: the refinement of KvStore *)

\* No client asks for an expiry.
NoTtl == \A c \in AnyCall : c.op # "expire" /\ (c.op = "set" => ~HasTtl(c))

\* What a write makes of the old table, and its answer.
Writes(c, old, new, a) ==
  /\ c.op = "set" => new = [old EXCEPT ![c.key] = c.value] /\ a = "ok"
  /\ c.op = "mset" => new = Overwrite(old, c.pairs) /\ a = "ok"
  /\ c.op = "del" => /\ new = [old EXCEPT ![c.key] = Nil]
                     /\ a = IF old[c.key] = Nil THEN 0 ELSE 1
  /\ c.op = "incr" => /\ new = [old EXCEPT ![c.key] = Succ(Number(old[c.key]))]
                      /\ a = Succ(Number(old[c.key]))

\* An open transaction has done all that its call does.
Written(r) == pc[r] = "commit" => wttl = Empty /\ Writes(call[r], kv, wkv, ans[r])

\* A batch has the answer of its snapshot for all keys but those it has yet to visit.
Walking(r) ==
  /\ pc[r] = "clock" => row[r].at = Nil /\ call[r].op # "ttl"
  /\ Settled(r) =>
       /\ pc[r] = "clock" => row[r].key \in todo[r]
       /\ call[r].op = "mget" =>
            ans[r] = [k \in call[r].keys |-> IF k \in todo[r] THEN Nil ELSE snap[r][k]]
       /\ call[r].op = "keys" =>
            /\ todo[r] \subseteq BatchAnswer(r)
            /\ ans[r] = BatchAnswer(r) \ todo[r]

PlainInv ==
  /\ IInv /\ Control
  /\ ttl = Empty
  /\ \A r \in Requests : Written(r) /\ Walking(r)

\* The initial states: no timestamps.
LEMMA InitPlain == Init => PlainInv
<1> SUFFICES ASSUME Init PROVE PlainInv
  OBVIOUS
<1>1. IInv
  BY InitIInv
<1>2. QED
  BY <1>1 DEF Init, PlainInv, Control, ControlOf, Written, Walking, Settled

Begins(r) == BeginSet(r) \/ BeginMset(r) \/ BeginDel(r) \/ BeginIncr(r) \/ BeginExpire(r)

\* The body of a write does what its call asks for.
LEMMA BeginWrites ==
  ASSUME NoTtl, PlainInv, NEW r \in Requests, Begins(r)
  PROVE  Written(r)'
<1> USE DEF PlainInv, IInv, Isolation
<1>1. kv' = kv /\ call' = call /\ pc[r] = "begin" /\ call[r] \in AnyCall /\ ttl = Empty
  BY DEF Begins, BeginSet, BeginMset, BeginDel, BeginIncr, BeginExpire, Begin, At
<1>2. \A a : Computes(r, a) => ans'[r] = a
  BY DEF Computes
<1>3. CASE BeginSet(r)
  <2>1. call[r].op = "set" /\ ans'[r] = "ok" /\ ~HasTtl(call[r])
    BY <1>1, <1>2, <1>3 DEF BeginSet, Begin, At, NoTtl
  <2>2. wkv' = [kv EXCEPT ![call[r].key] = call[r].value] /\ wttl' = Empty
    BY <1>1, <1>3, <2>1 DEF BeginSet
  <2>3. QED
    BY <1>1, <2>1, <2>2 DEF Written, Writes
<1>4. CASE BeginMset(r)
  BY <1>1, <1>2, <1>4 DEF BeginMset, Begin, At, Written, Writes
<1>5. CASE BeginDel(r)
  <2>1. /\ call[r].op = "del" /\ wkv' = [kv EXCEPT ![call[r].key] = Nil]
        /\ ans'[r] = IF kv[call[r].key] = Nil THEN 0 ELSE 1
    BY <1>2, <1>5 DEF BeginDel, Begin, At
  <2>2. wttl' = Empty
    BY <1>1, <1>5 DEF BeginDel, Empty
  <2>3. QED
    BY <1>1, <2>1, <2>2 DEF Written, Writes
<1>6. CASE BeginIncr(r)
  <2>1. /\ call[r].op = "incr" /\ wttl' = Empty
        /\ wkv' = [kv EXCEPT ![call[r].key] = Succ(Number(kv[call[r].key]))]
        /\ ans'[r] = Succ(Number(kv[call[r].key]))
    BY <1>1, <1>2, <1>6 DEF BeginIncr, Begin, At
  <2>2. QED
    BY <1>1, <2>1 DEF Written, Writes
<1>7. ~BeginExpire(r)
  BY <1>1 DEF BeginExpire, Begin, At, NoTtl
<1>8. QED
  BY <1>3, <1>4, <1>5, <1>6, <1>7 DEF Begins

\* No step disturbs the open transaction of another request.
LEMMA WrittenPreserved ==
  ASSUME NoTtl, PlainInv, [Next]_vars, NEW s \in Requests
  PROVE  Written(s)'
<1> SUFFICES ASSUME pc'[s] = "commit" PROVE Written(s)'
  BY DEF Written
<1> USE DEF PlainInv
<1>1. CASE \E r \in Requests : Commit(r)
  BY <1>1 DEF Commit, Goto, IInv, TypeOK, Isolation
<1>2. ASSUME NEW r \in Requests, Begins(r) PROVE Written(s)'
  <2>1. CASE s = r
    BY <1>2, <2>1, BeginWrites
  <2>2. CASE s # r
    <3>1. pc[s] = "commit" /\ writer = Nil
      BY <1>2, <2>2 DEF Begins, BeginSet, BeginMset, BeginDel, BeginIncr, BeginExpire, Begin, At,
         IInv, TypeOK
    <3>2. QED
      BY <3>1, ApiAssumption DEF IInv, Isolation
  <2>3. QED
    BY <2>1, <2>2
<1>3. CASE /\ ~\E r \in Requests : Commit(r)
           /\ ~\E r \in Requests : Begins(r)
  <2>1. pc[s] = "commit" /\ wkv' = wkv /\ wttl' = wttl /\ call'[s] = call[s]
    BY <1>3, OthersKeepTxn DEF Begins
  <2>2. kv' = kv
    BY <1>3, OnlyCommitWrites
  <2>3. ans'[s] = ans[s]
    <3>1. ASSUME NEW r \in Requests, StepOf(r) PROVE ans'[s] = ans[s]
      <4>1. CASE s # r
        BY <3>1, <4>1, OneActs DEF Rests
      <4>2. CASE s = r
        BY <1>3, <2>1, <3>1, <4>2 DEF StepOf, Invoke, Reply, Write, Begins, Abort, Read, OpenBatch,
           CheckRow, ClockGet, ReadValue, ClockBatch, OpenTtl, ClockTtl, LookExpire, At
      <4>3. QED
        BY <4>1, <4>2
    <3>2. ~Crash
      BY <2>1 DEF Crash
    <3>3. QED
      BY <3>1, <3>2 DEF Next, StepOf, Tick, vars
  <2>4. QED
    BY <2>1, <2>2, <2>3 DEF Written
<1>4. QED
  BY <1>1, <1>2, <1>3

\* A turn of the loops settles one key.
LEMMA BatchTurn ==
  ASSUME PlainInv, NEW r \in Requests, ClockBatch(r)
  PROVE  /\ call[r].op = "mget" =>
              ans'[r] = [j \in call[r].keys |-> IF j \in todo'[r] THEN Nil ELSE snap[r][j]]
         /\ call[r].op = "keys" =>
              todo'[r] \subseteq BatchAnswer(r) /\ ans'[r] = BatchAnswer(r) \ todo'[r]
         /\ call[r].op \in {"mget", "keys"} /\ call' = call /\ snap' = snap
<1> USE DEF PlainInv, IInv
<1> DEFINE k == row[r].key
<1>1. /\ call[r].op \in {"mget", "keys"} /\ Settled(r) /\ Walking(r) /\ pc[r] = "clock"
      /\ call' = call /\ snap' = snap /\ todo'[r] = todo[r] \ {k}
  BY DEF ClockBatch, At, Settled, TypeOK
<1>2. ~Past(row[r].at) /\ k \in todo[r]
  BY <1>1 DEF Walking, Past
<1>3. CASE call[r].op = "mget"
  <2>1. ans' = [ans EXCEPT ![r] = [ans[r] EXCEPT ![k] = snap[r][k]]]
    BY <1>2, <1>3 DEF ClockBatch
  <2>2. ans'[r] = [ans[r] EXCEPT ![k] = snap[r][k]]
    BY <2>1 DEF Isolation
  <2> HIDE DEF k
  <2>3. ans[r] = [j \in call[r].keys |-> IF j \in todo[r] THEN Nil ELSE snap[r][j]]
    BY <1>1, <1>3 DEF Walking
  <2>4. ans'[r] = [j \in call[r].keys |-> IF j \in todo'[r] THEN Nil ELSE snap[r][j]]
    BY <1>1, <2>2, <2>3
  <2>5. QED
    BY <1>1, <1>3, <2>4
<1>4. CASE call[r].op = "keys"
  <2>1. ans' = [ans EXCEPT ![r] = ans[r] \union {k}]
    BY <1>2, <1>4 DEF ClockBatch
  <2>2. ans'[r] = ans[r] \union {k}
    BY <2>1 DEF Isolation
  <2> HIDE DEF k
  <2>3. todo[r] \subseteq BatchAnswer(r) /\ ans[r] = BatchAnswer(r) \ todo[r]
    BY <1>1, <1>4 DEF Walking
  <2>4. QED
    BY <1>1, <1>2, <1>4, <2>2, <2>3
<1>5. QED
  BY <1>1, <1>3, <1>4

\* A batch goes on with the snapshot it has opened.
LEMMA WalkingStep ==
  ASSUME NoTtl, PlainInv, NEW r \in Requests, StepOf(r)
  PROVE  Walking(r)'
<1> USE DEF PlainInv, IInv
<1>0. /\ pc \in [Requests -> ControlPoints] /\ Walking(r) /\ ControlOf(r)
      /\ todo[r] \in SUBSET Keys
  BY DEF TypeOK, Control
<1>1. CASE pc'[r] \notin {"check", "clock"}
  BY <1>1 DEF Walking, Settled
<1>2. CASE \E c \in Calls[r] : Invoke(r, c)
  <2>1. PICK c \in Calls[r] : Invoke(r, c)
    BY <1>2
  <2>2. pc'[r] = Start(c.op) /\ call'[r] = c
    BY <1>0, <2>1 DEF Invoke, TypeOK
  <2>3. QED
    BY <1>1, <2>2 DEF Start, Walking, Settled
<1>3. CASE OpenBatch(r)
  <2> DEFINE c == call[r]
             visit == IF c.op = "mget" THEN c.keys ELSE {k \in c.keys : kv[k] # Nil}
  <2>1. /\ call' = call /\ snap'[r] = kv /\ todo'[r] = visit /\ c.op \in {"mget", "keys"}
        /\ pc'[r] = IF visit = {} THEN "done" ELSE "check"
        /\ ans'[r] = IF c.op = "mget" THEN [k \in c.keys |-> Nil] ELSE {}
    BY <1>3 DEF OpenBatch, At, TypeOK, Isolation
  <2>2. CASE c.op = "mget"
    <3>1. ans'[r] = [k \in c.keys |-> IF k \in todo'[r] THEN Nil ELSE snap'[r][k]]
      BY <2>1, <2>2
    <3>2. QED
      BY <2>1, <2>2, <3>1 DEF Walking, Settled
  <2>3. CASE c.op = "keys"
    <3>1. BatchAnswer(r)' = visit
      BY <2>1, <2>3 DEF BatchAnswer
    <3>2. QED
      BY <2>1, <2>3, <3>1 DEF Walking, Settled
  <2>4. QED
    BY <2>1, <2>2, <2>3
<1>4. CASE CheckRow(r)
  <2>1. PICK k \in todo[r] : row' = [row EXCEPT ![r] = [key |-> k, at |-> ttl[k]]]
    BY <1>4 DEF CheckRow
  <2>2. row'[r].key = k /\ row'[r].at = Nil
    BY <1>0, <2>1 DEF TypeOK, Empty
  <2>3. /\ pc[r] = "check" /\ pc'[r] = "clock"
        /\ call' = call /\ ans' = ans /\ snap' = snap /\ todo' = todo
    BY <1>0, <1>4 DEF CheckRow, Goto
  <2>4. call[r].op # "ttl"
    BY <1>0, <2>3 DEF ControlOf
  <2>5. QED
    BY <1>0, <2>2, <2>3, <2>4 DEF Walking, Settled, BatchAnswer
<1>5. CASE ClockGet(r) \/ ReadValue(r) \/ ClockTtl(r) \/ LookExpire(r)
  <2>1. pc'[r] \in {"value", "done", "begin"}
    BY <1>0, <1>5 DEF ClockGet, ReadValue, ClockTtl, LookExpire, Goto, Answer
  <2>2. QED
    BY <1>1, <2>1
<1>6. CASE OpenTtl(r)
  <2>1. call[r] \in AnyCall /\ call[r].op = "ttl"
    BY <1>6 DEF OpenTtl, At, Isolation
  <2>2. ttl[call[r].key] = Nil
    BY <2>1, CallShape DEF Empty
  <2>3. pc'[r] = "done"
    BY <1>0, <1>6, <2>2 DEF OpenTtl, Answer
  <2>4. QED
    BY <1>1, <2>3
<1>7. CASE ClockBatch(r)
  <2>1. pc'[r] \in {"check", "done"} /\ Settled(r)
    BY <1>0, <1>7 DEF ClockBatch, At, Settled
  <2>2. /\ call[r].op = "mget" =>
             ans'[r] = [j \in call[r].keys |-> IF j \in todo'[r] THEN Nil ELSE snap[r][j]]
        /\ call[r].op = "keys" =>
             todo'[r] \subseteq BatchAnswer(r) /\ ans'[r] = BatchAnswer(r) \ todo'[r]
        /\ call' = call /\ snap' = snap
    BY <1>7, BatchTurn
  <2>3. BatchAnswer(r)' = BatchAnswer(r)
    BY <2>2 DEF BatchAnswer
  <2>4. QED
    BY <2>1, <2>2, <2>3 DEF Walking, Settled
<1>8. CASE Write(r) \/ Reply(r)
  <2>1. pc'[r] \in {"commit", "done", "failed", "idle"}
    BY <1>0, <1>8 DEF Write, BeginSet, BeginMset, BeginDel, BeginIncr, BeginExpire, Begin, Commit,
       Abort, Goto, Reply
  <2>2. QED
    BY <1>1, <2>1
<1>9. QED
  BY <1>2, <1>3, <1>4, <1>5, <1>6, <1>7, <1>8 DEF StepOf, Read

\* Without expiries every step keeps the calls on the way to their one moment.
LEMMA PlainPreserved ==
  ASSUME NoTtl, PlainInv, [Next]_vars
  PROVE  PlainInv'
<1>1. IInv' /\ Control'
  BY NextPreserves, ControlPreserved DEF PlainInv
<1>2. ttl' = Empty
  <2>1. CASE ttl' = ttl
    BY <2>1 DEF PlainInv
  <2>2. CASE ttl' # ttl
    <3>1. PICK r \in Requests : Commit(r)
      BY <2>2, OnlyCommitWrites
    <3>2. QED
      BY <3>1 DEF Commit, PlainInv, Written
  <2>3. QED
    BY <2>1, <2>2
<1>3. ASSUME NEW s \in Requests PROVE Walking(s)'
  <2>1. ASSUME Rests(s) PROVE Walking(s)'
    <3>1. Walking(s)
      BY DEF PlainInv
    <3>2. /\ pc'[s] = pc[s] /\ call'[s] = call[s] /\ snap'[s] = snap[s] /\ todo'[s] = todo[s]
          /\ row'[s] = row[s] /\ ans'[s] = ans[s]
      BY <2>1 DEF Rests
    <3>3. BatchAnswer(s)' = BatchAnswer(s)
      BY <3>2 DEF BatchAnswer
    <3>4. QED
      BY <3>1, <3>2, <3>3 DEF Walking, Settled
  <2>2. ASSUME NEW r \in Requests, StepOf(r) PROVE Walking(s)'
    BY <2>1, <2>2, OneActs, WalkingStep DEF PlainInv
  <2>3. CASE Tick \/ UNCHANGED vars
    BY <2>1, <2>3 DEF Tick, vars, Rests
  <2>4. CASE Crash
    BY <2>4 DEF Crash, Walking, Settled
  <2>5. QED
    BY <2>2, <2>3, <2>4 DEF Next, StepOf
<1>4. QED
  BY <1>1, <1>2, <1>3, WrittenPreserved DEF PlainInv

\* In every reachable state.
LEMMA PlainInvariance == ASSUME NoTtl PROVE Spec => []PlainInv
<1>1. Init => PlainInv
  BY InitPlain
<1>2. PlainInv /\ [Next]_vars => PlainInv'
  BY PlainPreserved
<1>3. QED
  BY <1>1, <1>2, PTL DEF Spec

\* A step of one request shows in the promise's view of that request alone.
LEMMA OthersLookSame ==
  ASSUME IInv, NEW r \in Requests, StepOf(r)
  PROVE  /\ Phase' = [Phase EXCEPT ![r] = PhaseOf(r)']
         /\ Answers' = [Answers EXCEPT ![r] = AnswerOf(r)']
<1>1. \A s \in Requests \ {r} : PhaseOf(s)' = PhaseOf(s) /\ AnswerOf(s)' = AnswerOf(s)
  <2>1. ASSUME NEW s \in Requests \ {r}
        PROVE  PhaseOf(s)' = PhaseOf(s) /\ AnswerOf(s)' = AnswerOf(s)
    <3>1. Rests(s)
      BY OneActs
    <3>2. QED
      BY <3>1 DEF Rests, PhaseOf, AnswerOf, Settled, BatchAnswer
  <2>2. QED
    BY <2>1
<1>2. Phase = [s \in Requests |-> PhaseOf(s)] /\ Answers = [s \in Requests |-> AnswerOf(s)]
  BY DEF Phase, Answers
<1>3. /\ Phase' = [s \in Requests |-> PhaseOf(s)']
      /\ Answers' = [s \in Requests |-> AnswerOf(s)']
  BY DEF Phase, Answers
<1>4. QED
  BY <1>1, <1>2, <1>3

\* A step that changes neither the tables nor what the promise sees of its request.
LEMMA Unseen ==
  ASSUME IInv, NEW r \in Requests, StepOf(r), kv' = kv, ttl' = ttl, call' = call,
         PhaseOf(r)' = PhaseOf(r), AnswerOf(r)' = AnswerOf(r)
  PROVE  UNCHANGED Promise!vars
<1>1. Phase' = [Phase EXCEPT ![r] = PhaseOf(r)] /\ Answers' = [Answers EXCEPT ![r] = AnswerOf(r)]
  BY OthersLookSame
<1>2. Phase' = Phase /\ Answers' = Answers
  BY <1>1 DEF Phase, Answers
<1>3. QED
  BY <1>2 DEF Promise!vars, Asked

\* A step that answers its call.
LEMMA Answered ==
  ASSUME IInv, NEW r \in Requests, StepOf(r), call' = call, NEW a,
         PhaseOf(r)' = "done", AnswerOf(r)' = a
  PROVE  Promise!Answer(r, a)
BY OthersLookSame DEF Promise!Answer, Asked

\* Without timestamps a key is shown as it is stored.
LEMMA PlainView ==
  ASSUME ttl = Empty, NEW k \in Keys, NEW t
  PROVE  /\ Promise!AliveAt(k, t) = (kv[k] # Nil)
         /\ Promise!ShownAt(k, t) = kv[k]
         /\ ttl[k] = Nil
<1>1. ttl[k] = Nil
  BY DEF Empty
<1>2. Promise!AliveAt(k, t) = (kv[k] # Nil)
  BY <1>1 DEF Promise!AliveAt
<1>3. QED
  BY <1>1, <1>2 DEF Promise!ShownAt

\* Where nothing expires, one moment is as good as another.
LEMMA OneMoment ==
  ASSUME NEW r \in Requests
  PROVE  0 \in Promise!Moments(r)
BY DEF Promise!Moments, Asked

\* A batch takes effect when its snapshot is opened.
LEMMA OpenBatchRefines ==
  ASSUME PlainInv, NEW r \in Requests, OpenBatch(r)
  PROVE  Promise!Apply(r)
<1> DEFINE c == call[r]
           visit == IF c.op = "mget" THEN c.keys ELSE {k \in c.keys : kv[k] # Nil}
<1>1. StepOf(r) /\ IInv /\ ttl = Empty
  BY DEF StepOf, Read, PlainInv
<1>2. /\ call' = call /\ kv' = kv /\ ttl' = ttl /\ snap'[r] = kv /\ c.op \in {"mget", "keys"}
      /\ pc[r] = "open" /\ pc'[r] = IF visit = {} THEN "done" ELSE "check"
      /\ ans'[r] = IF c.op = "mget" THEN [k \in c.keys |-> Nil] ELSE {}
  BY <1>1 DEF OpenBatch, At, ReadsOnly, IInv, TypeOK, Isolation
<1>3. c.keys \in SUBSET Keys
  BY <1>1, <1>2, CallShape DEF IInv, Isolation
<1>4. Phase[r] = "called"
  BY <1>2 DEF Phase, PhaseOf, Settled
<1>5. PhaseOf(r)' = "done"
  BY <1>2 DEF PhaseOf, Settled
<1>6. CASE c.op = "mget"
  <2>1. AnswerOf(r)' = [k \in c.keys |-> kv[k]]
    <3>1. CASE visit = {}
      <4>1. AnswerOf(r)' = [k \in c.keys |-> Nil] /\ c.keys = {}
        BY <1>2, <1>6, <3>1 DEF AnswerOf, Settled
      <4>2. QED
        BY <4>1
    <3>2. CASE visit # {}
      BY <1>2, <1>6, <3>2 DEF AnswerOf, Settled, BatchAnswer
    <3>3. QED
      BY <3>1, <3>2
  <2> DEFINE at == [k \in c.keys |-> 0]
             a == [k \in c.keys |-> Promise!ShownAt(k, at[k])]
  <2>2. at \in [c.keys -> Promise!Moments(r)]
    BY OneMoment
  <2>3. [k \in c.keys |-> kv[k]] = a
    BY <1>1, <1>3, PlainView
  <2>4. AnswerOf(r)' = a
    BY <2>1, <2>3
  <2> HIDE DEF a
  <2>5. Promise!Answer(r, a)
    BY <1>1, <1>2, <1>5, <2>4, Answered
  <2>6. \E at1 \in [c.keys -> Promise!Moments(r)] :
          Promise!Answer(r, [k \in c.keys |-> Promise!ShownAt(k, at1[k])])
    <3> HIDE DEF at
    <3>1. QED
      BY <2>2, <2>5 DEF a
  <2>7. QED
    BY <1>2, <1>4, <1>6, <2>6
       DEF Promise!Apply, Promise!Mget, Promise!Calling, Promise!Keep
<1>7. CASE c.op = "keys"
  <2>1. AnswerOf(r)' = {k \in c.keys : kv[k] # Nil}
    BY <1>2, <1>7 DEF AnswerOf, Settled, BatchAnswer
  <2> DEFINE at == [k \in c.keys |-> 0]
             a == {k \in c.keys : Promise!AliveAt(k, at[k])}
  <2>2. at \in [c.keys -> Promise!Moments(r)]
    BY OneMoment
  <2>3. {k \in c.keys : kv[k] # Nil} = a
    BY <1>1, <1>3, PlainView
  <2>4. AnswerOf(r)' = a
    BY <2>1, <2>3
  <2> HIDE DEF a
  <2>5. Promise!Answer(r, a)
    BY <1>1, <1>2, <1>5, <2>4, Answered
  <2>6. \E at1 \in [c.keys -> Promise!Moments(r)] :
          Promise!Answer(r, {k \in c.keys : Promise!AliveAt(k, at1[k])})
    <3> HIDE DEF at
    <3>1. QED
      BY <2>2, <2>5 DEF a
  <2>7. QED
    BY <1>2, <1>4, <1>7, <2>6
       DEF Promise!Apply, Promise!ListKeys, Promise!Calling, Promise!Keep
<1>8. QED
  BY <1>2, <1>6, <1>7

\* The turns of its loops show nothing more.
LEMMA ClockBatchRefines ==
  ASSUME PlainInv, NEW r \in Requests, ClockBatch(r)
  PROVE  UNCHANGED Promise!vars
<1>1. StepOf(r) /\ IInv
  BY DEF StepOf, Read, PlainInv
<1>2. /\ Settled(r) /\ kv' = kv /\ ttl' = ttl /\ call' = call /\ snap' = snap
      /\ pc'[r] = IF todo'[r] = {} THEN "done" ELSE "check"
  BY <1>1 DEF ClockBatch, At, Settled, ReadsOnly, IInv, TypeOK
<1>3. PhaseOf(r)' = "done" /\ PhaseOf(r) = "done"
  BY <1>2 DEF PhaseOf, Settled
<1>4. AnswerOf(r) = BatchAnswer(r) /\ BatchAnswer(r)' = BatchAnswer(r)
  <2>1. AnswerOf(r) = BatchAnswer(r)
    <3>1. pc[r] # "done" /\ Settled(r)
      BY <1>2 DEF Settled, At
    <3>2. QED
      BY <3>1 DEF AnswerOf
  <2>2. BatchAnswer(r)' = BatchAnswer(r)
    BY <1>2 DEF BatchAnswer
  <2>3. QED
    BY <2>1, <2>2
<1>5. CASE todo'[r] # {}
  <2>1. Settled(r)'
    BY <1>2, <1>5 DEF Settled
  <2>2. AnswerOf(r)' = BatchAnswer(r)
    <3>1. AnswerOf(r)' = BatchAnswer(r)'
      <4>1. pc'[r] # "done" /\ Settled(r)'
        BY <2>1 DEF Settled, At
      <4>2. QED
        BY <4>1 DEF AnswerOf
    <3>2. QED
      BY <1>4, <3>1
  <2>3. QED
    BY <1>1, <1>2, <1>3, <1>4, <2>2, Unseen
<1>6. CASE todo'[r] = {}
  <2>1. AnswerOf(r)' = ans'[r]
    BY <1>2, <1>6 DEF AnswerOf, Settled
  <2>2. ans'[r] = BatchAnswer(r)
    <3>1. CASE call[r].op = "mget"
      <4>1. ans'[r] = [j \in call[r].keys |-> IF j \in todo'[r] THEN Nil ELSE snap[r][j]]
        BY <3>1, BatchTurn
      <4>2. QED
        BY <1>6, <3>1, <4>1 DEF BatchAnswer
    <3>2. CASE call[r].op = "keys"
      BY <1>6, <3>2, BatchTurn
    <3>3. QED
      BY <3>1, <3>2, BatchTurn
  <2>3. QED
    BY <1>1, <1>2, <1>3, <1>4, <2>1, <2>2, Unseen
<1>7. QED
  BY <1>5, <1>6

\* A lookup takes effect when its value is read; the check before it finds no timestamp.
LEMMA LookupRefines ==
  ASSUME PlainInv, NEW r \in Requests, CheckRow(r) \/ ClockGet(r) \/ ReadValue(r)
  PROVE  Promise!Apply(r) \/ UNCHANGED Promise!vars
<1>1. StepOf(r) /\ IInv /\ ttl = Empty /\ Walking(r)
  BY DEF StepOf, Read, PlainInv
<1>2. kv' = kv /\ ttl' = ttl
  BY DEF CheckRow, ClockGet, ReadValue, ReadsOnly
<1>3. CASE CheckRow(r)
  <2>1. /\ call' = call /\ pc[r] = "check" /\ pc'[r] = "clock" /\ snap' = snap
    BY <1>1, <1>3 DEF CheckRow, Goto, IInv, TypeOK
  <2>2. PhaseOf(r)' = PhaseOf(r) /\ AnswerOf(r)' = AnswerOf(r)
    BY <2>1 DEF PhaseOf, AnswerOf, BatchAnswer, Settled
  <2>3. QED
    BY <1>1, <1>2, <2>1, <2>2, Unseen
<1>4. CASE ClockGet(r)
  <2>1. pc[r] = "clock" /\ call[r].op \in {"get", "exists"} /\ ~Past(row[r].at)
    BY <1>1, <1>4 DEF ClockGet, At, Walking, Past
  <2>2. call' = call /\ pc'[r] = "value"
    BY <1>1, <1>4, <2>1 DEF ClockGet, Goto, IInv, TypeOK
  <2>3. PhaseOf(r)' = PhaseOf(r) /\ AnswerOf(r)' = AnswerOf(r)
    BY <2>1, <2>2 DEF PhaseOf, AnswerOf, Settled
  <2>4. QED
    BY <1>1, <1>2, <2>2, <2>3, Unseen
<1>5. CASE ReadValue(r)
  <2> DEFINE k == call[r].key
  <2>1. /\ pc[r] = "value" /\ call[r].op \in {"get", "exists"} /\ pc'[r] = "done" /\ call' = call
        /\ ans'[r] = IF call[r].op = "get" THEN kv[k] ELSE kv[k] # Nil
    BY <1>1, <1>5 DEF ReadValue, At, Answer, IInv, TypeOK, Isolation
  <2>2. k \in Keys
    BY <1>1, <2>1, CallShape DEF IInv, Isolation
  <2>3. PhaseOf(r)' = "done" /\ AnswerOf(r)' = ans'[r] /\ Phase[r] = "called"
    BY <2>1 DEF Phase, PhaseOf, AnswerOf, Settled
  <2> HIDE DEF k
  <2>4. CASE call[r].op = "get"
    <3>1. ans'[r] = Promise!ShownAt(k, 0)
      BY <1>1, <2>1, <2>2, <2>4, PlainView
    <3>2. Promise!Answer(r, Promise!ShownAt(k, 0))
      BY <1>1, <2>1, <2>3, <3>1, Answered
    <3>3. QED
      BY <1>2, <2>3, <2>4, <3>2 DEF Promise!Apply, Promise!Get, Promise!Keep, Promise!Calling, k
  <2>5. CASE call[r].op = "exists"
    <3>1. ans'[r] = (kv[k] # Nil)
      BY <2>1, <2>5
    <3>2. ans'[r] = Promise!AliveAt(k, 0)
      BY <1>1, <2>2, <3>1, PlainView
    <3>3. Promise!Answer(r, Promise!AliveAt(k, 0))
      BY <1>1, <2>1, <2>3, <3>2, Answered
    <3>4. QED
      BY <1>2, <2>3, <2>5, <3>3 DEF Promise!Apply, Promise!Exists, Promise!Keep, Promise!Calling, k
  <2>6. QED
    BY <2>1, <2>4, <2>5
<1>6. QED
  BY <1>3, <1>4, <1>5

\* TTL takes effect when it reads the tables, and does not get to its clock.
LEMMA TtlRefines ==
  ASSUME PlainInv, NEW r \in Requests, OpenTtl(r)
  PROVE  Promise!Apply(r)
<1> DEFINE k == call[r].key
<1>1. StepOf(r) /\ IInv /\ ttl = Empty
  BY DEF StepOf, Read, PlainInv
<1>2. pc[r] = "open" /\ call[r].op = "ttl" /\ kv' = kv /\ ttl' = ttl
  BY DEF OpenTtl, At, ReadsOnly
<1>3. k \in Keys
  BY <1>1, <1>2, CallShape DEF IInv, Isolation
<1>4. ttl[k] = Nil /\ Promise!AliveAt(k, 0) = (kv[k] # Nil)
  BY <1>1, <1>3, PlainView
<1>5. /\ pc'[r] = "done" /\ call' = call
      /\ ans'[r] = IF kv[k] = Nil THEN -2 ELSE -1
  BY <1>1, <1>4 DEF OpenTtl, Answer, IInv, TypeOK, Isolation
<1>6. PhaseOf(r)' = "done" /\ AnswerOf(r)' = ans'[r] /\ Phase[r] = "called"
  BY <1>2, <1>5 DEF Phase, PhaseOf, AnswerOf, Settled
<1> DEFINE a == IF kv[k] = Nil THEN -2 ELSE -1
<1>7. ans'[r] = a
  BY <1>5
<1> HIDE DEF a
<1>8. Promise!Answer(r, a)
  BY <1>1, <1>5, <1>6, <1>7, Answered
<1>9. \/ ~Promise!AliveAt(k, 0) /\ a = -2
      \/ Promise!AliveAt(k, 0) /\ ttl[k] = Nil /\ a = -1
  BY <1>4 DEF a
<1>10. QED
  BY <1>2, <1>6, <1>8, <1>9, OneMoment
     DEF Promise!Apply, Promise!Ttl, Promise!Keep, Promise!Calling

\* A write takes effect with its commit.
LEMMA CommitRefines ==
  ASSUME NoTtl, PlainInv, NEW r \in Requests, Commit(r)
  PROVE  Promise!Apply(r)
<1> DEFINE c == call[r]
<1>1. StepOf(r) /\ IInv /\ ttl = Empty /\ c \in AnyCall
  BY DEF StepOf, Write, PlainInv, Commit, IInv, Isolation
<1>2. pc[r] = "commit" /\ pc'[r] = "done" /\ call' = call /\ ans' = ans /\ kv' = wkv
  BY <1>1 DEF Commit, Goto, IInv, TypeOK
<1>3. /\ ttl' = Empty /\ Writes(c, kv, kv', ans[r]) /\ c.op \in WriteOps
  BY <1>2 DEF Commit, PlainInv, Written, Control, ControlOf
<1>4. PhaseOf(r)' = "done" /\ AnswerOf(r)' = ans[r] /\ Phase[r] = "called"
  BY <1>2 DEF Phase, PhaseOf, AnswerOf, Settled
<1>5. Promise!Answer(r, ans[r])
  BY <1>1, <1>2, <1>4, Answered
<1>6. \A j \in Keys : ttl' = [ttl EXCEPT ![j] = Nil]
  BY <1>1, <1>3 DEF Empty
<1>7. c.op \in {"set", "mset", "del", "incr"}
  BY <1>1, <1>3 DEF NoTtl, WriteOps
<1> HIDE DEF c
<1>8. CASE c.op = "set"
  <2>1. c.key \in Keys /\ ~HasTtl(c)
    BY <1>1, <1>8, CallShape DEF NoTtl
  <2>2. Promise!Put(c.key, c.value, Nil) /\ ans[r] = "ok"
    BY <1>3, <1>6, <1>8, <2>1 DEF Writes, Promise!Put
  <2>3. ~Promise!HasTtl(c)
    BY <2>1 DEF HasTtl, Promise!HasTtl
  <2>4. QED
    BY <1>4, <1>5, <1>8, <2>2, <2>3 DEF Promise!Apply, Promise!Set, Promise!Calling, c
<1>9. CASE c.op = "mset"
  <2>1. kv' = Overwrite(kv, c.pairs) /\ ans[r] = "ok"
    BY <1>3, <1>9 DEF Writes
  <2>2. kv' = Promise!Overwrite(kv, c.pairs)
    BY <2>1 DEF Overwrite, Promise!Overwrite
  <2>3. ttl' = Promise!Overwrite(ttl, [j \in DOMAIN c.pairs |-> Nil])
    BY <1>1, <1>3 DEF Promise!Overwrite, Empty
  <2>4. QED
    BY <1>4, <1>5, <1>9, <2>1, <2>2, <2>3
       DEF Promise!Apply, Promise!Mset, Promise!Calling, c
<1>10. CASE c.op = "del"
  <2>1. c.key \in Keys
    BY <1>1, <1>10, CallShape
  <2>2. Promise!Put(c.key, Nil, Nil) /\ ans[r] = IF kv[c.key] = Nil THEN 0 ELSE 1
    BY <1>3, <1>6, <1>10, <2>1 DEF Writes, Promise!Put
  <2>3. QED
    BY <1>4, <1>5, <1>10, <2>2 DEF Promise!Apply, Promise!Del, Promise!Calling, c
<1>11. CASE c.op = "incr"
  <2> DEFINE n == Promise!Succ(Promise!Number(Promise!ShownAt(c.key, 0)))
  <2>1. c.key \in Keys
    BY <1>1, <1>11, CallShape
  <2>2. Promise!ShownAt(c.key, 0) = kv[c.key]
    BY <1>1, <2>1, PlainView
  <2>3. n = Succ(Number(kv[c.key]))
    BY <2>2 DEF Succ, Number, Promise!Succ, Promise!Number
  <2>4. Promise!Put(c.key, n, Nil) /\ ans[r] = n
    <3> HIDE DEF n
    <3>1. QED
      BY <1>3, <1>6, <1>11, <2>1, <2>3 DEF Writes, Promise!Put
  <2>5. QED
    BY <1>4, <1>5, <1>11, <2>4 DEF Promise!Apply, Promise!Incr, Promise!Calling, c
<1>12. QED
  BY <1>7, <1>8, <1>9, <1>10, <1>11

\* A request that is made or answered, or whose transaction fails.
LEMMA EndsRefine ==
  ASSUME PlainInv, NEW r \in Requests
  PROVE  /\ \A c \in Calls[r] : Invoke(r, c) => Promise!Invoke(r, c)
         /\ Reply(r) => Promise!Reply(r)
         /\ Abort(r) => Promise!Fail(r)
<1>1. IInv /\ pc \in [Requests -> ControlPoints]
  BY DEF PlainInv, IInv, TypeOK
<1>2. ASSUME NEW c \in Calls[r], Invoke(r, c) PROVE Promise!Invoke(r, c)
  <2>1. StepOf(r)
    BY <1>2 DEF StepOf
  <2>2. /\ pc[r] = "idle" /\ pc'[r] = Start(c.op) /\ call' = [call EXCEPT ![r] = c]
        /\ call'[r] = c /\ kv' = kv /\ ttl' = ttl
    BY <1>1, <1>2 DEF Invoke, ReadsOnly, IInv, TypeOK
  <2>3. Phase[r] = "idle" /\ PhaseOf(r)' = "called"
    BY <2>2 DEF Phase, PhaseOf, Settled, Start
  <2>4. AnswerOf(r) = Nil /\ AnswerOf(r)' = Nil
    BY <2>2 DEF AnswerOf, Settled, Start
  <2>5. Phase' = [Phase EXCEPT ![r] = "called"] /\ Answers' = [Answers EXCEPT ![r] = Nil]
    BY <1>1, <2>1, <2>3, <2>4, OthersLookSame
  <2>6. Answers' = Answers
    BY <2>4, <2>5 DEF Answers
  <2>7. Asked' = [Asked EXCEPT ![r] = 0]
    BY DEF Asked
  <2>8. QED
    BY <2>2, <2>3, <2>5, <2>6, <2>7 DEF Promise!Invoke
<1>3. ASSUME Reply(r) PROVE Promise!Reply(r)
  <2>1. StepOf(r)
    BY <1>3 DEF StepOf
  <2>2. /\ pc[r] \in {"done", "failed"} /\ pc'[r] = "idle" /\ call' = [call EXCEPT ![r] = Nil]
        /\ kv' = kv /\ ttl' = ttl
    BY <1>1, <1>3 DEF Reply, ReadsOnly
  <2>3. Phase[r] = pc[r] /\ PhaseOf(r)' = "idle" /\ AnswerOf(r)' = Nil
    BY <2>2 DEF Phase, PhaseOf, AnswerOf, Settled
  <2>4. Phase' = [Phase EXCEPT ![r] = "idle"] /\ Answers' = [Answers EXCEPT ![r] = Nil]
    BY <1>1, <2>1, <2>3, OthersLookSame
  <2>5. Asked' = [Asked EXCEPT ![r] = 0]
    BY DEF Asked
  <2>6. QED
    BY <2>2, <2>3, <2>4, <2>5 DEF Promise!Reply
<1>4. ASSUME Abort(r) PROVE Promise!Fail(r)
  <2>1. StepOf(r)
    BY <1>4 DEF StepOf, Write
  <2>2. pc[r] = "commit" /\ pc'[r] = "failed" /\ call' = call /\ kv' = kv /\ ttl' = ttl
    BY <1>1, <1>4 DEF Abort
  <2>3. /\ Phase[r] = "called" /\ PhaseOf(r)' = "failed"
        /\ AnswerOf(r) = Nil /\ AnswerOf(r)' = Nil
    BY <2>2 DEF Phase, PhaseOf, AnswerOf, Settled
  <2>4. Phase' = [Phase EXCEPT ![r] = "failed"] /\ Answers' = [Answers EXCEPT ![r] = Nil]
    BY <1>1, <2>1, <2>3, OthersLookSame
  <2>5. Answers' = Answers /\ Asked' = Asked
    BY <2>3, <2>4 DEF Answers, Asked
  <2>6. QED
    BY <2>2, <2>3, <2>4, <2>5 DEF Promise!Fail
<1>5. QED
  BY <1>2, <1>3, <1>4

\* A write transaction that begins shows nothing.
LEMMA BeginRefines ==
  ASSUME PlainInv, NEW r \in Requests, Begins(r)
  PROVE  UNCHANGED Promise!vars
<1>1. StepOf(r) /\ IInv
  BY DEF StepOf, Write, Begins, PlainInv
<1>2. pc[r] = "begin" /\ pc'[r] = "commit" /\ call' = call /\ kv' = kv /\ ttl' = ttl
  BY <1>1 DEF Begins, BeginSet, BeginMset, BeginDel, BeginIncr, BeginExpire, Begin, At, IInv, TypeOK
<1>3. PhaseOf(r)' = PhaseOf(r) /\ AnswerOf(r)' = AnswerOf(r)
  BY <1>2 DEF PhaseOf, AnswerOf, Settled
<1>4. QED
  BY <1>1, <1>2, <1>3, Unseen

\* Every step is a step of the promise, or one that no client sees.
LEMMA PlainStepRefines ==
  ASSUME NoTtl, PlainInv, [Next]_vars
  PROVE  [Promise!Next]_Promise!vars
<1>1. ASSUME NEW r \in Requests, Read(r) PROVE [Promise!Next]_Promise!vars
  <2>1. ~LookExpire(r) /\ ~ClockTtl(r)
    BY DEF PlainInv, IInv, Isolation, NoTtl, LookExpire, ClockTtl, At, Walking
  <2>2. QED
    BY <1>1, <2>1, OpenBatchRefines, ClockBatchRefines, LookupRefines, TtlRefines
       DEF Read, Promise!Next
<1>2. ASSUME NEW r \in Requests, Write(r) PROVE [Promise!Next]_Promise!vars
  BY <1>2, BeginRefines, CommitRefines, EndsRefine DEF Write, Begins, Promise!Next
<1>3. CASE Tick \/ UNCHANGED vars
  BY <1>3 DEF Tick, vars, Promise!vars, Phase, PhaseOf, Answers, AnswerOf, Settled, BatchAnswer,
     Asked
<1>4. CASE Crash
  <2>1. \A r \in Requests : PhaseOf(r)' = "idle" /\ AnswerOf(r)' = Nil
    BY <1>4 DEF Crash, PhaseOf, AnswerOf, Settled
  <2>2. Promise!Crash
    BY <1>4, <2>1 DEF Crash, Promise!Crash, Phase, Answers, Asked
  <2>3. QED
    BY <2>2 DEF Promise!Next
<1>5. ASSUME NEW r \in Requests, (\E c \in Calls[r] : Invoke(r, c)) \/ Reply(r)
      PROVE  [Promise!Next]_Promise!vars
  BY <1>5, EndsRefine DEF Promise!Next
<1>6. QED
  BY <1>1, <1>2, <1>3, <1>4, <1>5 DEF Next

\* As long as no client asks for an expiry, the redb backend implements the promise of the
\* API, for any number of keys, requests and calls: each call takes effect at one moment,
\* through aborted transactions and restarts.
THEOREM RedbImplementsPromise ==
  ASSUME NoTtl
  PROVE  Spec => ImplementsPromise
<1>1. Init => Promise!Init
  BY DEF Init, Promise!Init, Empty, Phase, PhaseOf, Answers, AnswerOf, Settled, Asked
<1>2. PlainInv /\ [Next]_vars => [Promise!Next]_Promise!vars
  BY PlainStepRefines
<1>3. QED
  BY <1>1, <1>2, PlainInvariance, PTL DEF Spec, ImplementsPromise, Promise!Spec
=============================================================================
