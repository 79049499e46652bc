------------------------------- MODULE KvRedb -------------------------------
(***************************************************************************)
(* The embedded backend (RedbBackend in src/kv.rs): two redb tables, "kv"  *)
(* with the values and "ttl" with the expiry timestamps, in one database.  *)
(*                                                                         *)
(* Every call runs in a spawn_blocking task of its own, so the tasks of    *)
(* different requests interleave between transactions.  redb gives one     *)
(* write transaction at a time (begin_write waits), invisible to others    *)
(* until its commit, and read transactions that see the tables as they     *)
(* were last committed when the transaction began.                         *)
(*                                                                         *)
(* A call is therefore a few steps: its read transactions, the moments it  *)
(* reads the clock, the body of its write transaction and the commit.  A   *)
(* task whose handler was dropped (client gone, request timed out) keeps   *)
(* running: it is a request whose Reply nobody reads.                      *)
(***************************************************************************)
EXTENDS KvApi

CONSTANTS Epoch, MaxNow,  \* the clock, in seconds: where it starts and stops (bound)
          U64             \* 2^64: `seconds as u64` and the addition wrap at it

ASSUME RedbAssumption ==
  /\ Epoch \in Nat \ {0, 1}  \* a clock of the present, not of the first seconds of 1970
  /\ MaxNow \in Nat
  /\ Epoch <= MaxNow
  /\ U64 \in Nat \ {0}

VARIABLES kv, ttl,    \* the committed tables
          wkv, wttl,  \* the tables as the open write transaction sees them
          writer,     \* the request that holds the write transaction
          now,        \* current_timestamp()
          pc, call,   \* of each request: control point and call
          snap,       \* ... the "kv" table its read transaction sees
          todo,       \* ... the keys its loop has yet to visit
          row,        \* ... the key it is checking, with the timestamp it read
          ans         \* ... its answer

tables  == <<kv, ttl>>
txn     == <<wkv, wttl, writer>>
request == <<pc, call, snap, todo, row, ans>>
vars    == <<kv, ttl, wkv, wttl, writer, now, pc, call, snap, todo, row, ans>>

Table    == [Keys -> Value \union {Nil}]
Stamp    == 0 .. U64 - 1
TtlTable == [Keys -> Stamp \union {Nil}]
Row      == [key : Keys, at : Stamp \union {Nil}]

ControlPoints ==
  {"idle", "open", "check", "clock", "value", "look", "begin", "commit", "done", "failed"}

TypeOK ==
  /\ kv \in Table
  /\ ttl \in TtlTable
  /\ wkv \in Table
  /\ wttl \in TtlTable
  /\ writer \in Requests \union {Nil}
  /\ now \in Nat
  /\ pc \in [Requests -> ControlPoints]
  /\ call \in [Requests -> AnyCall \union {Nil}]
  /\ snap \in [Requests -> Table]
  /\ todo \in [Requests -> SUBSET Keys]
  /\ row \in [Requests -> Row \union {Nil}]

Empty == [k \in Keys |-> Nil]

Init ==
  /\ kv = Empty /\ ttl = Empty
  /\ wkv = Empty /\ wttl = Empty
  /\ writer = Nil
  /\ now = Epoch
  /\ pc = [r \in Requests |-> "idle"]
  /\ call = [r \in Requests |-> Nil]
  /\ snap = [r \in Requests |-> Empty]
  /\ todo = [r \in Requests |-> {}]
  /\ row = [r \in Requests |-> Nil]
  /\ ans = [r \in Requests |-> Nil]

\* Mutant of Timestamp: the sum is signed.
TimestampSigned(seconds) == now + seconds

\* `current_timestamp() + seconds as u64`
Timestamp(seconds) == (now + seconds) % U64

\* The comparison of is_key_expired and ttl_sync, on a timestamp read earlier.
Past(at) == at # Nil /\ now >= at

-----------------------------------------------------------------------------
(* Control *)

At(r, point, ops) == pc[r] = point /\ call[r].op \in ops

Goto(r, point) == pc' = [pc EXCEPT ![r] = point] /\ UNCHANGED <<call, ans>>

Answer(r, a) ==
  /\ pc' = [pc EXCEPT ![r] = "done"]
  /\ ans' = [ans EXCEPT ![r] = a]
  /\ UNCHANGED call

ReadsOnly == UNCHANGED <<kv, ttl, wkv, wttl, writer, now>>

Start(op) ==
  CASE op \in {"get", "exists"}               -> "check"
    [] op \in {"mget", "keys", "ttl"}         -> "open"
    [] op = "expire"                          -> "look"
    [] OTHER                                  -> "begin"

\* The handler spawns the task of its call.
Invoke(r, c) ==
  /\ pc[r] = "idle"
  /\ pc' = [pc EXCEPT ![r] = Start(c.op)]
  /\ call' = [call EXCEPT ![r] = c]
  /\ todo' = [todo EXCEPT ![r] = IF c.op \in {"get", "exists"} THEN {c.key} ELSE {}]
  /\ ReadsOnly
  /\ UNCHANGED <<snap, row, ans>>

Reply(r) ==
  /\ pc[r] \in {"done", "failed"}
  /\ pc' = [pc EXCEPT ![r] = "idle"]
  /\ call' = [call EXCEPT ![r] = Nil]
  /\ snap' = [snap EXCEPT ![r] = Empty]
  /\ todo' = [todo EXCEPT ![r] = {}]
  /\ row' = [row EXCEPT ![r] = Nil]
  /\ ans' = [ans EXCEPT ![r] = Nil]
  /\ ReadsOnly

-----------------------------------------------------------------------------
(* Read transactions *)

\* keys_sync and mget_sync open their snapshot of the "kv" table first; keys_sync
\* then walks the keys of the table that match, mget_sync the keys it was given.
OpenBatch(r) ==
  LET visit == IF call[r].op = "mget" THEN call[r].keys
               ELSE {k \in call[r].keys : kv[k] # Nil}
  IN
  /\ At(r, "open", {"mget", "keys"})
  /\ snap' = [snap EXCEPT ![r] = kv]
  /\ todo' = [todo EXCEPT ![r] = visit]
  /\ pc' = [pc EXCEPT ![r] = IF visit = {} THEN "done" ELSE "check"]
  /\ ans' = [ans EXCEPT ![r] = IF call[r].op = "mget" THEN [k \in call[r].keys |-> Nil] ELSE {}]
  /\ ReadsOnly
  /\ UNCHANGED <<call, row>>

\* is_key_expired, first half: a read transaction of its own gets the timestamp.
CheckRow(r) ==
  /\ pc[r] = "check"
  /\ \E k \in todo[r] : row' = [row EXCEPT ![r] = [key |-> k, at |-> ttl[k]]]
  /\ Goto(r, "clock")
  /\ ReadsOnly
  /\ UNCHANGED <<snap, todo>>

\* is_key_expired, second half: the clock is read.  An expired key ends the call.
ClockGet(r) ==
  /\ At(r, "clock", {"get", "exists"})
  /\ \/ /\ Past(row[r].at)
        /\ Answer(r, IF call[r].op = "get" THEN Nil ELSE FALSE)
     \/ ~Past(row[r].at) /\ Goto(r, "value")
  /\ ReadsOnly
  /\ UNCHANGED <<snap, todo, row>>

\* Mutant of ReadValue: the uncommitted table is read.
ReadValueDirty(r) ==
  LET v == wkv[call[r].key] IN
  /\ At(r, "value", {"get", "exists"})
  /\ Answer(r, IF call[r].op = "get" THEN v ELSE v # Nil)
  /\ ReadsOnly
  /\ UNCHANGED <<snap, todo, row>>

\* get_sync and exists_sync look the value up in a second read transaction.
ReadValue(r) ==
  LET v == kv[call[r].key] IN
  /\ At(r, "value", {"get", "exists"})
  /\ Answer(r, IF call[r].op = "get" THEN v ELSE v # Nil)
  /\ ReadsOnly
  /\ UNCHANGED <<snap, todo, row>>

\* Mutant of ClockBatch: the value comes from a transaction of its own.
ClockBatchFresh(r) ==
  LET k == row[r].key
      left == todo[r] \ {k}
  IN
  /\ At(r, "clock", {"mget", "keys"})
  /\ ans' = IF Past(row[r].at) THEN ans
            ELSE IF call[r].op = "mget" THEN [ans EXCEPT ![r][k] = kv[k]]
            ELSE [ans EXCEPT ![r] = @ \union {k}]
  /\ todo' = [todo EXCEPT ![r] = left]
  /\ pc' = [pc EXCEPT ![r] = IF left = {} THEN "done" ELSE "check"]
  /\ ReadsOnly
  /\ UNCHANGED <<call, snap, row>>

\* One turn of the loops: the answer takes the value of the snapshot, or the key.
ClockBatch(r) ==
  LET k == row[r].key
      left == todo[r] \ {k}
  IN
  /\ At(r, "clock", {"mget", "keys"})
  /\ ans' = IF Past(row[r].at) THEN ans
            ELSE IF call[r].op = "mget" THEN [ans EXCEPT ![r][k] = snap[r][k]]
            ELSE [ans EXCEPT ![r] = @ \union {k}]
  /\ todo' = [todo EXCEPT ![r] = left]
  /\ pc' = [pc EXCEPT ![r] = IF left = {} THEN "done" ELSE "check"]
  /\ ReadsOnly
  /\ UNCHANGED <<call, snap, row>>

\* ttl_sync reads both tables in one transaction, and then the clock.
OpenTtl(r) ==
  LET k == call[r].key IN
  /\ At(r, "open", {"ttl"})
  /\ IF kv[k] = Nil THEN Answer(r, -2)
     ELSE IF ttl[k] = Nil THEN Answer(r, -1)
     ELSE Goto(r, "clock")
  /\ row' = [row EXCEPT ![r] = [key |-> k, at |-> ttl[k]]]
  /\ ReadsOnly
  /\ UNCHANGED <<snap, todo>>

\* `(expires_at - now) as i64`: a difference of 2^63 and more turns negative.
AsSigned(d) == IF d < U64 \div 2 THEN d ELSE d - U64

\* Mutant of ClockTtl: a timestamp that has passed is not told apart.
ClockTtlUnchecked(r) ==
  /\ At(r, "clock", {"ttl"})
  /\ Answer(r, AsSigned((row[r].at - now) % U64))
  /\ ReadsOnly
  /\ UNCHANGED <<snap, todo, row>>

ClockTtl(r) ==
  /\ At(r, "clock", {"ttl"})
  /\ Answer(r, IF Past(row[r].at) THEN -2 ELSE AsSigned(row[r].at - now))
  /\ ReadsOnly
  /\ UNCHANGED <<snap, todo, row>>

\* expire_sync looks the key up in a read transaction that it drops at once.
LookExpire(r) ==
  /\ At(r, "look", {"expire"})
  /\ IF kv[call[r].key] = Nil THEN Answer(r, FALSE) ELSE Goto(r, "begin")
  /\ ReadsOnly
  /\ UNCHANGED <<snap, todo, row>>

-----------------------------------------------------------------------------
(* Write transactions *)

\* Mutant of Begin: a write transaction starts beside another.
BeginUnlocked(r, op) ==
  /\ At(r, "begin", {op})
  /\ writer' = r
  /\ pc' = [pc EXCEPT ![r] = "commit"]
  /\ UNCHANGED <<kv, ttl, now, call, snap, todo, row>>

\* begin_write waits for the previous write transaction to end.
Begin(r, op) ==
  /\ At(r, "begin", {op})
  /\ writer = Nil
  /\ writer' = r
  /\ pc' = [pc EXCEPT ![r] = "commit"]
  /\ UNCHANGED <<kv, ttl, now, call, snap, todo, row>>

\* The answer the task returns if its commit succeeds.
Computes(r, a) == ans' = [ans EXCEPT ![r] = a]

\* The "ttl" table is written only for a ttl above zero.
BeginSet(r) ==
  LET c == call[r] IN
  /\ Begin(r, "set")
  /\ wkv' = [kv EXCEPT ![c.key] = c.value]
  /\ wttl' = IF HasTtl(c) THEN [ttl EXCEPT ![c.key] = Timestamp(c.ttl)] ELSE ttl
  /\ Computes(r, "ok")

BeginMset(r) ==
  /\ Begin(r, "mset")
  /\ wkv' = Overwrite(kv, call[r].pairs)
  /\ wttl' = ttl
  /\ Computes(r, "ok")

\* Mutant of BeginDel: the row of the "ttl" table is left behind.
BeginDelKeepsTtl(r) ==
  LET k == call[r].key IN
  /\ Begin(r, "del")
  /\ wkv' = [kv EXCEPT ![k] = Nil]
  /\ wttl' = ttl
  /\ Computes(r, IF kv[k] = Nil THEN 0 ELSE 1)

\* An error of the second removal is ignored; after an I/O error redb refuses the
\* commit, which is Abort.
BeginDel(r) ==
  LET k == call[r].key IN
  /\ Begin(r, "del")
  /\ wkv' = [kv EXCEPT ![k] = Nil]
  /\ wttl' = [ttl EXCEPT ![k] = Nil]
  /\ Computes(r, IF kv[k] = Nil THEN 0 ELSE 1)

\* The current number is read inside the transaction, expired or not.
BeginIncr(r) ==
  LET k == call[r].key
      n == Succ(Number(kv[k]))
  IN
  /\ Begin(r, "incr")
  /\ wkv' = [kv EXCEPT ![k] = n]
  /\ wttl' = ttl
  /\ Computes(r, n)

BeginExpire(r) ==
  LET c == call[r] IN
  /\ Begin(r, "expire")
  /\ wkv' = kv
  /\ wttl' = [ttl EXCEPT ![c.key] = Timestamp(c.seconds)]
  /\ Computes(r, TRUE)

Commit(r) ==
  /\ pc[r] = "commit"
  /\ kv' = wkv /\ ttl' = wttl
  /\ writer' = Nil
  /\ Goto(r, "done")
  /\ UNCHANGED <<wkv, wttl, now, snap, todo, row>>

\* Mutant of Abort: the failed transaction is not dropped.
AbortKeepsLock(r) ==
  /\ pc[r] = "commit"
  /\ wkv' = kv /\ wttl' = ttl
  /\ pc' = [pc EXCEPT ![r] = "failed"]
  /\ UNCHANGED <<kv, ttl, writer, now, call, snap, todo, row, ans>>

\* An operation of the transaction, or its commit, returns an error: the task
\* answers Error::Internal and the dropped transaction leaves no trace.
Abort(r) ==
  /\ pc[r] = "commit"
  /\ wkv' = kv /\ wttl' = ttl
  /\ writer' = Nil
  /\ pc' = [pc EXCEPT ![r] = "failed"]
  /\ UNCHANGED <<kv, ttl, now, call, snap, todo, row, ans>>

-----------------------------------------------------------------------------
(* Environment *)

Tick ==
  /\ now < MaxNow
  /\ now' = now + 1
  /\ UNCHANGED <<kv, ttl, wkv, wttl, writer, pc, call, snap, todo, row, ans>>

\* Mutant of Crash: the restart finds the uncommitted tables.
CrashPublishes ==
  /\ \E r \in Requests : pc[r] # "idle"
  /\ kv' = wkv /\ ttl' = wttl
  /\ writer' = Nil
  /\ pc' = [r \in Requests |-> "idle"]
  /\ call' = [r \in Requests |-> Nil]
  /\ snap' = [r \in Requests |-> Empty]
  /\ todo' = [r \in Requests |-> {}]
  /\ row' = [r \in Requests |-> Nil]
  /\ ans' = [r \in Requests |-> Nil]
  /\ UNCHANGED <<wkv, wttl, now>>

\* The process dies and is started again on the same file: RedbBackend::new opens
\* the tables as last committed.  Requests in flight are gone.
Crash ==
  /\ \E r \in Requests : pc[r] # "idle"
  /\ wkv' = kv /\ wttl' = ttl
  /\ writer' = Nil
  /\ pc' = [r \in Requests |-> "idle"]
  /\ call' = [r \in Requests |-> Nil]
  /\ snap' = [r \in Requests |-> Empty]
  /\ todo' = [r \in Requests |-> {}]
  /\ row' = [r \in Requests |-> Nil]
  /\ ans' = [r \in Requests |-> Nil]
  /\ UNCHANGED <<kv, ttl, now>>

Read(r) ==
  \/ OpenBatch(r) \/ CheckRow(r) \/ ClockGet(r) \/ ReadValue(r) \/ ClockBatch(r)
  \/ OpenTtl(r) \/ ClockTtl(r) \/ LookExpire(r)

Write(r) ==
  \/ BeginSet(r) \/ BeginMset(r) \/ BeginDel(r) \/ BeginIncr(r) \/ BeginExpire(r)
  \/ Commit(r) \/ Abort(r)

Next ==
  \/ \E r \in Requests : (\E c \in Calls[r] : Invoke(r, c)) \/ Read(r) \/ Write(r) \/ Reply(r)
  \/ Tick
  \/ Crash

Spec == Init /\ [][Next]_vars

-----------------------------------------------------------------------------
(* Properties of the tables *)

\* What a reader should see of a key now: its value, unless its timestamp passed.
Shown(k) == IF Past(ttl[k]) THEN Nil ELSE kv[k]

\* The step in which request r commits a call of one of the operations ops.
Commits(r, ops) == At(r, "commit", ops) /\ pc'[r] = "done"

KeysOf(c) ==
  CASE c.op = "mset"             -> DOMAIN c.pairs
    [] c.op \in {"mget", "keys"} -> c.keys
    [] OTHER                     -> {c.key}

\* INCR is atomic: whatever other writers do between the read of the number and
\* the commit, the committed number is the successor of the one it replaces, and
\* the answer is that number.  (incr_sync reads and writes in one transaction.)
IncrementsOnce ==
  [][\A r \in Requests : Commits(r, {"incr"}) =>
       LET k == call[r].key IN
       kv'[k] = Succ(Number(kv[k])) /\ ans'[r] = kv'[k]]_vars

\* No update is lost: a step changes the committed entries of a key only by
\* committing a write call on that very key, never by overwriting the tables with
\* an older copy.
OnlyTheWriterWrites ==
  [][\A k \in Keys : (kv'[k] # kv[k] \/ ttl'[k] # ttl[k]) =>
       \E r \in Requests : pc[r] = "commit" /\ pc'[r] = "done" /\ k \in KeysOf(call[r])]_vars

\* Only an EXPIRE that has lost its race leaves a timestamp without its key: every other
\* commit, of whatever call on whatever keys, and every restart keeps the tables paired.
\* (del_sync removes both rows in one transaction; a failed commit removes neither.)
OrphanOnlyByExpire ==
  [][\A k \in Keys : (ttl'[k] # Nil /\ kv'[k] = Nil) =>
       \/ ttl[k] # Nil /\ kv[k] = Nil
       \/ \E r \in Requests : Commits(r, {"expire"}) /\ call[r].key = k]_vars

\* A SET is seen: when the transaction of a SET without ttl commits, readers see
\* the value it stored (test_redb_set_and_get).
SetShows ==
  [][\A r \in Requests : Commits(r, {"set"}) /\ ~HasTtl(call[r]) =>
       Shown(call[r].key)' = call[r].value]_vars

\* Every call is answered, unless a restart ends it: a write transaction that waits
\* gets its turn, also after the transactions before it failed.
EveryCallAnswered ==
  \A r \in Requests : (pc[r] # "idle") ~> (pc[r] \in {"done", "failed", "idle"})
=============================================================================
