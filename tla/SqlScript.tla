----------------------------- MODULE SqlScript -----------------------------
(***************************************************************************)
(* The SQL service (src/sql.rs): single statements, batches, and scripts   *)
(* whose statements run in one transaction.                                *)
(*                                                                         *)
(* A script runs on a thread of its own.  Each sql.query or sql.execute    *)
(* sends a message to the handler and blocks for the reply; the handler    *)
(* owns the transaction and loops over the messages and the end of the     *)
(* thread, then commits or rolls back.                                     *)
(*                                                                         *)
(* What the client writes is reduced to what the service reacts to: the    *)
(* body of a script is a sequence of steps, each a statement or a reason   *)
(* to stop; `async` tells `export default async function` from the plain   *)
(* forms, `catches` a script that wraps its statements in try/catch.       *)
(*                                                                         *)
(* External: PostgreSQL and sqlx.  READ COMMITTED: a statement sees what   *)
(* is committed and its transaction's own writes; a written row stays      *)
(* locked until the transaction ends, and the next writer waits and then   *)
(* works on the new value.  Most failed statements abort the transaction:  *)
(* what follows fails too and COMMIT rolls back.  An error on the client's *)
(* side of the connection (decoding a row) does not.                       *)
(***************************************************************************)
EXTENDS Integers, Sequences, FiniteSets

CONSTANTS Rows, Initial,  \* the rows, each an amount, and their first values
          Requests,       \* each makes one call
          Calls,          \* of each request: the calls it may make in this instance
          Pool,           \* max_connections of the pool
          Nil

StepType ==
  [do : {"query"}, row : Rows] \union [do : {"add"}, row : Rows, amount : Int]
    \union [do : {"require"}, row : Rows, least : Int] \union [do : {"throw", "await"}]

CallType == [kind : {"execute", "batch", "script"}, async : BOOLEAN, catches : BOOLEAN,
             body : Seq(StepType)]

Statements == {"query", "add"}

ASSUME SqlAssumption ==
  /\ Initial \in [Rows -> Int]
  /\ Pool \in Nat \ {0}
  /\ Calls \in [Requests -> SUBSET CallType]
  /\ Nil \notin Int \union CallType \union {"ok", "error"}
  /\ \A r \in Requests : \A c \in Calls[r] : \A i \in DOMAIN c.body :
       /\ c.kind # "script" => c.body[i].do \in Statements
       /\ c.body[i].do = "await" => c.async
  /\ \A r \in Requests : \A c \in Calls[r] : c.kind = "execute" => Len(c.body) = 1

VARIABLES db,          \* the committed rows
          pc, call,    \* of each request: control point of its handler, and call
          writes,      \* ... the rows its open transaction has written, with their values
          aborted,     \* ... the server has given its transaction up
          last_error,  \* ... last_error.is_some()
          js,          \* ... the script's thread
          ip,          \* ... the step of the body it is at
          reply,       \* ... the channel of the statement it waits for
          seen,        \* ... what its queries returned
          outcome,     \* ... what the client is answered
          threw,       \* history: the script ended with an error
          committed    \* history: the requests whose transaction committed

transaction == <<writes, aborted>>
script == <<js, ip, reply, seen, threw>>
vars == <<db, pc, call, writes, aborted, last_error, js, ip, reply, seen, outcome,
          threw, committed>>

NoRow == [w \in Rows |-> Nil]

Points == {"idle", "acquire", "loop", "run", "rollback", "commit", "answered", "dropped"}

\* Who writes a row has it alone.
RowsExclusive ==
  \A r, s \in Requests, w \in Rows : writes[r][w] # Nil /\ writes[s][w] # Nil => r = s

TypeOK ==
  /\ db \in [Rows -> Int]
  /\ pc \in [Requests -> Points]
  /\ \A r \in Requests : call[r] \in Calls[r] \union {Nil}
  /\ writes \in [Requests -> [Rows -> Int \union {Nil}]]
  /\ RowsExclusive
  /\ aborted \in [Requests -> BOOLEAN]
  /\ last_error \in [Requests -> BOOLEAN]
  /\ js \in [Requests -> {"none", "running", "asking", "returned", "threw"}]
  /\ ip \in [Requests -> Nat]
  /\ reply \in [Requests -> {Nil, "ok", "error"}]
  /\ seen \in [Requests -> [Rows -> Int \union {Nil}]]
  /\ outcome \in [Requests -> {Nil, "ok", "error"}]
  /\ threw \in [Requests -> BOOLEAN]
  /\ committed \subseteq Requests

Init ==
  /\ db = Initial
  /\ pc = [r \in Requests |-> "idle"]
  /\ call = [r \in Requests |-> Nil]
  /\ writes = [r \in Requests |-> NoRow]
  /\ aborted = [r \in Requests |-> FALSE]
  /\ last_error = [r \in Requests |-> FALSE]
  /\ js = [r \in Requests |-> "none"]
  /\ ip = [r \in Requests |-> 1]
  /\ reply = [r \in Requests |-> Nil]
  /\ seen = [r \in Requests |-> NoRow]
  /\ outcome = [r \in Requests |-> Nil]
  /\ threw = [r \in Requests |-> FALSE]
  /\ committed = {}

Goto(r, point) == pc' = [pc EXCEPT ![r] = point]

Answer(r, o) == Goto(r, "answered") /\ outcome' = [outcome EXCEPT ![r] = o]

Invoke(r, c) ==
  /\ pc[r] = "idle"
  /\ Goto(r, "acquire")
  /\ call' = [call EXCEPT ![r] = c]
  /\ UNCHANGED <<db, transaction, last_error, script, outcome, committed>>

-----------------------------------------------------------------------------
(* The database *)

Connected(r) == pc[r] \in {"loop", "run", "rollback", "commit"}

Do(r) == call[r].body[ip[r]]

\* A row as the transaction of r sees it.
Sees(r, w) == IF writes[r][w] # Nil THEN writes[r][w] ELSE db[w]

Blocked(r) ==
  Do(r).do = "add" /\ \E s \in Requests \ {r} : writes[s][Do(r).row] # Nil

\* Mutant of Executes: a row that another transaction has written is not waited for.
ExecutesUnblocked(r) ==
  LET w == Do(r).row IN
  /\ ~aborted[r]
  /\ IF Do(r).do = "query"
     THEN seen' = [seen EXCEPT ![r][w] = Sees(r, w)] /\ UNCHANGED writes
     ELSE writes' = [writes EXCEPT ![r][w] = Sees(r, w) + Do(r).amount] /\ UNCHANGED seen

\* The statement that r is at succeeds.
Executes(r) ==
  LET w == Do(r).row IN
  /\ ~aborted[r] /\ ~Blocked(r)
  /\ IF Do(r).do = "query"
     THEN seen' = [seen EXCEPT ![r][w] = Sees(r, w)] /\ UNCHANGED writes
     ELSE writes' = [writes EXCEPT ![r][w] = Sees(r, w) + Do(r).amount] /\ UNCHANGED seen

\* The transaction of r is over; its connection goes back to the pool.
Ends(r) ==
  /\ writes' = [writes EXCEPT ![r] = NoRow]
  /\ aborted' = [aborted EXCEPT ![r] = FALSE]

Publishes(r) ==
  /\ db' = [w \in Rows |-> Sees(r, w)]
  /\ committed' = committed \union {r}

\* COMMIT reports success for an aborted transaction, too.
Commits(r) == IF aborted[r] THEN UNCHANGED <<db, committed>> ELSE Publishes(r)

Vanishes == UNCHANGED <<db, committed>>

-----------------------------------------------------------------------------
(* The handlers *)

\* pool.begin(), or a free connection for a statement on its own.
Acquire(r) ==
  /\ pc[r] = "acquire"
  /\ Cardinality({s \in Requests : Connected(s)}) < Pool
  /\ IF call[r].kind = "script"
     THEN Goto(r, "loop") /\ js' = [js EXCEPT ![r] = "running"]
     ELSE Goto(r, IF call[r].body = <<>> THEN "commit" ELSE "run") /\ UNCHANGED js
  /\ UNCHANGED <<db, call, transaction, last_error, ip, reply, seen, outcome, threw, committed>>

\* The pool gives up, or the database refuses.
AcquireFails(r) ==
  /\ pc[r] = "acquire"
  /\ Answer(r, "error")
  /\ UNCHANGED <<db, call, transaction, last_error, script, committed>>

\* A statement on its own is its own transaction.
RunsAlone(r) ==
  /\ ~Blocked(r)
  /\ db' = IF Do(r).do = "add" THEN [db EXCEPT ![Do(r).row] = @ + Do(r).amount] ELSE db
  /\ committed' = committed \union {r}

\* execute_query and execute_statement.  With the connection lost, or a row that cannot be
\* decoded, the answer is an error though the statement has run.
RunAlone(r) ==
  /\ pc[r] = "run" /\ call[r].kind = "execute"
  /\ \/ RunsAlone(r) /\ Answer(r, "ok")
     \/ (RunsAlone(r) \/ Vanishes) /\ Answer(r, "error")
  /\ UNCHANGED <<call, transaction, last_error, script>>

\* execute_batch: the next statement, then the commit; an error drops the transaction.
RunBatch(r) ==
  /\ pc[r] = "run" /\ call[r].kind = "batch"
  /\ \/ /\ Executes(r)
        /\ ip' = [ip EXCEPT ![r] = @ + 1]
        /\ Goto(r, IF ip[r] = Len(call[r].body) THEN "commit" ELSE "run")
        /\ UNCHANGED <<aborted, outcome>>
     \/ /\ Ends(r) /\ Answer(r, "error")
        /\ UNCHANGED <<ip, seen>>
  /\ Vanishes
  /\ UNCHANGED <<call, last_error, js, reply, threw>>

\* The loop of execute_script receives a message.
TakeMessage(r) ==
  /\ pc[r] = "loop" /\ js[r] = "asking" /\ reply[r] = Nil
  /\ Goto(r, "run")
  /\ UNCHANGED <<db, call, transaction, last_error, script, outcome, committed>>

\* execute_query_in_tx and execute_statement_in_tx; the error is remembered.
RunMessage(r) ==
  /\ pc[r] = "run" /\ call[r].kind = "script"
  /\ \/ /\ Executes(r)
        /\ reply' = [reply EXCEPT ![r] = "ok"]
        /\ UNCHANGED <<aborted, last_error>>
     \/ /\ reply' = [reply EXCEPT ![r] = "error"]
        /\ last_error' = [last_error EXCEPT ![r] = TRUE]
        /\ \E gaveUp \in BOOLEAN : aborted' = [aborted EXCEPT ![r] = @ \/ gaveUp]
        /\ UNCHANGED <<writes, seen>>
  /\ Goto(r, "loop")
  /\ Vanishes
  /\ UNCHANGED <<call, js, ip, outcome, threw>>

\* Mutant of JoinScript: an error the script has caught does not count.
JoinScriptForgets(r) ==
  /\ pc[r] = "loop" /\ js[r] \in {"returned", "threw"}
  /\ Goto(r, IF js[r] = "threw" THEN "rollback" ELSE "commit")
  /\ UNCHANGED <<db, call, transaction, last_error, script, outcome, committed>>

\* Mutant of JoinScript: only SQL errors count.
JoinScriptTrusts(r) ==
  /\ pc[r] = "loop" /\ js[r] \in {"returned", "threw"}
  /\ Goto(r, IF last_error[r] THEN "rollback" ELSE "commit")
  /\ UNCHANGED <<db, call, transaction, last_error, script, outcome, committed>>

\* `js_result = &mut js_handle`
JoinScript(r) ==
  /\ pc[r] = "loop" /\ js[r] \in {"returned", "threw"}
  /\ Goto(r, IF js[r] = "threw" \/ last_error[r] THEN "rollback" ELSE "commit")
  /\ UNCHANGED <<db, call, transaction, last_error, script, outcome, committed>>

Rollback(r) ==
  /\ pc[r] = "rollback"
  /\ Ends(r) /\ Vanishes
  /\ Answer(r, "error")
  /\ UNCHANGED <<call, last_error, script>>

\* A failed COMMIT may have committed.
Commit(r) ==
  /\ pc[r] = "commit"
  /\ \/ Commits(r) /\ Answer(r, "ok")
     \/ (Commits(r) \/ Vanishes) /\ Answer(r, "error")
  /\ Ends(r)
  /\ UNCHANGED <<call, last_error, script>>

\* The handler is dropped at an await (TimeoutLayer, client gone): sqlx rolls the
\* transaction back, and the receiver of the script's messages is closed.  A
\* COMMIT, or a statement on its own, may have been executed already.
Drop(r) ==
  /\ pc[r] \in {"acquire", "loop", "run", "rollback", "commit"}
  /\ \/ Vanishes
     \/ pc[r] = "commit" /\ Commits(r)
     \/ pc[r] = "run" /\ call[r].kind = "execute" /\ RunsAlone(r)
  /\ Ends(r)
  /\ Goto(r, "dropped")
  /\ UNCHANGED <<call, last_error, script, outcome>>

-----------------------------------------------------------------------------
(* The script's thread *)

Runs(r) == js[r] = "running" /\ ip[r] <= Len(call[r].body)

\* Nobody is there any more to receive a message or to reply.
Deserted(r) == pc[r] = "dropped"

\* An exception that nothing catches.  That of an async function only rejects its
\* promise: nobody looks at it, and the script has returned an object.
Throws(r) ==
  /\ js' = [js EXCEPT ![r] = IF call[r].async THEN "returned" ELSE "threw"]
  /\ threw' = [threw EXCEPT ![r] = TRUE]
  /\ UNCHANGED ip

GoesOn(r) ==
  /\ js' = [js EXCEPT ![r] = "running"]
  /\ ip' = [ip EXCEPT ![r] = @ + 1]
  /\ UNCHANGED threw

\* A statement failed: the binding throws.
Fails(r) == IF call[r].catches THEN GoesOn(r) ELSE Throws(r)

\* bridge_query and bridge_execute, up to the blocking recv.
JsAsks(r) ==
  /\ Runs(r) /\ Do(r).do \in Statements
  /\ IF Deserted(r)
     THEN Fails(r)
     ELSE js' = [js EXCEPT ![r] = "asking"] /\ UNCHANGED <<ip, threw>>
  /\ UNCHANGED <<db, pc, call, transaction, last_error, reply, seen, outcome, committed>>

\* Mutant of JsHears: the sender of the reply outlives the handler.
JsHearsNothing(r) ==
  /\ js[r] = "asking"
  /\ \/ reply[r] = "ok" /\ GoesOn(r)
     \/ reply[r] = "error" /\ Fails(r)
  /\ reply' = [reply EXCEPT ![r] = Nil]
  /\ UNCHANGED <<db, pc, call, transaction, last_error, seen, outcome, committed>>

\* The reply, or the hang-up of a handler that was dropped before it replied.
JsHears(r) ==
  /\ js[r] = "asking"
  /\ \/ reply[r] = "ok" /\ GoesOn(r)
     \/ reply[r] = "error" /\ Fails(r)
     \/ reply[r] = Nil /\ Deserted(r) /\ Fails(r)
  /\ reply' = [reply EXCEPT ![r] = Nil]
  /\ UNCHANGED <<db, pc, call, transaction, last_error, seen, outcome, committed>>

\* `if (balance < amount) throw ...`, on what a query returned (nothing, if it failed).
JsChecks(r) ==
  /\ Runs(r) /\ Do(r).do = "require"
  /\ IF seen[r][Do(r).row] # Nil /\ seen[r][Do(r).row] >= Do(r).least
     THEN GoesOn(r) ELSE Throws(r)
  /\ UNCHANGED <<db, pc, call, transaction, last_error, reply, seen, outcome, committed>>

JsThrows(r) ==
  /\ Runs(r) /\ Do(r).do = "throw"
  /\ Throws(r)
  /\ UNCHANGED <<db, pc, call, transaction, last_error, reply, seen, outcome, committed>>

\* The end of the body; or an await, after which nothing runs: no one executes the
\* pending jobs of the runtime.
JsReturns(r) ==
  /\ js[r] = "running"
  /\ ip[r] <= Len(call[r].body) => Do(r).do = "await"
  /\ js' = [js EXCEPT ![r] = "returned"]
  /\ UNCHANGED <<db, pc, call, transaction, last_error, ip, reply, seen, outcome,
                 threw, committed>>

\* The runtime cannot be created, the script does not parse, its result cannot be
\* converted, or the thread panics.
JsFails(r) ==
  /\ js[r] = "running"
  /\ js' = [js EXCEPT ![r] = "threw"]
  /\ threw' = [threw EXCEPT ![r] = TRUE]
  /\ UNCHANGED <<db, pc, call, transaction, last_error, ip, reply, seen, outcome, committed>>

-----------------------------------------------------------------------------
Handler(r) ==
  \/ Acquire(r) \/ AcquireFails(r)
  \/ RunAlone(r) \/ RunBatch(r)
  \/ TakeMessage(r) \/ RunMessage(r) \/ JoinScript(r)
  \/ Rollback(r) \/ Commit(r)

Thread(r) ==
  JsAsks(r) \/ JsHears(r) \/ JsChecks(r) \/ JsThrows(r) \/ JsReturns(r) \/ JsFails(r)

Next ==
  \E r \in Requests : (\E c \in Calls[r] : Invoke(r, c)) \/ Handler(r) \/ Thread(r) \/ Drop(r)

Spec == Init /\ [][Next]_vars

\* Handlers and threads go on.  A statement ends, with an error if nothing else
\* (lock_timeout, the deadlock detector), and a script is not an endless loop.
LiveSpec == Spec /\ \A r \in Requests : WF_vars(Handler(r)) /\ WF_vars(Thread(r))

-----------------------------------------------------------------------------
(* Properties *)

Amount(c, i, w) ==
  IF c.body[i].do = "add" /\ c.body[i].row = w THEN c.body[i].amount ELSE 0

\* What the first n steps of a call add to a row, for each n.
Adds(c, w) ==
  LET sum[n \in 0 .. Len(c.body)] == IF n = 0 THEN 0 ELSE sum[n - 1] + Amount(c, n, w)
  IN  sum

\* What the whole body of a call adds to a row.
Effect(c, w) == Adds(c, w)[Len(c.body)]

\* All or nothing: the database changes only when one request commits, and then by
\* everything its call writes, on top of what others committed meanwhile; a failed
\* statement, caught or not, an exception, a failed COMMIT or a dropped handler
\* never leaves a part behind.  (For calls whose body runs to its end.)
AllOrNothing ==
  [][db' # db => \E r \in Requests :
       /\ committed' = committed \union {r} /\ r \notin committed
       /\ db' = [w \in Rows |-> db[w] + Effect(call[r], w)]]_vars

\* A client that is answered with success finds its writes committed: an error that
\* the script catches does not end in a COMMIT that the server turns into a rollback.
SuccessIsCommitted == \A r \in Requests : outcome[r] = "ok" => r \in committed

\* Every request ends, and so does every script's thread: neither waits for ever for
\* a connection, a row, a reply, or a handler that is gone.
EveryRequestEnds ==
  \A r \in Requests :
    (pc[r] # "idle") ~> /\ pc[r] \in {"answered", "dropped"}
                        /\ js[r] \in {"none", "returned", "threw"}

\* If the script throws an error, the transaction is rolled back (README.md).
ThrowRollsBack == \A r \in Requests : threw[r] => r \notin committed
=============================================================================
