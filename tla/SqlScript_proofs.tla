--------------------------- MODULE SqlScript_proofs ---------------------------
(***************************************************************************)
(* Theorems about the SQL service, for every set of rows, requests and     *)
(* calls and every pool.  The inductive invariant follows a request        *)
(* through its handler and its script's thread (Flow) and says what its    *)
(* open transaction has written so far (Partial).                          *)
(***************************************************************************)
EXTENDS SqlScript, WellFoundedInduction, TLAPS

-----------------------------------------------------------------------------
(* Induction *)

\* A set of numbers has a least element.
LEMMA Least ==
  ASSUME NEW T \in SUBSET Nat, T # {}
  PROVE  \E n \in T : \A m \in T : n <= m
<1> DEFINE R == OpToRel(<, Nat)
<1>1. IsWellFoundedOn(R, Nat)
  BY NatLessThanWellFounded, Zenon
<1>2. ASSUME NEW m \in Nat, NEW n \in Nat PROVE <<m, n>> \in R <=> m < n
  BY Zenon DEF OpToRel
<1> HIDE DEF R
<1>3. PICK n \in T : \A m \in T : ~(<<m, n>> \in R)
  BY <1>1, WFMin
<1>4. ASSUME NEW m \in T PROVE n <= m
  <2>1. n \in Nat /\ m \in Nat
    OBVIOUS
  <2>2. ~(m < n)
    BY <1>2, <1>3, <2>1
  <2>3. QED
    BY <2>1, <2>2
<1>5. QED
  BY <1>4

\* A set that has zero and, with each number, the next one has them all.
LEMMA Induction ==
  ASSUME NEW T, 0 \in T, \A n \in Nat : n \in T => n + 1 \in T
  PROVE  Nat \subseteq T
<1> DEFINE U == {n \in Nat : n \notin T}
<1> SUFFICES ASSUME U # {} PROVE FALSE
  OBVIOUS
<1>1. PICK n \in U : \A m \in U : n <= m
  BY Least
<1>2. n # 0 /\ n - 1 \in Nat
  OBVIOUS
<1>3. n - 1 \in T
  BY <1>1, <1>2
<1>4. QED
  BY <1>2, <1>3

-----------------------------------------------------------------------------
(* Lemmas about calls *)

\* A statement names a row, and what it adds is an integer.
LEMMA StepShape ==
  ASSUME NEW s \in StepType
  PROVE  /\ s.do \in {"query", "add", "require", "throw", "await"}
         /\ s.do \in {"query", "add", "require"} => s.row \in Rows
         /\ s.do = "add" => s.amount \in Int
         /\ s.do = "require" => s.least \in Int
<1>1. CASE s \in [do : {"query"}, row : Rows]
  BY <1>1
<1>2. CASE s \in [do : {"add"}, row : Rows, amount : Int]
  BY <1>2
<1>3. CASE s \in [do : {"require"}, row : Rows, least : Int]
  BY <1>3
<1>4. CASE s \in [do : {"throw", "await"}]
  BY <1>4
<1>5. QED
  BY <1>1, <1>2, <1>3, <1>4 DEF StepType

\* A call of a request, and the steps of its body.
LEMMA CallShape ==
  ASSUME NEW r \in Requests, NEW c \in Calls[r]
  PROVE  /\ c.kind \in {"execute", "batch", "script"}
         /\ c.async \in BOOLEAN /\ c.catches \in BOOLEAN
         /\ Len(c.body) \in Nat
         /\ c.kind = "execute" => Len(c.body) = 1
         /\ c # Nil
         /\ \A i \in 1 .. Len(c.body) : c.body[i] \in StepType
         /\ c.kind # "script" => \A i \in 1 .. Len(c.body) : c.body[i].do \in Statements
         /\ \A i \in 1 .. Len(c.body) : c.body[i].do = "await" => c.async
<1>1. c \in CallType
  BY SqlAssumption
<1>2. c.body \in Seq(StepType)
  BY <1>1 DEF CallType
<1>3. /\ DOMAIN c.body = 1 .. Len(c.body) /\ Len(c.body) \in Nat
      /\ \A i \in 1 .. Len(c.body) : c.body[i] \in StepType
  BY <1>2
<1>4. /\ c.kind \in {"execute", "batch", "script"}
      /\ c.async \in BOOLEAN /\ c.catches \in BOOLEAN
  BY <1>1 DEF CallType
<1>5. c # Nil
  BY <1>1, SqlAssumption
<1>6. QED
  BY <1>3, <1>4, <1>5, SqlAssumption

\* One step adds an integer, and nothing unless it is an "add" on that row.
LEMMA AmountType ==
  ASSUME NEW r \in Requests, NEW c \in Calls[r], NEW i \in 1 .. Len(c.body), NEW w \in Rows
  PROVE  /\ Amount(c, i, w) \in Int
         /\ c.body[i].do # "add" => Amount(c, i, w) = 0
<1>1. c.body[i] \in StepType
  BY CallShape
<1>2. QED
  BY <1>1, StepShape DEF Amount

\* The steps of a body add up.
LEMMA AddsUp ==
  ASSUME NEW r \in Requests, NEW c \in Calls[r], NEW w \in Rows
  PROVE  /\ Adds(c, w)[0] = 0
         /\ \A n \in 0 .. Len(c.body) : Adds(c, w)[n] \in Int
         /\ \A n \in 1 .. Len(c.body) : Adds(c, w)[n] = Adds(c, w)[n - 1] + Amount(c, n, w)
<1> DEFINE L == Len(c.body)
           A(i) == Amount(c, i, w)
           Sums(f, n) == /\ f \in [0 .. n -> Int]
                         /\ f = [i \in 0 .. n |-> IF i = 0 THEN 0 ELSE f[i - 1] + A(i)]
           T == {n \in Nat : n <= L => \E f \in [0 .. n -> Int] : Sums(f, n)}
<1>1. L \in Nat
  BY CallShape
<1>2. \A i \in 1 .. L : A(i) \in Int
  BY AmountType
<1> HIDE DEF L, A
<1>3. 0 \in T
  <2>1. Sums([i \in 0 .. 0 |-> 0], 0)
    OBVIOUS
  <2>2. [i \in 0 .. 0 |-> 0] \in [0 .. 0 -> Int]
    OBVIOUS
  <2>3. QED
    BY <2>1, <2>2
<1>4. ASSUME NEW n \in Nat, n \in T PROVE n + 1 \in T
  <2> SUFFICES ASSUME n + 1 <= L PROVE \E f \in [0 .. n + 1 -> Int] : Sums(f, n + 1)
    OBVIOUS
  <2>1. PICK f \in [0 .. n -> Int] : Sums(f, n)
    BY <1>1, <1>4
  <2> DEFINE g == [i \in 0 .. n + 1 |-> IF i = n + 1 THEN f[n] + A(n + 1) ELSE f[i]]
  <2>2. f[n] \in Int /\ A(n + 1) \in Int
    BY <1>1, <1>2
  <2>3. g \in [0 .. n + 1 -> Int]
    BY <2>2
  <2>4. ASSUME NEW i \in 0 .. n + 1
        PROVE  g[i] = IF i = 0 THEN 0 ELSE g[i - 1] + A(i)
    <3>1. CASE i = n + 1
      BY <3>1
    <3>2. CASE i \in 1 .. n
      BY <2>1, <3>2
    <3>3. CASE i = 0
      BY <2>1, <3>3
    <3>4. QED
      BY <3>1, <3>2, <3>3
  <2>5. g = [i \in 0 .. n + 1 |-> IF i = 0 THEN 0 ELSE g[i - 1] + A(i)]
    BY <2>4
  <2>6. QED
    BY <2>3, <2>5
<1>5. L \in T
  BY <1>1, <1>3, <1>4, Induction
<1>6. PICK f \in [0 .. L -> Int] : Sums(f, L)
  BY <1>1, <1>5
<1>7. \E f0 : f0 = [i \in 0 .. L |-> IF i = 0 THEN 0 ELSE f0[i - 1] + A(i)]
  BY <1>6
<1> DEFINE g == Adds(c, w)
<1>8. g = [i \in 0 .. L |-> IF i = 0 THEN 0 ELSE g[i - 1] + A(i)]
  BY <1>7 DEF Adds, A, L
<1> HIDE DEF g
<1>9. /\ g[0] = 0
      /\ \A n \in 1 .. L : g[n] = g[n - 1] + A(n)
  BY <1>1, <1>8
<1> DEFINE U == {n \in Nat : n <= L => g[n] \in Int}
<1>10. 0 \in U
  BY <1>9
<1>11. ASSUME NEW n \in Nat, n \in U PROVE n + 1 \in U
  BY <1>1, <1>2, <1>9, <1>11
<1>12. \A n \in 0 .. L : g[n] \in Int
  <2> HIDE DEF U
  <2>1. Nat \subseteq U
    BY <1>10, <1>11, Induction
  <2>2. QED
    BY <1>1, <2>1 DEF U
<1>13. QED
  BY <1>9, <1>12 DEF g, A, L

-----------------------------------------------------------------------------
(* The inductive invariant *)

Length(r) == Len(call[r].body)

\* Handler, transaction and thread of one request agree on where they are: nothing has
\* begun before the call has a connection, a thread that asks is at a statement, an error
\* of the database is remembered, and who commits has come to the end without one.
FlowOf(r) ==
  /\ pc[r] # "idle" => call[r] \in Calls[r] /\ ip[r] \in 1 .. Length(r) + 1
  /\ pc[r] \in {"idle", "acquire"} =>
       js[r] = "none" /\ ip[r] = 1 /\ reply[r] = Nil /\ writes[r] = NoRow
  /\ js[r] # "none" => call[r].kind = "script"
  /\ js[r] = "asking" => ip[r] <= Length(r) /\ Do(r).do \in Statements
  /\ js[r] = "returned" /\ ~call[r].async => ip[r] = Length(r) + 1
  /\ reply[r] # Nil => js[r] = "asking"
  /\ reply[r] = "error" \/ aborted[r] => last_error[r]
  /\ last_error[r] => js[r] # "none"
  /\ pc[r] \in {"loop", "rollback"} => call[r].kind = "script"
  /\ pc[r] = "run" =>
       \/ call[r].kind = "script" /\ js[r] = "asking" /\ reply[r] = Nil
       \/ call[r].kind # "script" /\ ip[r] <= Length(r)
  /\ pc[r] = "commit" =>
       \/ call[r].kind = "script" /\ js[r] = "returned" /\ ~last_error[r]
       \/ call[r].kind = "batch" /\ ip[r] = Length(r) + 1
  /\ pc[r] # "idle" /\ call[r].kind = "execute" => ip[r] = 1
  /\ r \in committed => pc[r] \in {"answered", "dropped"}

Flow == DOMAIN call = Requests /\ \A r \in Requests : FlowOf(r)

\* The steps of the body that have had their effect.
Done(r) == IF reply[r] = "ok" THEN ip[r] ELSE ip[r] - 1

\* An open transaction that may still commit has written what its steps so far add, on top
\* of the committed rows: those it has written are its own until it ends.
PartialOf(r) ==
  Connected(r) /\ call[r].kind # "execute" /\ ~last_error[r] /\ js[r] # "threw" =>
    \A w \in Rows :
      /\ writes[r][w] = Nil => Adds(call[r], w)[Done(r)] = 0
      /\ writes[r][w] # Nil => writes[r][w] = db[w] + Adds(call[r], w)[Done(r)]

Partial == \A r \in Requests : PartialOf(r)

IInv == TypeOK /\ Flow /\ Partial /\ SuccessIsCommitted

StepOf(r) == (\E c \in Calls[r] : Invoke(r, c)) \/ Handler(r) \/ Thread(r) \/ Drop(r)

\* What a request has of its own stays as it is.
Still(s) ==
  /\ pc'[s] = pc[s] /\ call'[s] = call[s] /\ writes'[s] = writes[s]
  /\ aborted'[s] = aborted[s] /\ last_error'[s] = last_error[s]
  /\ js'[s] = js[s] /\ ip'[s] = ip[s] /\ reply'[s] = reply[s]
  /\ outcome'[s] = outcome[s] /\ (s \in committed' <=> s \in committed)

\* The initial states: nobody has done anything.
LEMMA InitIInv == Init => IInv
<1> SUFFICES ASSUME Init PROVE IInv
  OBVIOUS
<1>1. TypeOK
  BY SqlAssumption DEF Init, TypeOK, Points, RowsExclusive, NoRow
<1>2. Flow
  BY SqlAssumption DEF Init, Flow, FlowOf
<1>3. Partial
  BY DEF Init, Partial, PartialOf, Connected
<1>4. SuccessIsCommitted
  BY SqlAssumption DEF Init, SuccessIsCommitted
<1>5. QED
  BY <1>1, <1>2, <1>3, <1>4 DEF IInv

\* A step of one request touches no other.
LEMMA OneActs ==
  ASSUME TypeOK, Flow, NEW r \in Requests, StepOf(r)
  PROVE  DOMAIN call' = Requests /\ \A s \in Requests \ {r} : Still(s)
<1> USE DEF TypeOK, Points, Flow, Still, transaction, script, Goto, Answer, Ends, Vanishes,
            Publishes, Commits
<1>1. CASE \E c \in Calls[r] : Invoke(r, c)
  BY <1>1 DEF Invoke
<1>2. CASE Acquire(r) \/ AcquireFails(r)
  BY <1>2 DEF Acquire, AcquireFails
<1>3. CASE RunAlone(r)
  BY <1>3 DEF RunAlone, RunsAlone
<1>4. CASE RunBatch(r)
  BY <1>4 DEF RunBatch, Executes
<1>5. CASE TakeMessage(r) \/ JoinScript(r)
  BY <1>5 DEF TakeMessage, JoinScript
<1>6. CASE RunMessage(r)
  BY <1>6 DEF RunMessage, Executes
<1>7. CASE Rollback(r)
  BY <1>7 DEF Rollback
<1>8. CASE Commit(r)
  BY <1>8 DEF Commit
<1>9. CASE Drop(r)
  BY <1>9 DEF Drop, RunsAlone
<1>10. CASE JsAsks(r) \/ JsHears(r)
  BY <1>10 DEF JsAsks, JsHears, Fails, Throws, GoesOn
<1>11. CASE JsChecks(r) \/ JsThrows(r) \/ JsReturns(r) \/ JsFails(r)
  BY <1>11 DEF JsChecks, JsThrows, JsReturns, JsFails, Throws, GoesOn
<1>12. QED
  BY <1>1, <1>2, <1>3, <1>4, <1>5, <1>6, <1>7, <1>8, <1>9, <1>10, <1>11
     DEF StepOf, Handler, Thread

\* The flow of a request that stays as it is.
LEMMA FlowStill ==
  ASSUME NEW s \in Requests, FlowOf(s), Still(s)
  PROVE  FlowOf(s)'
BY DEF FlowOf, Still, Do, Length

\* At a statement: it names a row, and an "add" an integer.
LEMMA AtStatement ==
  ASSUME Flow, NEW r \in Requests, pc[r] = "run"
  PROVE  /\ call[r] \in Calls[r] /\ ip[r] \in 1 .. Length(r)
         /\ Do(r) = call[r].body[ip[r]]
         /\ Do(r).do \in Statements /\ Do(r).row \in Rows
         /\ Do(r).do = "add" => Do(r).amount \in Int
<1>1. FlowOf(r) /\ call[r] \in Calls[r] /\ ip[r] \in 1 .. Length(r) + 1
  BY DEF Flow, FlowOf
<1>2. Length(r) \in Nat
  BY <1>1, CallShape DEF Length
<1>3. ip[r] \in 1 .. Length(r)
  BY <1>1, <1>2 DEF FlowOf
<1>4. Do(r) \in StepType
  BY <1>1, <1>3, CallShape DEF Do, Length
<1>5. Do(r).do \in Statements
  <2>1. CASE call[r].kind = "script"
    BY <1>1, <2>1 DEF FlowOf
  <2>2. CASE call[r].kind # "script"
    BY <1>1, <1>3, <2>2, CallShape DEF Do, Length
  <2>3. QED
    BY <2>1, <2>2
<1>6. QED
  BY <1>1, <1>3, <1>4, <1>5, StepShape DEF Do, Statements

\* A row, as a transaction sees it, is an amount.
LEMMA SeesType ==
  ASSUME TypeOK, NEW r \in Requests, NEW w \in Rows
  PROVE  Sees(r, w) \in Int
BY DEF TypeOK, Sees

\* A statement writes an amount into a row that no other transaction has written, and
\* reads an amount.
LEMMA ExecutesType ==
  ASSUME TypeOK, Flow, NEW r \in Requests, pc[r] = "run", Executes(r)
  PROVE  /\ writes' \in [Requests -> [Rows -> Int \union {Nil}]]
         /\ RowsExclusive'
         /\ seen' \in [Requests -> [Rows -> Int \union {Nil}]]
<1> DEFINE w == Do(r).row
           v == Sees(r, w) + Do(r).amount
<1>1. w \in Rows /\ Do(r).do \in {"query", "add"} /\ (Do(r).do = "add" => Do(r).amount \in Int)
  BY AtStatement DEF Statements
<1>2. Sees(r, w) \in Int
  BY <1>1, SeesType
<1>3. CASE Do(r).do = "query"
  <2>1. writes' = writes /\ seen' = [seen EXCEPT ![r][w] = Sees(r, w)]
    BY <1>3 DEF Executes
  <2>2. RowsExclusive'
    BY <2>1 DEF TypeOK, RowsExclusive
  <2> HIDE DEF w
  <2>3. QED
    BY <1>2, <2>1, <2>2 DEF TypeOK
<1>4. CASE Do(r).do = "add"
  <2>1. v \in Int
    BY <1>1, <1>2, <1>4
  <2>2. writes' = [writes EXCEPT ![r][w] = v] /\ seen' = seen
    BY <1>4 DEF Executes
  <2>3. \A s \in Requests \ {r} : writes[s][w] = Nil
    BY <1>4 DEF Executes, Blocked
  <2> HIDE DEF v, w
  <2>4. writes' \in [Requests -> [Rows -> Int \union {Nil}]]
    BY <2>1, <2>2 DEF TypeOK
  <2>5. /\ \A s \in Requests \ {r} : writes'[s] = writes[s]
        /\ \A x \in Rows \ {w} : writes'[r][x] = writes[r][x]
    BY <2>2 DEF TypeOK
  <2>6. RowsExclusive'
    <3> SUFFICES ASSUME NEW s \in Requests, NEW t \in Requests, NEW x \in Rows,
                        writes'[s][x] # Nil, writes'[t][x] # Nil
                 PROVE  s = t
      BY DEF RowsExclusive
    <3>1. RowsExclusive
      BY DEF TypeOK
    <3>2. CASE x = w
      BY <2>3, <2>5, <3>2
    <3>3. CASE x # w
      <4>1. writes'[s][x] = writes[s][x] /\ writes'[t][x] = writes[t][x]
        BY <2>5, <3>3
      <4>2. QED
        BY <3>1, <4>1 DEF RowsExclusive
    <3>4. QED
      BY <3>2, <3>3
  <2>7. QED
    BY <2>2, <2>4, <2>6 DEF TypeOK
<1>5. QED
  BY <1>1, <1>3, <1>4

\* A transaction that is over leaves its rows to others.
LEMMA EndsType ==
  ASSUME TypeOK, NEW r \in Requests, Ends(r)
  PROVE  /\ writes' \in [Requests -> [Rows -> Int \union {Nil}]]
         /\ RowsExclusive'
         /\ aborted' \in [Requests -> BOOLEAN]
<1>1. NoRow \in [Rows -> Int \union {Nil}] /\ \A w \in Rows : NoRow[w] = Nil
  BY DEF NoRow
<1>2. writes' \in [Requests -> [Rows -> Int \union {Nil}]] /\ aborted' \in [Requests -> BOOLEAN]
  BY <1>1 DEF Ends, TypeOK
<1>3. writes'[r] = NoRow /\ \A s \in Requests \ {r} : writes'[s] = writes[s]
  BY DEF Ends, TypeOK
<1>4. RowsExclusive'
  <2> SUFFICES ASSUME NEW s \in Requests, NEW t \in Requests, NEW x \in Rows,
                      writes'[s][x] # Nil, writes'[t][x] # Nil
               PROVE  s = t
    BY DEF RowsExclusive
  <2>1. s # r /\ t # r
    BY <1>1, <1>3
  <2>2. writes'[s][x] = writes[s][x] /\ writes'[t][x] = writes[t][x]
    BY <1>3, <2>1
  <2>3. QED
    BY <2>2 DEF TypeOK, RowsExclusive
<1>5. QED
  BY <1>2, <1>4

\* What is committed are amounts.
LEMMA CommitsType ==
  ASSUME TypeOK, NEW r \in Requests, Commits(r)
  PROVE  db' \in [Rows -> Int] /\ committed' \subseteq Requests
BY SeesType DEF Commits, Publishes, TypeOK

\* A statement on its own commits an amount.
LEMMA AloneType ==
  ASSUME TypeOK, Flow, NEW r \in Requests, pc[r] = "run", Do(r).do = "add",
         db' = [db EXCEPT ![Do(r).row] = @ + Do(r).amount]
  PROVE  db' \in [Rows -> Int]
<1> DEFINE w == Do(r).row
           v == db[w] + Do(r).amount
<1>1. w \in Rows /\ Do(r).amount \in Int
  BY AtStatement
<1>2. v \in Int
  BY <1>1 DEF TypeOK
<1>3. db' = [db EXCEPT ![w] = v]
  OBVIOUS
<1> HIDE DEF v, w
<1>4. QED
  BY <1>2, <1>3 DEF TypeOK

\* Every step keeps database, handlers, transactions and threads what they are.
LEMMA TypePreserved ==
  ASSUME TypeOK, Flow, NEW r \in Requests, StepOf(r)
  PROVE  TypeOK'
<1> USE DEF transaction, script, Goto, Answer, Vanishes
<1>1. writes' = writes => RowsExclusive'
  BY DEF TypeOK, RowsExclusive
<1>2. CASE \E c \in Calls[r] : Invoke(r, c)
  BY <1>1, <1>2 DEF Invoke, TypeOK, Points, Flow
<1>3. CASE Acquire(r)
  <2>1. pc' \in [Requests -> Points]
    BY <1>3 DEF Acquire, TypeOK, Points
  <2>2. js' \in [Requests -> {"none", "running", "asking", "returned", "threw"}]
    BY <1>3 DEF Acquire, TypeOK
  <2>3. QED
    BY <1>1, <1>3, <2>1, <2>2 DEF Acquire, TypeOK
<1>4. CASE AcquireFails(r)
  BY <1>1, <1>4 DEF AcquireFails, TypeOK, Points
<1>5. CASE RunAlone(r)
  <2>1. db' \in [Rows -> Int]
    BY <1>5, AloneType DEF RunAlone, RunsAlone, TypeOK
  <2>2. pc' \in [Requests -> Points] /\ outcome' \in [Requests -> {Nil, "ok", "error"}]
    BY <1>5 DEF RunAlone, RunsAlone, TypeOK, Points
  <2>3. committed' \subseteq Requests
    BY <1>5 DEF RunAlone, RunsAlone, TypeOK
  <2>4. UNCHANGED <<call, transaction, last_error, script>>
    BY <1>5 DEF RunAlone, RunsAlone
  <2>5. QED
    BY <1>1, <2>1, <2>2, <2>3, <2>4 DEF TypeOK
<1>6. CASE RunBatch(r)
  <2>1. /\ writes' \in [Requests -> [Rows -> Int \union {Nil}]]
        /\ RowsExclusive'
        /\ seen' \in [Requests -> [Rows -> Int \union {Nil}]]
        /\ aborted' \in [Requests -> BOOLEAN]
    BY <1>6, ExecutesType, EndsType DEF RunBatch, TypeOK
  <2>2. pc' \in [Requests -> Points]
    <3>1. PICK p \in {"commit", "run", "answered"} : pc' = [pc EXCEPT ![r] = p]
      BY <1>6 DEF RunBatch
    <3>2. QED
      BY <3>1 DEF TypeOK, Points
  <2>3. ip' \in [Requests -> Nat]
    <3>1. ip[r] + 1 \in Nat
      BY DEF TypeOK
    <3>2. QED
      BY <1>6, <3>1 DEF RunBatch, TypeOK
  <2>4. outcome' \in [Requests -> {Nil, "ok", "error"}]
    BY <1>6 DEF RunBatch, TypeOK
  <2>5. UNCHANGED <<db, committed, call, last_error, js, reply, threw>>
    BY <1>6 DEF RunBatch
  <2>6. QED
    BY <2>1, <2>2, <2>3, <2>4, <2>5 DEF TypeOK
<1>7. CASE TakeMessage(r) \/ JoinScript(r)
  <2>1. pc' \in [Requests -> Points]
    BY <1>7 DEF TakeMessage, JoinScript, TypeOK, Points
  <2>2. UNCHANGED <<db, call, transaction, last_error, script, outcome, committed>>
    BY <1>7 DEF TakeMessage, JoinScript
  <2>3. QED
    BY <1>1, <2>1, <2>2 DEF TypeOK
<1>8. CASE RunMessage(r)
  <2>1. /\ writes' \in [Requests -> [Rows -> Int \union {Nil}]]
        /\ RowsExclusive'
        /\ seen' \in [Requests -> [Rows -> Int \union {Nil}]]
    BY <1>1, <1>8, ExecutesType DEF RunMessage, TypeOK
  <2>2. pc' \in [Requests -> Points]
    BY <1>8 DEF RunMessage, TypeOK, Points
  <2>3. /\ reply' \in [Requests -> {Nil, "ok", "error"}]
        /\ last_error' \in [Requests -> BOOLEAN]
        /\ aborted' \in [Requests -> BOOLEAN]
    BY <1>8 DEF RunMessage, TypeOK
  <2>4. UNCHANGED <<db, committed, call, js, ip, outcome, threw>>
    BY <1>8 DEF RunMessage
  <2>5. QED
    BY <2>1, <2>2, <2>3, <2>4 DEF TypeOK
<1>9. CASE Rollback(r)
  BY <1>9, EndsType DEF Rollback, TypeOK, Points
<1>10. CASE Commit(r)
  <2>1. db' \in [Rows -> Int] /\ committed' \subseteq Requests
    BY <1>10, CommitsType DEF Commit, TypeOK
  <2>2. pc' \in [Requests -> Points] /\ outcome' \in [Requests -> {Nil, "ok", "error"}]
    BY <1>10 DEF Commit, TypeOK, Points
  <2>3. QED
    BY <1>10, <2>1, <2>2, EndsType DEF Commit, TypeOK
<1>11. CASE Drop(r)
  <2>1. db' \in [Rows -> Int] /\ committed' \subseteq Requests
    BY <1>11, CommitsType, AloneType DEF Drop, RunsAlone, TypeOK
  <2>2. pc' \in [Requests -> Points]
    BY <1>11 DEF Drop, RunsAlone, TypeOK, Points
  <2>3. QED
    BY <1>11, <2>1, <2>2, EndsType DEF Drop, RunsAlone, TypeOK
<1>12. CASE Thread(r)
  <2>1. js' \in [Requests -> {"none", "running", "asking", "returned", "threw"}]
    BY <1>12 DEF Thread, JsAsks, JsHears, JsChecks, JsThrows, JsReturns, JsFails, Fails, Throws,
                 GoesOn, TypeOK
  <2>2. ip' \in [Requests -> Nat]
    <3>1. ip[r] + 1 \in Nat
      BY DEF TypeOK
    <3>2. ip' = ip \/ ip' = [ip EXCEPT ![r] = ip[r] + 1]
      BY <1>12 DEF Thread, JsAsks, JsHears, JsChecks, JsThrows, JsReturns, JsFails, Fails,
                   Throws, GoesOn
    <3>3. QED
      BY <3>1, <3>2 DEF TypeOK
  <2>3. /\ reply' \in [Requests -> {Nil, "ok", "error"}]
        /\ threw' \in [Requests -> BOOLEAN]
    BY <1>12 DEF Thread, JsAsks, JsHears, JsChecks, JsThrows, JsReturns, JsFails, Fails, Throws,
                 GoesOn, TypeOK
  <2>4. UNCHANGED <<db, pc, call, transaction, last_error, seen, outcome, committed>>
    BY <1>12 DEF Thread, JsAsks, JsHears, JsChecks, JsThrows, JsReturns, JsFails
  <2>5. QED
    BY <1>1, <2>1, <2>2, <2>3, <2>4 DEF TypeOK
<1>13. QED
  BY <1>2, <1>3, <1>4, <1>5, <1>6, <1>7, <1>8, <1>9, <1>10, <1>11, <1>12 DEF StepOf, Handler

\* The flow of the request that acts.
LEMMA FlowOfActing ==
  ASSUME TypeOK, Flow, NEW r \in Requests, StepOf(r)
  PROVE  FlowOf(r)'
<1> DEFINE c == call[r]
<1>1. FlowOf(r) /\ DOMAIN call = Requests
  BY DEF Flow
<1>2. /\ ip[r] \in Nat
      /\ pc[r] # "idle" => /\ Length(r) \in Nat
                           /\ c.kind \in {"execute", "batch", "script"}
                           /\ c.kind = "execute" => Length(r) = 1
                           /\ \A i \in 1 .. Length(r) : c.body[i].do = "await" => c.async
  BY <1>1, CallShape DEF TypeOK, FlowOf, Length
<1> USE DEF transaction, script, Goto, Answer, Vanishes
<1>3. ASSUME NEW d \in Calls[r], Invoke(r, d) PROVE FlowOf(r)'
  <2>1. pc[r] = "idle" /\ pc'[r] = "acquire" /\ call'[r] = d
    BY <1>1, <1>3 DEF Invoke, TypeOK
  <2>2. UNCHANGED <<db, transaction, last_error, script, outcome, committed>>
    BY <1>3 DEF Invoke
  <2>3. Len(d.body) \in Nat
    BY CallShape
  <2>4. QED
    BY <1>1, <2>1, <2>2, <2>3, SqlAssumption DEF FlowOf, Length
<1>4. CASE Acquire(r)
  <2>1. /\ pc[r] = "acquire" /\ call' = call /\ committed' = committed
        /\ writes' = writes /\ ip' = ip /\ reply' = reply /\ aborted' = aborted
        /\ last_error' = last_error
    BY <1>4 DEF Acquire
  <2>2. \/ c.kind = "script" /\ pc'[r] = "loop" /\ js'[r] = "running"
        \/ c.kind # "script" /\ c.body = <<>> /\ pc'[r] = "commit" /\ js'[r] = js[r]
        \/ c.kind # "script" /\ c.body # <<>> /\ pc'[r] = "run" /\ js'[r] = js[r]
    BY <1>4 DEF Acquire, TypeOK
  <2>3. (c.body = <<>> => Length(r) = 0) /\ (c.body # <<>> => Length(r) > 0)
    <3>1. c \in CallType
      BY <1>1, <2>1, SqlAssumption DEF FlowOf
    <3>2. c.body \in Seq(StepType)
      BY <3>1 DEF CallType
    <3>3. QED
      BY <3>2 DEF Length
  <2>4. /\ js[r] = "none" /\ ip[r] = 1 /\ reply[r] = Nil /\ ~last_error[r] /\ ~aborted[r]
        /\ c \in Calls[r] /\ r \notin committed
    BY <1>1, <2>1 DEF FlowOf
  <2>5. /\ ip'[r] = 1 /\ Length(r)' = Length(r) /\ reply'[r] = Nil /\ reply'[r] # "error"
        /\ call'[r] = c /\ ~last_error'[r] /\ ~aborted'[r] /\ r \notin committed'
    BY <2>1, <2>4, SqlAssumption DEF Length
  <2>6. CASE c.kind = "script"
    BY <1>2, <2>1, <2>2, <2>4, <2>5, <2>6 DEF FlowOf
  <2>7. CASE c.kind # "script" /\ c.body = <<>>
    <3>1. c.kind = "batch"
      BY <1>2, <2>1, <2>3, <2>7
    <3>2. QED
      BY <1>2, <2>1, <2>2, <2>3, <2>4, <2>5, <2>7, <3>1 DEF FlowOf
  <2>8. CASE c.kind # "script" /\ c.body # <<>>
    BY <1>2, <2>1, <2>2, <2>3, <2>4, <2>5, <2>8 DEF FlowOf
  <2>9. QED
    BY <2>6, <2>7, <2>8
<1>5. CASE AcquireFails(r)
  <2>1. pc[r] = "acquire" /\ pc'[r] = "answered"
    BY <1>5 DEF AcquireFails, TypeOK
  <2>2. UNCHANGED <<db, call, transaction, last_error, script, committed>>
    BY <1>5 DEF AcquireFails
  <2>3. QED
    BY <1>1, <2>1, <2>2 DEF FlowOf, Length, Do
<1>6. CASE RunAlone(r)
  <2>1. pc[r] = "run" /\ pc'[r] = "answered"
    BY <1>6 DEF RunAlone, RunsAlone, TypeOK
  <2>2. UNCHANGED <<call, transaction, last_error, script>>
    BY <1>6 DEF RunAlone, RunsAlone
  <2>3. QED
    BY <1>1, <2>1, <2>2 DEF FlowOf, Length, Do
<1>7. CASE RunBatch(r)
  <2>1. /\ pc[r] = "run" /\ c.kind = "batch" /\ call' = call /\ committed' = committed
        /\ last_error' = last_error /\ js' = js /\ reply' = reply
    BY <1>7 DEF RunBatch
  <2>2. \/ /\ ip'[r] = ip[r] + 1 /\ aborted' = aborted
           /\ pc'[r] = IF ip[r] = Length(r) THEN "commit" ELSE "run"
        \/ ip'[r] = ip[r] /\ pc'[r] = "answered" /\ ~aborted'[r]
    BY <1>7 DEF RunBatch, Ends, Length, TypeOK
  <2>3. js[r] = "none" /\ reply[r] = Nil /\ ~last_error[r] /\ ~aborted[r]
        /\ ip[r] \in 1 .. Length(r)
    BY <1>1, <1>2, <2>1 DEF FlowOf, TypeOK
  <2>4. r \notin committed /\ c \in Calls[r]
    BY <1>1, <2>1 DEF FlowOf
  <2>5. CASE ip'[r] = ip[r] + 1 /\ pc'[r] = "commit" /\ ip[r] = Length(r)
    BY <1>2, <2>1, <2>2, <2>3, <2>4, <2>5, SqlAssumption DEF FlowOf, Length, Do
  <2>6. CASE ip'[r] = ip[r] + 1 /\ pc'[r] = "run" /\ ip[r] # Length(r)
    BY <1>2, <2>1, <2>2, <2>3, <2>4, <2>6, SqlAssumption DEF FlowOf, Length, Do
  <2>7. CASE ip'[r] = ip[r] /\ pc'[r] = "answered"
    BY <1>2, <2>1, <2>2, <2>3, <2>4, <2>7, SqlAssumption DEF FlowOf, Length, Do
  <2>8. QED
    BY <2>2, <2>5, <2>6, <2>7
<1>8. CASE TakeMessage(r) \/ JoinScript(r)
  <2>1. /\ pc[r] = "loop"
        /\ \/ pc'[r] = "run" /\ js[r] = "asking" /\ reply[r] = Nil
           \/ pc'[r] = "rollback" /\ js[r] \in {"returned", "threw"}
           \/ pc'[r] = "commit" /\ js[r] = "returned" /\ ~last_error[r]
    BY <1>8 DEF TakeMessage, JoinScript, TypeOK
  <2>2. UNCHANGED <<db, call, transaction, last_error, script, outcome, committed>>
    BY <1>8 DEF TakeMessage, JoinScript
  <2>3. QED
    BY <1>1, <2>1, <2>2 DEF FlowOf, Length, Do
<1>9. CASE RunMessage(r)
  <2>1. /\ pc[r] = "run" /\ pc'[r] = "loop" /\ c.kind = "script"
        /\ call' = call /\ js' = js /\ ip' = ip /\ committed' = committed
    BY <1>9 DEF RunMessage, TypeOK
  <2>2. \/ reply'[r] = "ok" /\ aborted' = aborted /\ last_error' = last_error
        \/ reply'[r] = "error" /\ last_error'[r]
    BY <1>9 DEF RunMessage, TypeOK
  <2>3. js[r] = "asking"
    BY <1>1, <2>1 DEF FlowOf
  <2>4. QED
    BY <1>1, <2>1, <2>2, <2>3 DEF FlowOf, Length, Do
<1>10. CASE Rollback(r) \/ Commit(r) \/ Drop(r)
  <2>1. /\ pc[r] # "idle" /\ pc'[r] \in {"answered", "dropped"}
        /\ call' = call /\ last_error' = last_error /\ ~aborted'[r]
        /\ UNCHANGED script
    BY <1>10 DEF Rollback, Commit, Drop, RunsAlone, Ends, TypeOK
  <2>2. QED
    BY <1>1, <2>1 DEF FlowOf, Length, Do
<1>11. CASE Thread(r)
  <2>1. UNCHANGED <<db, pc, call, transaction, last_error, seen, outcome, committed>>
    BY <1>11 DEF Thread, JsAsks, JsHears, JsChecks, JsThrows, JsReturns, JsFails
  <2>2. /\ js[r] \in {"running", "asking"} /\ c.kind = "script"
        /\ pc[r] \notin {"idle", "acquire", "commit"}
    <3>1. js[r] \in {"running", "asking"}
      BY <1>11 DEF Thread, JsAsks, JsHears, JsChecks, JsThrows, JsReturns, JsFails, Runs
    <3>2. QED
      BY <1>1, <3>1 DEF FlowOf, TypeOK
  <2>3. \/ js'[r] = "asking" /\ ip' = ip /\ reply' = reply /\ js[r] = "running"
           /\ ip[r] <= Length(r) /\ Do(r).do \in Statements
        \/ js'[r] = "running" /\ ip'[r] = ip[r] + 1 /\ ip[r] <= Length(r) /\ reply'[r] = Nil
        \/ js'[r] = "returned" /\ c.async /\ ip' = ip /\ reply'[r] = Nil
        \/ js'[r] = "threw" /\ ip' = ip /\ reply'[r] = Nil
        \/ /\ js'[r] = "returned" /\ ip' = ip /\ reply'[r] = Nil
           /\ ip[r] <= Length(r) => Do(r).do = "await"
    <3>1. js[r] = "running" => reply[r] = Nil
      BY <1>1 DEF FlowOf
    <3>2. js[r] = "asking" => ip[r] <= Length(r)
      BY <1>1 DEF FlowOf
    <3>3. CASE JsAsks(r)
      BY <3>1, <3>3 DEF JsAsks, Runs, Fails, GoesOn, Throws, Length, TypeOK
    <3>4. CASE JsHears(r)
      BY <3>2, <3>4 DEF JsHears, Fails, GoesOn, Throws, Length, TypeOK
    <3>5. CASE JsChecks(r) \/ JsThrows(r) \/ JsReturns(r) \/ JsFails(r)
      BY <3>1, <3>5 DEF JsChecks, JsThrows, JsReturns, JsFails, Runs, GoesOn, Throws, Length,
                        TypeOK
    <3>6. QED
      BY <1>11, <3>3, <3>4, <3>5 DEF Thread
  <2>4. pc[r] = "run" => js[r] = "asking" /\ reply[r] = Nil
    BY <1>1, <2>2 DEF FlowOf
  <2>5. pc[r] # "run"
    <3>1. SUFFICES ASSUME pc[r] = "run" PROVE FALSE
      OBVIOUS
    <3>2. JsHears(r)
      BY <1>11, <2>4, <3>1 DEF Thread, JsAsks, JsChecks, JsThrows, JsReturns, JsFails, Runs
    <3>3. QED
      BY <2>4, <3>1, <3>2, SqlAssumption DEF JsHears, Deserted
  <2>6. \A i \in 1 .. Length(r) : c.body[i].do = "await" => c.async
    BY <1>2, <2>2
  <2>7. ip[r] \in 1 .. Length(r) + 1 /\ Length(r) \in Nat
    BY <1>1, <1>2, <2>2 DEF FlowOf
  <2>8. CASE js'[r] = "asking"
    BY <1>1, <2>1, <2>2, <2>3, <2>5, <2>7, <2>8 DEF FlowOf, Length, Do
  <2>9. CASE js'[r] = "running"
    BY <1>1, <2>1, <2>2, <2>3, <2>5, <2>7, <2>9, SqlAssumption DEF FlowOf, Length, Do
  <2>10. CASE js'[r] \in {"returned", "threw"}
    <3>1. js'[r] = "returned" /\ ~c.async => ip[r] = Length(r) + 1
      BY <2>3, <2>6, <2>7, <2>10 DEF Do
    <3>2. ip' = ip /\ reply'[r] = Nil
      BY <2>3, <2>10
    <3>3. QED
      BY <1>1, <2>1, <2>2, <2>5, <2>7, <2>10, <3>1, <3>2, SqlAssumption
         DEF FlowOf, Length, Do
  <2>11. QED
    BY <2>3, <2>8, <2>9, <2>10
<1>12. QED
  BY <1>3, <1>4, <1>5, <1>6, <1>7, <1>8, <1>9, <1>10, <1>11 DEF StepOf, Handler

\* Handler, transaction and thread of every request go on agreeing.
LEMMA FlowPreserved ==
  ASSUME TypeOK, Flow, NEW r \in Requests, StepOf(r)
  PROVE  Flow'
<1>1. DOMAIN call' = Requests /\ \A s \in Requests \ {r} : Still(s)
  BY OneActs
<1>2. \A s \in Requests \ {r} : FlowOf(s)'
  BY <1>1, FlowStill DEF Flow
<1>3. FlowOf(r)'
  BY FlowOfActing
<1>4. QED
  BY <1>1, <1>2, <1>3 DEF Flow

\* Who commits has a transaction that the server has not given up.
LEMMA CommitsWhole ==
  ASSUME Flow, NEW r \in Requests, pc[r] = "commit"
  PROVE  /\ ~aborted[r] /\ ~last_error[r] /\ js[r] # "threw" /\ r \notin committed
         /\ call[r] \in Calls[r] /\ call[r].kind # "execute"
         /\ call[r].kind = "script" => js[r] = "returned"
         /\ call[r].kind = "batch" => ip[r] = Length(r) + 1
BY DEF Flow, FlowOf

\* Success is answered when the transaction has committed.
LEMMA SuccessPreserved ==
  ASSUME TypeOK, Flow, SuccessIsCommitted, NEW r \in Requests, StepOf(r)
  PROVE  SuccessIsCommitted'
<1>1. \A s \in Requests \ {r} : Still(s)
  BY OneActs
<1>2. ASSUME outcome'[r] = "ok" PROVE r \in committed'
  <2>1. CASE RunAlone(r)
    BY <1>2, <2>1 DEF RunAlone, RunsAlone, Answer, Vanishes, TypeOK, SuccessIsCommitted
  <2>2. CASE Commit(r)
    <3>1. ~aborted[r]
      BY <2>2, CommitsWhole DEF Commit
    <3>2. Commits(r)
      BY <1>2, <2>2 DEF Commit, Answer, TypeOK
    <3>3. QED
      BY <3>1, <3>2 DEF Commits, Publishes
  <2>3. CASE Drop(r)
    <3>1. outcome' = outcome /\ committed \subseteq committed'
      BY <2>3 DEF Drop, RunsAlone, Vanishes, Commits, Publishes
    <3>2. QED
      BY <1>2, <3>1 DEF SuccessIsCommitted
  <2>4. CASE ~RunAlone(r) /\ ~Commit(r) /\ ~Drop(r)
    <3>1. committed' = committed /\ (outcome'[r] = outcome[r] \/ outcome'[r] = "error")
      <4>1. CASE \E c \in Calls[r] : Invoke(r, c)
        BY <4>1 DEF Invoke
      <4>2. CASE Acquire(r) \/ AcquireFails(r) \/ TakeMessage(r) \/ JoinScript(r) \/ Rollback(r)
        BY <4>2 DEF Acquire, AcquireFails, TakeMessage, JoinScript, Rollback, Answer, Vanishes,
                    TypeOK
      <4>3. CASE RunBatch(r) \/ RunMessage(r)
        BY <4>3 DEF RunBatch, RunMessage, Answer, Vanishes, TypeOK
      <4>4. CASE Thread(r)
        BY <4>4 DEF Thread, JsAsks, JsHears, JsChecks, JsThrows, JsReturns, JsFails
      <4>5. QED
        BY <2>4, <4>1, <4>2, <4>3, <4>4 DEF StepOf, Handler
    <3>2. QED
      BY <1>2, <3>1 DEF SuccessIsCommitted
  <2>5. QED
    BY <2>1, <2>2, <2>3, <2>4
<1>3. QED
  BY <1>1, <1>2 DEF SuccessIsCommitted, Still

\* The database changes when one request commits, and only in rows that no other open
\* transaction has written.
LEMMA DbKeeps ==
  ASSUME TypeOK, Flow, NEW r \in Requests, StepOf(r),
         NEW s \in Requests \ {r}, NEW w \in Rows, writes[s][w] # Nil
  PROVE  db'[w] = db[w]
<1>1. CASE RunAlone(r) \/ Drop(r)
  <2>1. CASE UNCHANGED db
    BY <2>1
  <2>2. CASE /\ pc[r] = "run" /\ Do(r).do = "add" /\ ~Blocked(r)
             /\ db' = [db EXCEPT ![Do(r).row] = @ + Do(r).amount]
    BY <2>2 DEF Blocked, TypeOK
  <2>3. CASE pc[r] = "commit" /\ Publishes(r)
    BY <2>3 DEF Publishes, Sees, TypeOK, RowsExclusive
  <2>4. QED
    BY <1>1, <2>1, <2>2, <2>3 DEF RunAlone, RunsAlone, Drop, Vanishes, Commits
<1>2. CASE Commit(r)
  <2>1. CASE UNCHANGED db
    BY <2>1
  <2>2. CASE Publishes(r)
    BY <2>2 DEF Publishes, Sees, TypeOK, RowsExclusive
  <2>3. QED
    BY <1>2, <2>1, <2>2 DEF Commit, Vanishes, Commits
<1>3. CASE ~RunAlone(r) /\ ~Commit(r) /\ ~Drop(r)
  <2>1. CASE \E c \in Calls[r] : Invoke(r, c)
    BY <2>1 DEF Invoke
  <2>2. CASE Handler(r)
    BY <1>3, <2>2 DEF Handler, Acquire, AcquireFails, RunBatch, TakeMessage, RunMessage,
                      JoinScript, Rollback, Vanishes
  <2>3. CASE Thread(r)
    BY <2>3 DEF Thread, JsAsks, JsHears, JsChecks, JsThrows, JsReturns, JsFails
  <2>4. QED
    BY <1>3, <2>1, <2>2, <2>3 DEF StepOf
<1>4. QED
  BY <1>1, <1>2, <1>3

\* Others commit below an open transaction, not into it.
LEMMA PartialStill ==
  ASSUME NEW s \in Requests, PartialOf(s), Still(s),
         \A w \in Rows : writes[s][w] # Nil => db'[w] = db[w]
  PROVE  PartialOf(s)'
<1> SUFFICES ASSUME (Connected(s) /\ call[s].kind # "execute" /\ ~last_error[s]
                       /\ js[s] # "threw")',
                    NEW w \in Rows
             PROVE  /\ writes'[s][w] = Nil => (Adds(call[s], w)[Done(s)])' = 0
                    /\ writes'[s][w] # Nil =>
                         writes'[s][w] = db'[w] + (Adds(call[s], w)[Done(s)])'
  BY DEF PartialOf
<1>1. Connected(s) /\ call[s].kind # "execute" /\ ~last_error[s] /\ js[s] # "threw"
  BY DEF Still, Connected
<1>2. Adds(call[s], w)' = Adds(call[s], w) /\ Done(s)' = Done(s)
  BY DEF Still, Adds, Amount, Done
<1>3. QED
  BY <1>1, <1>2 DEF PartialOf, Still

\* Open and without an error: the requests PartialOf is about.
Open(r) ==
  Connected(r) /\ call[r].kind # "execute" /\ ~last_error[r] /\ js[r] # "threw"

\* What a transaction has written after one more step.
LEMMA StepWrites ==
  ASSUME TypeOK, Flow, NEW r \in Requests, PartialOf(r), Open(r),
         call[r] \in Calls[r], ip[r] \in 1 .. Length(r), Done(r) = ip[r] - 1,
         call' = call, db' = db, Done(r)' = ip[r],
         \A w \in Rows : writes'[r][w] = IF Do(r).do = "add" /\ Do(r).row = w
                                         THEN Sees(r, w) + Do(r).amount ELSE writes[r][w]
  PROVE  PartialOf(r)'
<1> SUFFICES ASSUME NEW w \in Rows
             PROVE  /\ writes'[r][w] = Nil => (Adds(call[r], w)[Done(r)])' = 0
                    /\ writes'[r][w] # Nil =>
                         writes'[r][w] = db'[w] + (Adds(call[r], w)[Done(r)])'
  BY DEF PartialOf
<1> DEFINE S(n) == Adds(call[r], w)[n]
<1>1. Adds(call[r], w)' = Adds(call[r], w)
  BY DEF Adds, Amount
<1>2. S(ip[r]) = S(ip[r] - 1) + Amount(call[r], ip[r], w)
  BY AddsUp DEF Length
<1>3. S(ip[r] - 1) \in Int
  <2>1. Length(r) \in Nat
    BY CallShape DEF Length
  <2>2. ip[r] - 1 \in 0 .. Length(r)
    BY <2>1
  <2>3. QED
    BY <2>2, AddsUp DEF Length
<1>4. /\ writes[r][w] = Nil => S(ip[r] - 1) = 0
      /\ writes[r][w] # Nil => writes[r][w] = db[w] + S(ip[r] - 1)
  BY DEF PartialOf, Open
<1>5. db[w] \in Int /\ (writes[r][w] # Nil => writes[r][w] \in Int)
  BY DEF TypeOK
<1>6. Sees(r, w) = db[w] + S(ip[r] - 1)
  BY <1>3, <1>4, <1>5 DEF Sees
<1>7. Amount(call[r], ip[r], w) = IF Do(r).do = "add" /\ Do(r).row = w THEN Do(r).amount ELSE 0
  BY DEF Amount, Do
<1>8. Do(r).do = "add" => Do(r).amount \in Int
  BY CallShape, StepShape DEF Do, Length
<1> HIDE DEF S
<1>9. (Adds(call[r], w)[Done(r)])' = S(ip[r])
  BY <1>1 DEF S
<1>10. CASE Do(r).do = "add" /\ Do(r).row = w
  <2>1. S(ip[r]) = S(ip[r] - 1) + Do(r).amount
    BY <1>2, <1>7, <1>10
  <2>2. writes'[r][w] = db[w] + S(ip[r] - 1) + Do(r).amount
    BY <1>6, <1>10
  <2>3. writes'[r][w] = db'[w] + S(ip[r]) /\ writes'[r][w] \in Int
    BY <1>3, <1>5, <1>8, <1>10, <2>1, <2>2
  <2>4. QED
    BY <1>9, <2>3, SqlAssumption
<1>11. CASE ~(Do(r).do = "add" /\ Do(r).row = w)
  <2>1. S(ip[r]) = S(ip[r] - 1)
    BY <1>2, <1>3, <1>7, <1>11
  <2>2. QED
    BY <1>4, <1>9, <1>11, <2>1
<1>12. QED
  BY <1>10, <1>11

\* A step that has no effect on the transaction and counts none.
LEMMA NoWrites ==
  ASSUME NEW r \in Requests, PartialOf(r), Open(r), call' = call, db' = db,
         writes' = writes, Done(r)' = Done(r)
  PROVE  PartialOf(r)'
<1>1. \A w \in Rows : Adds(call[r], w)' = Adds(call[r], w)
  BY DEF Adds, Amount
<1>2. QED
  BY <1>1 DEF PartialOf, Open

\* What a statement of an open transaction writes.
LEMMA ExecutesWrites ==
  ASSUME TypeOK, NEW r \in Requests, Executes(r), NEW w \in Rows, Do(r).row \in Rows
  PROVE  writes'[r][w] = IF Do(r).do # "query" /\ Do(r).row = w
                         THEN Sees(r, w) + Do(r).amount ELSE writes[r][w]
BY DEF Executes, TypeOK

\* The open transaction of the request that acts.
LEMMA PartialOfActing ==
  ASSUME TypeOK, Flow, Partial, NEW r \in Requests, StepOf(r)
  PROVE  PartialOf(r)'
<1> SUFFICES ASSUME Open(r)' PROVE PartialOf(r)'
  BY DEF PartialOf, Open
<1>1. PartialOf(r) /\ FlowOf(r)
  BY DEF Partial, Flow
<1> USE DEF transaction, script, Goto, Answer, Vanishes
<1>2. CASE \E c \in Calls[r] : Invoke(r, c)
  BY <1>2 DEF Invoke, Open, Connected, TypeOK
<1>3. CASE Acquire(r)
  <2>1. /\ pc[r] = "acquire" /\ call' = call /\ writes' = writes /\ ip' = ip /\ reply' = reply
    BY <1>3 DEF Acquire
  <2>2. /\ call[r] \in Calls[r] /\ writes[r] = NoRow /\ Done(r)' = 0
    BY <1>1, <2>1, SqlAssumption DEF FlowOf, Done
  <2>3. \A w \in Rows : Adds(call[r], w)' = Adds(call[r], w) /\ Adds(call[r], w)[0] = 0
    <3>1. \A w \in Rows : Adds(call[r], w)[0] = 0
      BY <2>2, AddsUp
    <3>2. \A w \in Rows : Adds(call[r], w)' = Adds(call[r], w)
      BY <2>1 DEF Adds, Amount
    <3>3. QED
      BY <3>1, <3>2
  <2>4. \A w \in Rows : writes'[r][w] = Nil
    BY <2>1, <2>2 DEF NoRow
  <2>5. QED
    BY <2>2, <2>3, <2>4 DEF PartialOf
<1>4. CASE AcquireFails(r) \/ RunAlone(r) \/ Rollback(r) \/ Commit(r) \/ Drop(r)
  <2>1. pc'[r] \in {"answered", "dropped"}
    BY <1>4 DEF AcquireFails, RunAlone, RunsAlone, Rollback, Commit, Drop, TypeOK
  <2>2. QED
    BY <2>1 DEF Open, Connected
<1>5. CASE RunBatch(r)
  <2>1. /\ pc[r] = "run" /\ call[r].kind = "batch" /\ call' = call /\ db' = db
        /\ last_error' = last_error /\ js' = js /\ reply' = reply
    BY <1>5 DEF RunBatch
  <2>2. pc'[r] # "answered"
    BY DEF Open, Connected
  <2>3. Executes(r) /\ ip'[r] = ip[r] + 1
    BY <1>5, <2>2 DEF RunBatch, TypeOK
  <2>4. Open(r) /\ reply[r] = Nil /\ ip[r] \in Nat
    BY <1>1, <2>1 DEF Open, Connected, FlowOf, TypeOK
  <2>5. Done(r) = ip[r] - 1 /\ Done(r)' = ip[r]
    BY <2>1, <2>3, <2>4, SqlAssumption DEF Done
  <2>6. /\ call[r] \in Calls[r] /\ ip[r] \in 1 .. Length(r)
        /\ Do(r).row \in Rows /\ Do(r).do \in {"query", "add"}
    BY <2>1, AtStatement DEF Statements
  <2>7. \A w \in Rows : writes'[r][w] = IF Do(r).do = "add" /\ Do(r).row = w
                                        THEN Sees(r, w) + Do(r).amount ELSE writes[r][w]
    BY <2>3, <2>6, ExecutesWrites
  <2>8. QED
    BY <1>1, <2>1, <2>4, <2>5, <2>6, <2>7, StepWrites
<1>6. CASE TakeMessage(r) \/ JoinScript(r)
  <2>1. pc[r] = "loop" /\ UNCHANGED <<db, call, transaction, last_error, script>>
    BY <1>6 DEF TakeMessage, JoinScript
  <2>2. Open(r) /\ Done(r)' = Done(r)
    BY <2>1 DEF Open, Connected, Done
  <2>3. QED
    BY <1>1, <2>1, <2>2, NoWrites
<1>7. CASE RunMessage(r)
  <2>1. /\ pc[r] = "run" /\ call[r].kind = "script" /\ call' = call /\ db' = db
        /\ js' = js /\ ip' = ip
    BY <1>7 DEF RunMessage
  <2>2. ~last_error'[r]
    BY DEF Open
  <2>3. Executes(r) /\ reply'[r] = "ok" /\ last_error' = last_error
    BY <1>7, <2>2 DEF RunMessage, TypeOK
  <2>4. Open(r) /\ reply[r] = Nil
    BY <1>1, <2>1, <2>3 DEF Open, Connected, FlowOf
  <2>5. Done(r) = ip[r] - 1 /\ Done(r)' = ip[r]
    BY <2>1, <2>3, <2>4, SqlAssumption DEF Done
  <2>6. /\ call[r] \in Calls[r] /\ ip[r] \in 1 .. Length(r)
        /\ Do(r).row \in Rows /\ Do(r).do \in {"query", "add"}
    BY <2>1, AtStatement DEF Statements
  <2>7. \A w \in Rows : writes'[r][w] = IF Do(r).do = "add" /\ Do(r).row = w
                                        THEN Sees(r, w) + Do(r).amount ELSE writes[r][w]
    BY <2>3, <2>6, ExecutesWrites
  <2>8. QED
    BY <1>1, <2>1, <2>4, <2>5, <2>6, <2>7, StepWrites
<1>8. CASE Thread(r)
  <2>1. UNCHANGED <<db, pc, call, transaction, last_error, seen, outcome, committed>>
    BY <1>8 DEF Thread, JsAsks, JsHears, JsChecks, JsThrows, JsReturns, JsFails
  <2>2. js[r] \in {"running", "asking"}
    BY <1>8 DEF Thread, JsAsks, JsHears, JsChecks, JsThrows, JsReturns, JsFails, Runs
  <2>3. Open(r) /\ ~Deserted(r) /\ js'[r] # "threw"
    BY <2>1, <2>2 DEF Open, Connected, Deserted
  <2>4. (js[r] = "running" => reply[r] = Nil) /\ (reply[r] = "error" => last_error[r])
    BY <1>1 DEF FlowOf
  <2>5. ip[r] \in Nat
    BY DEF TypeOK
  <2>6. CASE JsAsks(r) \/ JsThrows(r) \/ JsReturns(r) \/ JsFails(r)
    <3>1. ip' = ip /\ reply' = reply
      BY <2>3, <2>6 DEF JsAsks, JsThrows, JsReturns, JsFails, Throws
    <3>2. QED
      BY <1>1, <2>1, <2>3, <3>1, NoWrites DEF Done
  <2>7. CASE JsHears(r)
    <3>1. reply[r] = "ok" /\ ip'[r] = ip[r] + 1 /\ reply'[r] = Nil
      BY <2>3, <2>4, <2>7 DEF JsHears, Open, GoesOn, TypeOK
    <3>2. Done(r)' = Done(r)
      BY <2>5, <3>1, SqlAssumption DEF Done
    <3>3. QED
      BY <1>1, <2>1, <2>3, <3>2, NoWrites
  <2>8. CASE JsChecks(r)
    <3>1. Do(r).do = "require" /\ ip[r] <= Length(r) /\ js[r] = "running" /\ reply' = reply
      BY <2>8 DEF JsChecks, Runs, Length
    <3>2. CASE Throws(r)
      <4>1. ip' = ip
        BY <3>2 DEF Throws
      <4>2. QED
        BY <1>1, <2>1, <2>3, <3>1, <4>1, NoWrites DEF Done
    <3>3. CASE GoesOn(r)
      <4>1. ip'[r] = ip[r] + 1
        BY <3>3 DEF GoesOn, TypeOK
      <4>2. call[r] \in Calls[r] /\ ip[r] \in 1 .. Length(r)
        <5>1. pc[r] # "idle"
          BY <2>3 DEF Open, Connected
        <5>2. call[r] \in Calls[r] /\ ip[r] \in 1 .. Length(r) + 1
          BY <1>1, <5>1 DEF FlowOf
        <5>3. Length(r) \in Nat
          BY <5>2, CallShape DEF Length
        <5>4. QED
          BY <3>1, <5>2, <5>3
      <4>3. Done(r) = ip[r] - 1 /\ Done(r)' = ip[r]
        BY <2>4, <2>5, <3>1, <4>1, SqlAssumption DEF Done
      <4>4. \A w \in Rows : writes'[r][w] = IF Do(r).do = "add" /\ Do(r).row = w
                                            THEN Sees(r, w) + Do(r).amount ELSE writes[r][w]
        BY <2>1, <3>1
      <4>5. QED
        BY <1>1, <2>1, <2>3, <4>2, <4>3, <4>4, StepWrites
    <3>4. QED
      BY <2>8, <3>2, <3>3 DEF JsChecks
  <2>9. QED
    BY <1>8, <2>6, <2>7, <2>8 DEF Thread
<1>9. QED
  BY <1>2, <1>3, <1>4, <1>5, <1>6, <1>7, <1>8 DEF StepOf, Handler

\* Every step leaves every open transaction with what its own steps add.
LEMMA PartialPreserved ==
  ASSUME TypeOK, Flow, Partial, NEW r \in Requests, StepOf(r)
  PROVE  Partial'
<1>1. \A s \in Requests \ {r} : Still(s)
  BY OneActs
<1>2. ASSUME NEW s \in Requests \ {r} PROVE PartialOf(s)'
  BY <1>1, DbKeeps, PartialStill DEF Partial
<1>3. QED
  BY <1>2, PartialOfActing DEF Partial

-----------------------------------------------------------------------------
(* Theorems *)

\* The invariant holds in every reachable state.
THEOREM Invariance == Spec => []IInv
<1>1. Init => IInv
  BY InitIInv
<1>2. IInv /\ [Next]_vars => IInv'
  <2>1. ASSUME IInv, NEW r \in Requests, StepOf(r) PROVE IInv'
    BY <2>1, TypePreserved, FlowPreserved, PartialPreserved, SuccessPreserved DEF IInv
  <2>2. ASSUME IInv, UNCHANGED vars PROVE IInv'
    <3>1. TypeOK' /\ SuccessIsCommitted'
      BY <2>2 DEF IInv, TypeOK, RowsExclusive, SuccessIsCommitted, vars
    <3>2. \A s \in Requests : Still(s)
      BY <2>2 DEF Still, vars
    <3>3. Flow'
      BY <2>2, <3>2, FlowStill DEF IInv, Flow, vars
    <3>4. Partial'
      BY <2>2, <3>2, PartialStill DEF IInv, Partial, vars
    <3>5. QED
      BY <3>1, <3>3, <3>4 DEF IInv
  <2>3. QED
    BY <2>1, <2>2 DEF Next, StepOf
<1>3. QED
  BY <1>1, <1>2, PTL DEF Spec

\* Rows are amounts and no two open transactions have written the same one; handlers,
\* transactions and threads keep their types.
THEOREM TypeCorrect == Spec => []TypeOK
<1>1. IInv => TypeOK
  BY DEF IInv
<1>2. QED
  BY <1>1, Invariance, PTL

\* A client that is answered with success finds its writes committed, whatever errors its
\* script catches.
THEOREM NoFalseSuccess == Spec => []SuccessIsCommitted
<1>1. IInv => SuccessIsCommitted
  BY DEF IInv
<1>2. QED
  BY <1>1, Invariance, PTL

\* Whoever commits publishes what the steps so far add, no less and no more.
LEMMA PublishesPrefix ==
  ASSUME IInv, NEW r \in Requests, pc[r] = "commit", Commits(r)
  PROVE  /\ committed' = committed \union {r} /\ r \notin committed
         /\ Done(r) \in 0 .. Length(r)
         /\ ~call[r].async => Done(r) = Length(r)
         /\ db' = [w \in Rows |-> db[w] + Adds(call[r], w)[Done(r)]]
<1>1. Publishes(r) /\ r \notin committed
  BY CommitsWhole DEF IInv, Commits
<1>2. /\ reply[r] = Nil /\ Length(r) \in Nat /\ ip[r] \in 1 .. Length(r) + 1
      /\ ~call[r].async => ip[r] = Length(r) + 1
  <2>1. FlowOf(r) /\ call[r] \in Calls[r]
    BY DEF IInv, Flow, FlowOf
  <2>2. Length(r) \in Nat /\ call[r].kind \in {"execute", "batch", "script"}
    BY <2>1, CallShape DEF Length
  <2>3. js[r] \in {"returned", "none"}
    BY <2>1 DEF FlowOf
  <2>4. QED
    BY <2>1, <2>2, <2>3, CommitsWhole DEF IInv, FlowOf
<1>3. Done(r) = ip[r] - 1
  BY <1>2, SqlAssumption DEF Done
<1>4. ASSUME NEW w \in Rows PROVE Sees(r, w) = db[w] + Adds(call[r], w)[Done(r)]
  <2>1. /\ writes[r][w] = Nil => Adds(call[r], w)[Done(r)] = 0
        /\ writes[r][w] # Nil => writes[r][w] = db[w] + Adds(call[r], w)[Done(r)]
    BY CommitsWhole DEF IInv, Partial, PartialOf, Connected
  <2>2. db[w] \in Int
    BY DEF IInv, TypeOK
  <2>3. QED
    BY <2>1, <2>2 DEF Sees
<1>5. QED
  BY <1>1, <1>2, <1>3, <1>4 DEF Publishes

\* A statement on its own is the whole of its call.
LEMMA AloneWhole ==
  ASSUME IInv, NEW r \in Requests, pc[r] = "run", call[r].kind = "execute", Do(r).do = "add",
         db' = [db EXCEPT ![Do(r).row] = @ + Do(r).amount]
  PROVE  /\ r \notin committed
         /\ db' = [w \in Rows |-> db[w] + Effect(call[r], w)]
<1>1. FlowOf(r) /\ call[r] \in Calls[r] /\ ip[r] = 1 /\ r \notin committed
  BY DEF IInv, Flow, FlowOf
<1>2. Len(call[r].body) = 1
  BY <1>1, CallShape
<1>3. ASSUME NEW w \in Rows
      PROVE  Effect(call[r], w) = IF Do(r).row = w THEN Do(r).amount ELSE 0
  <2>1. /\ Adds(call[r], w)[0] = 0
        /\ Adds(call[r], w)[1] = Adds(call[r], w)[1 - 1] + Amount(call[r], 1, w)
    BY <1>1, <1>2, AddsUp
  <2>2. Amount(call[r], 1, w) \in Int
    BY <1>1, <1>2, AmountType
  <2>3. Effect(call[r], w) = Amount(call[r], 1, w)
    BY <1>2, <2>1, <2>2 DEF Effect
  <2>4. QED
    BY <1>1, <2>3 DEF Amount, Do
<1>4. Do(r).row \in Rows /\ \A w \in Rows : db[w] \in Int
  BY AtStatement DEF IInv, TypeOK
<1>5. DOMAIN db = Rows /\ DOMAIN db' = Rows
  BY DEF IInv, TypeOK
<1>6. ASSUME NEW w \in Rows PROVE db'[w] = db[w] + Effect(call[r], w)
  <2>1. CASE Do(r).row = w
    BY <1>3, <1>5, <2>1
  <2>2. CASE Do(r).row # w
    BY <1>3, <1>4, <1>5, <2>2
  <2>3. QED
    BY <2>1, <2>2
<1>7. db' = [w \in Rows |-> db[w] + Effect(call[r], w)]
  BY <1>5, <1>6
<1>8. QED
  BY <1>1, <1>7

\* The database changes when a transaction commits, or a statement on its own.
LEMMA OnlyCommits ==
  ASSUME NEW r \in Requests, StepOf(r), db' # db
  PROVE  \/ pc[r] = "commit" /\ Commits(r)
         \/ /\ pc[r] = "run" /\ call[r].kind = "execute" /\ Do(r).do = "add"
            /\ db' = [db EXCEPT ![Do(r).row] = @ + Do(r).amount]
            /\ committed' = committed \union {r}
<1>1. CASE RunAlone(r)
  BY <1>1 DEF RunAlone, RunsAlone, Vanishes
<1>2. CASE Commit(r)
  BY <1>2 DEF Commit, Vanishes
<1>3. CASE Drop(r)
  BY <1>3 DEF Drop, RunsAlone, Vanishes
<1>4. CASE \E c \in Calls[r] : Invoke(r, c)
  BY <1>4 DEF Invoke
<1>5. CASE Thread(r)
  BY <1>5 DEF Thread, JsAsks, JsHears, JsChecks, JsThrows, JsReturns, JsFails
<1>6. CASE Handler(r) /\ ~RunAlone(r) /\ ~Commit(r)
  BY <1>6 DEF Handler, Acquire, AcquireFails, RunBatch, TakeMessage, RunMessage, JoinScript,
              Rollback, Vanishes
<1>7. QED
  BY <1>1, <1>2, <1>3, <1>4, <1>5, <1>6 DEF StepOf

\* All or nothing, for every set of rows, requests and calls without async scripts: the
\* database changes only when one request commits, and then by the effect of its whole
\* call, on top of what others committed meanwhile.
THEOREM WholeCallsOnly ==
  ASSUME \A r \in Requests : \A c \in Calls[r] : ~c.async
  PROVE  Spec => AllOrNothing
<1> DEFINE Whole(r) == /\ committed' = committed \union {r} /\ r \notin committed
                       /\ db' = [w \in Rows |-> db[w] + Effect(call[r], w)]
<1>1. ASSUME IInv, NEW r \in Requests, StepOf(r), db' # db PROVE Whole(r)
  <2>1. CASE pc[r] = "commit" /\ Commits(r)
    <3>1. ~call[r].async
      BY <1>1, <2>1, CommitsWhole DEF IInv
    <3>2. QED
      BY <1>1, <2>1, <3>1, PublishesPrefix DEF Effect, Length
  <2>2. CASE /\ pc[r] = "run" /\ call[r].kind = "execute" /\ Do(r).do = "add"
             /\ db' = [db EXCEPT ![Do(r).row] = @ + Do(r).amount]
             /\ committed' = committed \union {r}
    BY <1>1, <2>2, AloneWhole
  <2>3. QED
    BY <1>1, <2>1, <2>2, OnlyCommits
<1>2. IInv /\ [Next]_vars => [db' # db => \E r \in Requests : Whole(r)]_vars
  BY <1>1 DEF Next, StepOf
<1>3. QED
  BY <1>2, Invariance, PTL DEF Spec, AllOrNothing

\* Async scripts keep less of the promise, which stops at their first await or uncaught
\* error: what is committed is the effect of a first part of the body, none of it twice,
\* left out or out of order.
PrefixOnly ==
  [][db' # db => \E r \in Requests :
       /\ committed' = committed \union {r} /\ r \notin committed
       /\ \E n \in 0 .. Len(call[r].body) :
            db' = [w \in Rows |-> db[w] + Adds(call[r], w)[n]]]_vars

\* The database changes only by a first part of one call, async scripts included.
THEOREM FirstPartsOnly == Spec => PrefixOnly
<1> DEFINE Part(r) == /\ committed' = committed \union {r} /\ r \notin committed
                      /\ \E n \in 0 .. Len(call[r].body) :
                           db' = [w \in Rows |-> db[w] + Adds(call[r], w)[n]]
<1>1. ASSUME IInv, NEW r \in Requests, StepOf(r), db' # db PROVE Part(r)
  <2>1. CASE pc[r] = "commit" /\ Commits(r)
    BY <1>1, <2>1, PublishesPrefix DEF Length
  <2>2. CASE /\ pc[r] = "run" /\ call[r].kind = "execute" /\ Do(r).do = "add"
             /\ db' = [db EXCEPT ![Do(r).row] = @ + Do(r).amount]
             /\ committed' = committed \union {r}
    <3>1. /\ r \notin committed
          /\ db' = [w \in Rows |-> db[w] + Adds(call[r], w)[Len(call[r].body)]]
      BY <1>1, <2>2, AloneWhole DEF Effect
    <3>2. Len(call[r].body) \in 0 .. Len(call[r].body)
      <4>1. call[r] \in Calls[r]
        BY <1>1, <2>2 DEF IInv, Flow, FlowOf
      <4>2. QED
        BY <4>1, CallShape
    <3>3. QED
      BY <2>2, <3>1, <3>2
  <2>3. QED
    BY <1>1, <2>1, <2>2, OnlyCommits
<1>2. IInv /\ [Next]_vars => [db' # db => \E r \in Requests : Part(r)]_vars
  BY <1>1 DEF Next, StepOf
<1>3. QED
  BY <1>2, Invariance, PTL DEF Spec, PrefixOnly

=============================================================================
