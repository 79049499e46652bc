------------------------ MODULE EmailService_proofs ------------------------
(***************************************************************************)
(* Theorems about single mails and batches, for every set of mails, calls  *)
(* and clients and any number of attempts.  The inductive invariant keeps  *)
(* the account of each mail: it has gone out as often as it went out       *)
(* without a word, and once more if the client knows it, or will know it   *)
(* when the call under way is answered.                                    *)
(***************************************************************************)
EXTENDS EmailService, SequenceTheorems, FiniteSetTheorems, TLAPS

\* The mails of a call differ, and are none that the client knows to be sent.
CallIsFresh(c) ==
  pc[c] = "sending" =>
    /\ IsInjective(call[c].mails)
    /\ \A i \in DOMAIN call[c].mails : call[c].mails[i] \notin told[c]

\* The client knows, or its handler does.
Known(c, m) == m \in told[c] \/ (pc[c] = "sending" /\ m \in Succeeded(c))

Account(c) ==
  \A m \in Mails : out[c][m] = unclear[c][m] + (IF Known(c, m) THEN 1 ELSE 0)

\* A mail goes out once in a call, and not before its turn.
OncePerCall(c) ==
  /\ \A m \in Mails : out[c][m] <= tries[c]
  /\ pc[c] = "sending" =>
       \A i \in DOMAIN call[c].mails :
         i > Len(results[c]) => out[c][call[c].mails[i]] < tries[c]

ClientInv(c) ==
  /\ pc[c] = "idle" => told[c] = {}
  /\ CallIsFresh(c)
  /\ Account(c)
  /\ OncePerCall(c)

IInv ==
  /\ TypeOK
  /\ DOMAIN call = Clients
  /\ \A c \in Clients : ClientInv(c)

-----------------------------------------------------------------------------
(* Lemmas *)

\* The mails still to be sent have not succeeded.
LEMMA CurrentIsNew ==
  ASSUME IInv, NEW c \in Clients, Pending(c)
  PROVE  /\ call[c] \in CallType /\ call[c].mails \in Seq(Mails)
         /\ results[c] \in Seq(BOOLEAN) /\ Len(results[c]) < Len(call[c].mails)
         /\ Position(c) \in DOMAIN call[c].mails
         /\ Current(c) \in Mails /\ Current(c) \notin Succeeded(c) /\ Current(c) \notin told[c]
<1>1. /\ pc[c] = "sending" /\ call[c] \in CallType /\ results[c] \in Seq(BOOLEAN)
      /\ Position(c) <= Len(call[c].mails)
  BY DEF IInv, TypeOK, Pending
<1>2. call[c].mails \in Seq(Mails) /\ Len(results[c]) \in Nat /\ Len(call[c].mails) \in Nat
  BY <1>1 DEF CallType
<1>3. Position(c) \in 1..Len(call[c].mails) /\ Len(results[c]) < Len(call[c].mails)
  BY <1>1, <1>2 DEF Position
<1>4. Current(c) \in Mails
  BY <1>2, <1>3 DEF Current
<1>5. Current(c) \notin told[c]
  BY <1>1, <1>2, <1>3 DEF Current, IInv, ClientInv, CallIsFresh
<1>6. Current(c) \notin Succeeded(c)
  BY <1>1, <1>2, <1>3 DEF Current, Position, Succeeded, IInv, ClientInv, CallIsFresh, IsInjective
<1>7. QED
  BY <1>1, <1>2, <1>3, <1>4, <1>5, <1>6

\* One more at the end of a sequence.
LEMMA AppendOne ==
  ASSUME NEW s \in Seq(BOOLEAN), NEW b \in BOOLEAN, NEW t, t = Append(s, b)
  PROVE  /\ t \in Seq(BOOLEAN) /\ Len(t) = Len(s) + 1 /\ Len(s) \in Nat
         /\ DOMAIN t = 1..(Len(s) + 1) /\ DOMAIN s = 1..Len(s)
         /\ \A i \in 1..Len(s) : t[i] = s[i]
         /\ t[Len(s) + 1] = b
OBVIOUS

\* A result more: what had succeeded has, and the current mail has if the result says so.
LEMMA OneMoreResult ==
  ASSUME IInv, NEW c \in Clients, Pending(c), NEW success \in BOOLEAN,
         results' = [results EXCEPT ![c] = Append(results[c], success)], call' = call
  PROVE  /\ results'[c] = Append(results[c], success)
         /\ results'[c] \in Seq(BOOLEAN) /\ Len(results'[c]) = Len(results[c]) + 1
         /\ Succeeded(c)' = Succeeded(c) \union (IF success THEN {Current(c)} ELSE {})
<1>1. results \in [Clients -> Seq(BOOLEAN)]
  BY DEF IInv, TypeOK
<1>2. results'[c] = Append(results[c], success) /\ results[c] \in Seq(BOOLEAN)
  BY <1>1
<1> DEFINE n == Len(results[c])
<1>3. /\ results'[c] \in Seq(BOOLEAN) /\ Len(results'[c]) = n + 1
      /\ DOMAIN results'[c] = 1..(n + 1) /\ DOMAIN results[c] = 1..n /\ n \in Nat
      /\ \A i \in 1..n : results'[c][i] = results[c][i]
      /\ results'[c][n + 1] = success
  <2> DEFINE s == results[c]
             t == results'[c]
  <2>1. t = Append(s, success) /\ s \in Seq(BOOLEAN)
    BY <1>2
  <2> HIDE DEF s, t
  <2>2. /\ t \in Seq(BOOLEAN) /\ Len(t) = Len(s) + 1
        /\ DOMAIN t = 1..(Len(s) + 1) /\ DOMAIN s = 1..Len(s) /\ Len(s) \in Nat
        /\ \A i \in 1..Len(s) : t[i] = s[i]
        /\ t[Len(s) + 1] = success
    BY <2>1, AppendOne
  <2>3. QED
    BY <2>2 DEF s, t
<1>4. {i \in DOMAIN results'[c] : results'[c][i]} =
        {i \in DOMAIN results[c] : results[c][i]} \union (IF success THEN {n + 1} ELSE {})
  BY <1>3
<1>5. Succeeded(c)' = {call[c].mails[i] : i \in {j \in DOMAIN results'[c] : results'[c][j]}}
  BY DEF Succeeded
<1>6. Current(c) = call[c].mails[n + 1]
  BY DEF Current, Position
<1>7. Succeeded(c)' = Succeeded(c) \union (IF success THEN {Current(c)} ELSE {})
  <2>1. CASE success
    <3>1. {i \in DOMAIN results'[c] : results'[c][i]} =
            {i \in DOMAIN results[c] : results[c][i]} \union {n + 1}
      BY <2>1, <1>4
    <3>2. Succeeded(c)' = Succeeded(c) \union {call[c].mails[n + 1]}
      BY <3>1, <1>5 DEF Succeeded
    <3>3. QED
      BY <2>1, <3>2, <1>6
  <2>2. CASE ~success
    <3>1. {i \in DOMAIN results'[c] : results'[c][i]} = {i \in DOMAIN results[c] : results[c][i]}
      BY <2>2, <1>4
    <3>2. QED
      BY <2>2, <3>1, <1>5 DEF Succeeded
  <2>3. QED
    BY <2>1, <2>2
<1>8. QED
  BY <1>2, <1>3, <1>7

\* A client that a step does not touch keeps its invariant.
LEMMA UntouchedPreserves ==
  ASSUME NEW d \in Clients, ClientInv(d),
         pc'[d] = pc[d], call'[d] = call[d], results'[d] = results[d], tries'[d] = tries[d],
         out'[d] = out[d], told'[d] = told[d], unclear'[d] = unclear[d]
  PROVE  ClientInv(d)'
BY DEF ClientInv, CallIsFresh, Account, Known, Succeeded, OncePerCall

-----------------------------------------------------------------------------
(* One lemma for each action *)

LEMMA InitIInv == Init => IInv
<1> SUFFICES ASSUME Init PROVE IInv
  OBVIOUS
<1>1. TypeOK
  BY EmailAssumption DEF Init, TypeOK, Counts
<1>2. \A c \in Clients : ClientInv(c)
  BY EmailAssumption DEF Init, ClientInv, CallIsFresh, Account, Known, OncePerCall
<1>3. QED
  BY <1>1, <1>2 DEF IInv, Init

\* A call with mails that the client does not know to be sent.
LEMMA RequestPreserves ==
  ASSUME IInv, NEW c \in Clients, NEW x \in CallType, IsInjective(x.mails),
         \A i \in DOMAIN x.mails : x.mails[i] \notin told[c],
         pc[c] # "sending", Request(c, x)
  PROVE  IInv'
<1> USE DEF IInv
<1>1. /\ tries[c] < MaxTries /\ tries' = [tries EXCEPT ![c] = tries[c] + 1]
      /\ pc' = [pc EXCEPT ![c] = "sending"] /\ call' = [call EXCEPT ![c] = x]
      /\ results' = [results EXCEPT ![c] = <<>>] /\ answer' = [answer EXCEPT ![c] = Nil]
      /\ UNCHANGED <<backend, out, told, unclear>>
  BY DEF Request
<1>2. x.mails \in Seq(Mails) /\ Len(x.mails) \in Nat
  BY DEF CallType
<1>3. TypeOK'
  <2>1. tries' \in [Clients -> 0..MaxTries]
    BY <1>1, EmailAssumption DEF TypeOK
  <2>2. \A d \in Clients : pc'[d] # "idle" =>
          call'[d] \in CallType /\ Len(results'[d]) <= Len(call'[d].mails)
    BY <1>1, <1>2 DEF TypeOK
  <2>3. results' \in [Clients -> Seq(BOOLEAN)]
    BY <1>1 DEF TypeOK
  <2>4. QED
    BY <1>1, <2>1, <2>2, <2>3 DEF TypeOK
<1>4. ClientInv(c)'
  <2>1. /\ pc'[c] = "sending" /\ call'[c] = x /\ results'[c] = <<>> /\ tries'[c] = tries[c] + 1
        /\ told' = told /\ out' = out /\ unclear' = unclear /\ tries[c] \in Nat
    BY <1>1, EmailAssumption DEF TypeOK
  <2>2. CallIsFresh(c)'
    BY <2>1 DEF CallIsFresh
  <2>3. Account(c)'
    BY <2>1 DEF Account, Known, Succeeded, ClientInv
  <2>4. OncePerCall(c)'
    <3>1. \A m \in Mails : out[c][m] \in Nat /\ out[c][m] <= tries[c]
      BY EmailAssumption DEF ClientInv, OncePerCall, TypeOK, Counts
    <3>2. \A i \in DOMAIN x.mails : x.mails[i] \in Mails
      BY <1>2
    <3>3. QED
      BY <2>1, <3>1, <3>2 DEF OncePerCall
  <2>5. QED
    BY <2>1, <2>2, <2>3, <2>4 DEF ClientInv
<1>5. \A d \in Clients \ {c} : ClientInv(d)'
  <2>1. \A d \in Clients \ {c} : /\ pc'[d] = pc[d] /\ call'[d] = call[d]
                                 /\ results'[d] = results[d] /\ tries'[d] = tries[d]
    BY <1>1 DEF TypeOK
  <2>2. QED
    BY <1>1, <2>1, UntouchedPreserves
<1>6. QED
  BY <1>1, <1>3, <1>4, <1>5

\* The first call.
LEMMA InvokePreserves ==
  ASSUME IInv, NEW c \in Clients, NEW x \in Calls[c], Invoke(c, x)
  PROVE  IInv'
<1>1. x \in CallType /\ IsInjective(x.mails) /\ pc[c] = "idle" /\ Request(c, x)
  BY EmailAssumption DEF Invoke
<1>2. told[c] = {}
  BY <1>1 DEF IInv, ClientInv
<1>3. QED
  BY <1>1, <1>2, RequestPreserves

\* A call repeated with what is left of it.
LEMMA RetryPreserves ==
  ASSUME IInv, NEW c \in Clients, Retry(c)
  PROVE  IInv'
<1> DEFINE left == ToSet(call[c].mails) \ told[c]
<1>1. PICK rest \in SetToSeqs(left) : Request(c, [call[c] EXCEPT !.mails = rest])
  BY DEF Retry
<1>2. pc[c] \in {"answered", "dropped"} /\ call[c] \in CallType
  BY DEF Retry, IInv, TypeOK
<1>3. call[c].mails \in Seq(Mails)
  BY <1>2 DEF CallType
<1>4. left \subseteq Mails /\ left \intersect told[c] = {}
  BY <1>3 DEF ToSet
<1> HIDE DEF left
<1>5. Cardinality(left) \in Nat
  BY <1>4, FS_Subset, FS_CardinalityType, EmailAssumption
<1>6. /\ rest \in [1..Cardinality(left) -> left]
      /\ \A i, j \in 1..Cardinality(left) : i # j => rest[i] # rest[j]
  BY DEF SetToSeqs
<1>7. rest \in Seq(Mails) /\ IsInjective(rest) /\ \A i \in DOMAIN rest : rest[i] \notin told[c]
  <2>1. rest \in [1..Cardinality(left) -> Mails]
    BY <1>4, <1>6
  <2>2. rest \in Seq(Mails)
    BY <1>5, <2>1, SeqDef
  <2>3. QED
    BY <1>4, <1>6, <2>2 DEF IsInjective
<1>8. /\ [call[c] EXCEPT !.mails = rest] \in CallType
      /\ [call[c] EXCEPT !.mails = rest].mails = rest
  BY <1>2, <1>7 DEF CallType
<1>9. QED
  BY <1>1, <1>2, <1>7, <1>8, RequestPreserves

\* The counts of a client's mails, when some go out once more in its call and some of the
\* known ones are given up: what both stand for is at most one per attempt.
LEMMA CountsType ==
  ASSUME IInv, NEW c \in Clients, NEW count \in Counts, NEW more \in SUBSET Mails,
         \A m \in more : count[m] < tries[c]
  PROVE  [m \in Mails |-> IF m \in more THEN count[m] + 1 ELSE count[m]] \in Counts
BY EmailAssumption DEF IInv, TypeOK, Counts

\* What a client or its handler knows is out once more than it is unclear.
LEMMA KnownIsOut ==
  ASSUME IInv, NEW c \in Clients, NEW m \in Mails
  PROVE  /\ out[c][m] \in Nat /\ unclear[c][m] \in Nat /\ tries[c] \in Nat
         /\ tries[c] <= MaxTries
         /\ out[c][m] = unclear[c][m] + (IF Known(c, m) THEN 1 ELSE 0)
         /\ out[c][m] <= tries[c]
BY EmailAssumption DEF IInv, TypeOK, Counts, ClientInv, Account, OncePerCall

\* The mail whose turn it is has not gone out in this attempt.
LEMMA CurrentIsFree ==
  ASSUME IInv, NEW c \in Clients, Pending(c)
  PROVE  out[c][Current(c)] < tries[c]
<1>1. Position(c) > Len(results[c])
  BY CurrentIsNew DEF Position
<1>2. QED
  BY <1>1, CurrentIsNew DEF Current, IInv, ClientInv, OncePerCall, Pending

\* The outbox or the server has the mail, and its result is recorded.
LEMMA SendPreserves ==
  ASSUME IInv, NEW c \in Clients, Send(c)
  PROVE  IInv'
<1> USE DEF IInv
<1>1. Pending(c) /\ pc[c] = "sending"
  BY DEF Send, Pending
<1>2. /\ out' = [out EXCEPT ![c][Current(c)] = out[c][Current(c)] + 1]
      /\ results' = [results EXCEPT ![c] = Append(results[c], TRUE)]
      /\ UNCHANGED <<backend, pc, call, answer, tries, told, unclear>>
  BY DEF Send, GoesOut, Record, TypeOK
<1>3. out[c][Current(c)] \in Nat /\ out[c][Current(c)] + 1 <= tries[c] /\ tries[c] <= MaxTries
  BY <1>1, CurrentIsNew, CurrentIsFree, KnownIsOut
<1>4. /\ results'[c] = Append(results[c], TRUE)
      /\ results'[c] \in Seq(BOOLEAN) /\ Len(results'[c]) = Len(results[c]) + 1
      /\ Succeeded(c)' = Succeeded(c) \union {Current(c)}
  BY <1>1, <1>2, OneMoreResult
<1>5. /\ out'[c][Current(c)] = out[c][Current(c)] + 1
      /\ \A m \in Mails \ {Current(c)} : out'[c][m] = out[c][m]
  BY <1>1, <1>2, CurrentIsNew DEF TypeOK, Counts
<1>6. TypeOK'
  <2>1. out' \in [Clients -> Counts]
    BY <1>1, <1>2, <1>3, CurrentIsNew, EmailAssumption DEF TypeOK, Counts
  <2>2. results' \in [Clients -> Seq(BOOLEAN)]
    BY <1>2, <1>4 DEF TypeOK
  <2>3. \A d \in Clients : pc[d] # "idle" =>
          call[d] \in CallType /\ Len(results'[d]) <= Len(call[d].mails)
    <3>1. Len(results'[c]) <= Len(call[c].mails)
      BY <1>1, <1>4, CurrentIsNew
    <3>2. \A d \in Clients \ {c} : results'[d] = results[d]
      BY <1>2 DEF TypeOK
    <3>3. QED
      BY <3>1, <3>2 DEF TypeOK
  <2>4. QED
    BY <1>2, <2>1, <2>2, <2>3 DEF TypeOK
<1>7. ClientInv(c)'
  <2>1. CallIsFresh(c)'
    BY <1>2 DEF CallIsFresh, ClientInv
  <2>2. Account(c)'
    <3> SUFFICES ASSUME NEW m \in Mails
                 PROVE  out'[c][m] = unclear[c][m] + (IF Known(c, m)' THEN 1 ELSE 0)
      BY <1>2 DEF Account
    <3>1. CASE m = Current(c)
      <4>1. ~Known(c, m) /\ Known(c, m)'
        BY <1>1, <1>2, <1>4, <3>1, CurrentIsNew DEF Known
      <4>2. QED
        BY <1>5, <3>1, <4>1, KnownIsOut
    <3>2. CASE m # Current(c)
      <4>1. Known(c, m)' <=> Known(c, m)
        BY <1>2, <1>4, <3>2 DEF Known
      <4>2. QED
        BY <1>5, <3>2, <4>1, KnownIsOut
    <3>3. QED
      BY <3>1, <3>2
  <2>3. OncePerCall(c)'
    <3>1. \A m \in Mails : out'[c][m] <= tries[c]
      BY <1>3, <1>5, KnownIsOut
    <3>2. ASSUME NEW i \in DOMAIN call[c].mails, i > Len(results'[c])
          PROVE  out'[c][call[c].mails[i]] < tries[c]
      <4>1. call[c].mails[i] \in Mails /\ i > Len(results[c]) /\ i # Position(c)
        BY <1>1, <1>4, <3>2, CurrentIsNew DEF Position
      <4>2. call[c].mails[i] # Current(c)
        BY <1>1, <4>1, CurrentIsNew DEF Current, ClientInv, CallIsFresh, IsInjective
      <4>3. QED
        BY <1>1, <1>5, <4>1, <4>2 DEF ClientInv, OncePerCall
    <3>3. QED
      BY <1>2, <3>1, <3>2 DEF OncePerCall
  <2>4. QED
    BY <1>1, <1>2, <2>1, <2>2, <2>3 DEF ClientInv
<1>8. \A d \in Clients \ {c} : ClientInv(d)'
  <2>1. \A d \in Clients \ {c} : out'[d] = out[d] /\ results'[d] = results[d]
    BY <1>2 DEF TypeOK
  <2>2. QED
    BY <1>2, <2>1, UntouchedPreserves
<1>9. QED
  BY <1>2, <1>6, <1>7, <1>8

\* The effect of Unreported, spelt out.
LEMMA UnreportedEffect ==
  ASSUME IInv, NEW c \in Clients, NEW mails \in SUBSET Mails, Unreported(c, mails)
  PROVE  /\ unclear' = [unclear EXCEPT ![c] = unclear'[c]]
         /\ \A m \in Mails : unclear'[c][m] = IF m \in mails THEN unclear[c][m] + 1 ELSE unclear[c][m]
         /\ (\A m \in mails : unclear[c][m] < tries[c]) => unclear' \in [Clients -> Counts]
<1>1. unclear' = [unclear EXCEPT
        ![c] = [m \in Mails |-> IF m \in mails THEN unclear[c][m] + 1 ELSE unclear[c][m]]]
  BY DEF Unreported, IInv, TypeOK
<1>2. (\A m \in mails : unclear[c][m] < tries[c]) =>
        [m \in Mails |-> IF m \in mails THEN unclear[c][m] + 1 ELSE unclear[c][m]] \in Counts
  <2> DEFINE count == unclear[c]
  <2>1. count \in Counts
    BY DEF IInv, TypeOK
  <2> HIDE DEF count
  <2>2. (\A m \in mails : count[m] < tries[c]) =>
          [m \in Mails |-> IF m \in mails THEN count[m] + 1 ELSE count[m]] \in Counts
    BY <2>1, CountsType
  <2>3. QED
    BY <2>2 DEF count
<1>3. QED
  BY <1>1, <1>2 DEF IInv, TypeOK

\* The transport reports an error, rightly or not.
LEMMA SendFailsPreserves ==
  ASSUME IInv, NEW c \in Clients, SendFails(c)
  PROVE  IInv'
<1> USE DEF IInv
<1>1. Pending(c) /\ pc[c] = "sending"
  BY DEF SendFails, Pending
<1>2. /\ results' = [results EXCEPT ![c] = Append(results[c], FALSE)]
      /\ UNCHANGED <<backend, pc, call, answer, tries, told>>
  BY DEF SendFails, Record, TypeOK
<1>3. /\ out[c][Current(c)] \in Nat /\ out[c][Current(c)] + 1 <= tries[c] /\ tries[c] <= MaxTries
      /\ unclear[c][Current(c)] \in Nat /\ unclear[c][Current(c)] <= out[c][Current(c)]
  BY <1>1, CurrentIsNew, CurrentIsFree, KnownIsOut
<1>4. /\ results'[c] = Append(results[c], FALSE)
      /\ results'[c] \in Seq(BOOLEAN) /\ Len(results'[c]) = Len(results[c]) + 1
      /\ Succeeded(c)' = Succeeded(c)
  BY <1>1, <1>2, OneMoreResult
<1>5. /\ out' \in [Clients -> Counts] /\ unclear' \in [Clients -> Counts]
      /\ \A d \in Clients \ {c} : out'[d] = out[d] /\ unclear'[d] = unclear[d]
      /\ \A m \in Mails \ {Current(c)} : out'[c][m] = out[c][m] /\ unclear'[c][m] = unclear[c][m]
      /\ \/ /\ out'[c][Current(c)] = out[c][Current(c)] + 1
            /\ unclear'[c][Current(c)] = unclear[c][Current(c)] + 1
         \/ /\ out'[c][Current(c)] = out[c][Current(c)]
            /\ unclear'[c][Current(c)] = unclear[c][Current(c)]
  <2>1. CASE GoesOut(c) /\ Unreported(c, {Current(c)})
    <3>1. /\ out' \in [Clients -> Counts]
          /\ out'[c][Current(c)] = out[c][Current(c)] + 1
          /\ \A d \in Clients \ {c} : out'[d] = out[d]
          /\ \A m \in Mails \ {Current(c)} : out'[c][m] = out[c][m]
      BY <1>1, <1>3, <2>1, CurrentIsNew, EmailAssumption DEF GoesOut, TypeOK, Counts
    <3>2. {Current(c)} \in SUBSET Mails /\ unclear[c][Current(c)] < tries[c]
      <4>1. tries[c] \in Nat
        BY EmailAssumption DEF TypeOK
      <4>2. QED
        BY <1>1, <1>3, <4>1, CurrentIsNew
    <3>3. /\ unclear' \in [Clients -> Counts]
          /\ unclear'[c][Current(c)] = unclear[c][Current(c)] + 1
          /\ \A m \in Mails \ {Current(c)} : unclear'[c][m] = unclear[c][m]
          /\ \A d \in Clients \ {c} : unclear'[d] = unclear[d]
      BY <2>1, <3>2, UnreportedEffect DEF TypeOK
    <3>4. QED
      BY <3>1, <3>3
  <2>2. CASE UNCHANGED <<out, unclear>>
    BY <2>2 DEF TypeOK
  <2>3. QED
    BY <2>1, <2>2 DEF SendFails
<1>6. TypeOK'
  <2>1. results' \in [Clients -> Seq(BOOLEAN)]
    BY <1>2, <1>4 DEF TypeOK
  <2>2. \A d \in Clients : pc[d] # "idle" =>
          call[d] \in CallType /\ Len(results'[d]) <= Len(call[d].mails)
    <3>1. Len(results'[c]) <= Len(call[c].mails)
      BY <1>1, <1>4, CurrentIsNew
    <3>2. \A d \in Clients \ {c} : results'[d] = results[d]
      BY <1>2 DEF TypeOK
    <3>3. QED
      BY <3>1, <3>2 DEF TypeOK
  <2>3. QED
    BY <1>2, <1>5, <2>1, <2>2 DEF TypeOK
<1>7. ClientInv(c)'
  <2>1. CallIsFresh(c)'
    BY <1>2 DEF CallIsFresh, ClientInv
  <2>2. Account(c)'
    <3> SUFFICES ASSUME NEW m \in Mails
                 PROVE  out'[c][m] = unclear'[c][m] + (IF Known(c, m) THEN 1 ELSE 0)
      BY <1>2, <1>4 DEF Account, Known
    <3>1. QED
      BY <1>5, KnownIsOut
  <2>3. OncePerCall(c)'
    <3>1. \A m \in Mails : out'[c][m] <= tries[c]
      BY <1>3, <1>5, KnownIsOut
    <3>2. ASSUME NEW i \in DOMAIN call[c].mails, i > Len(results'[c])
          PROVE  out'[c][call[c].mails[i]] < tries[c]
      <4>1. call[c].mails[i] \in Mails /\ i > Len(results[c]) /\ i # Position(c)
        BY <1>1, <1>4, <3>2, CurrentIsNew DEF Position
      <4>2. call[c].mails[i] # Current(c)
        BY <1>1, <4>1, CurrentIsNew DEF Current, ClientInv, CallIsFresh, IsInjective
      <4>3. QED
        BY <1>1, <1>5, <4>1, <4>2 DEF ClientInv, OncePerCall
    <3>3. QED
      BY <1>2, <3>1, <3>2 DEF OncePerCall
  <2>4. QED
    BY <1>1, <1>2, <2>1, <2>2, <2>3 DEF ClientInv
<1>8. \A d \in Clients \ {c} : ClientInv(d)'
  <2>1. \A d \in Clients \ {c} : results'[d] = results[d]
    BY <1>2 DEF TypeOK
  <2>2. QED
    BY <1>2, <1>5, <2>1, UntouchedPreserves
<1>9. QED
  BY <1>2, <1>6, <1>7, <1>8

\* What a handler has sent and not told is lost to its client when the handler ends.
LEMMA SucceededIsKnown ==
  ASSUME IInv, NEW c \in Clients, pc[c] = "sending"
  PROVE  /\ Succeeded(c) \in SUBSET Mails
         /\ \A m \in Succeeded(c) : m \notin told[c] /\ unclear[c][m] < tries[c]
<1>1. /\ call[c] \in CallType /\ results[c] \in Seq(BOOLEAN)
      /\ Len(results[c]) <= Len(call[c].mails)
  BY DEF IInv, TypeOK
<1>2. \A m \in Succeeded(c) : m \in Mails /\ m \notin told[c]
  BY <1>1 DEF Succeeded, CallType, IInv, ClientInv, CallIsFresh
<1>3. \A m \in Succeeded(c) : unclear[c][m] < tries[c]
  BY <1>2, KnownIsOut DEF Known
<1>4. QED
  BY <1>2, <1>3

\* The end of a call that tells its client nothing: what it has sent is in doubt, and
\* so is a mail that was with the server by then.
LEMMA EndPreserves ==
  ASSUME IInv, NEW c \in Clients, pc[c] = "sending", NEW point \in {"answered", "dropped"},
         pc' = [pc EXCEPT ![c] = point], answer' \in [Clients -> {"ok", "bad", "error", Nil}],
         NEW mails \in SUBSET Mails, Unreported(c, mails), Succeeded(c) \subseteq mails,
         \A m \in mails : unclear[c][m] < tries[c],
         out' \in [Clients -> Counts], \A d \in Clients \ {c} : out'[d] = out[d],
         \A m \in Mails : out'[c][m] = IF m \in mails \ Succeeded(c) THEN out[c][m] + 1 ELSE out[c][m],
         \A m \in mails \ Succeeded(c) : m \notin told[c] /\ out[c][m] < tries[c],
         UNCHANGED <<backend, call, results, tries, told>>
  PROVE  IInv'
<1> USE DEF IInv
<1>1. /\ unclear' \in [Clients -> Counts]
      /\ \A m \in Mails : unclear'[c][m] = IF m \in mails THEN unclear[c][m] + 1 ELSE unclear[c][m]
      /\ \A d \in Clients \ {c} : unclear'[d] = unclear[d]
  BY UnreportedEffect DEF TypeOK
<1>2. TypeOK'
  BY <1>1 DEF TypeOK
<1>3. ClientInv(c)'
  <2>1. pc'[c] # "sending" /\ pc'[c] # "idle"
    BY DEF TypeOK
  <2>2. Account(c)'
    <3> SUFFICES ASSUME NEW m \in Mails
                 PROVE  out'[c][m] = unclear'[c][m] + (IF m \in told[c] THEN 1 ELSE 0)
      BY <2>1 DEF Account, Known
    <3>1. CASE m \in Succeeded(c)
      BY <1>1, <3>1, KnownIsOut, SucceededIsKnown DEF Known
    <3>2. CASE m \notin Succeeded(c)
      BY <1>1, <3>2, KnownIsOut DEF Known
    <3>3. QED
      BY <3>1, <3>2
  <2>3. OncePerCall(c)'
    BY <2>1, KnownIsOut DEF OncePerCall
  <2>4. QED
    BY <2>1, <2>2, <2>3 DEF ClientInv, CallIsFresh
<1>4. \A d \in Clients \ {c} : ClientInv(d)'
  <2>1. \A d \in Clients \ {c} : pc'[d] = pc[d]
    BY DEF TypeOK
  <2>2. QED
    BY <1>1, <2>1, UntouchedPreserves
<1>5. QED
  BY <1>2, <1>3, <1>4

\* The batch is given up.
LEMMA RefusePreserves ==
  ASSUME IInv, NEW c \in Clients, Refuse(c)
  PROVE  IInv'
<1>1. /\ pc[c] = "sending" /\ pc' = [pc EXCEPT ![c] = "answered"]
      /\ Unreported(c, Succeeded(c))
      /\ UNCHANGED <<backend, call, results, tries, told, out>>
  BY DEF Refuse, Answer, Pending
<1>2. answer' \in [Clients -> {"ok", "bad", "error", Nil}]
  BY DEF Refuse, Answer, IInv, TypeOK
<1>3. out' \in [Clients -> Counts]
  BY <1>1 DEF IInv, TypeOK
<1>4. QED
  BY <1>1, <1>2, <1>3, SucceededIsKnown, EndPreserves

\* The handler is dropped, with or without a mail under way.
LEMMA DropPreserves ==
  ASSUME IInv, NEW c \in Clients, Drop(c)
  PROVE  IInv'
<1>1. /\ pc[c] = "sending" /\ pc' = [pc EXCEPT ![c] = "dropped"]
      /\ UNCHANGED <<backend, call, results, answer, tries, told>>
  BY DEF Drop
<1>2. answer' \in [Clients -> {"ok", "bad", "error", Nil}] /\ out \in [Clients -> Counts]
  BY <1>1 DEF IInv, TypeOK
<1>3. CASE Unreported(c, Succeeded(c)) /\ UNCHANGED out
  BY <1>1, <1>2, <1>3, SucceededIsKnown, EndPreserves
<1>4. CASE Pending(c) /\ GoesOut(c) /\ Unreported(c, Succeeded(c) \union {Current(c)})
  <2>1. /\ Current(c) \in Mails /\ Current(c) \notin Succeeded(c) /\ Current(c) \notin told[c]
        /\ out[c][Current(c)] < tries[c]
    BY <1>4, CurrentIsNew, CurrentIsFree
  <2>2. /\ out[c][Current(c)] + 1 \in 0..MaxTries
        /\ unclear[c][Current(c)] < tries[c]
    <3>1. /\ out[c][Current(c)] \in Nat /\ unclear[c][Current(c)] \in Nat
          /\ tries[c] \in Nat /\ tries[c] <= MaxTries
          /\ unclear[c][Current(c)] <= out[c][Current(c)]
      BY <2>1, KnownIsOut
    <3>2. QED
      BY <2>1, <3>1, EmailAssumption
  <2>3. /\ out' \in [Clients -> Counts]
        /\ \A d \in Clients \ {c} : out'[d] = out[d]
        /\ out'[c][Current(c)] = out[c][Current(c)] + 1
        /\ \A m \in Mails \ {Current(c)} : out'[c][m] = out[c][m]
    BY <1>2, <1>4, <2>1, <2>2 DEF GoesOut, Counts
  <2> DEFINE mails == Succeeded(c) \union {Current(c)}
  <2>4. mails \in SUBSET Mails /\ Succeeded(c) \subseteq mails /\ Unreported(c, mails)
    BY <1>1, <1>4, <2>1, SucceededIsKnown
  <2>5. \A m \in mails : unclear[c][m] < tries[c]
    BY <1>1, <2>2, SucceededIsKnown
  <2>6. \A m \in Mails : out'[c][m] = IF m \in mails \ Succeeded(c) THEN out[c][m] + 1 ELSE out[c][m]
    BY <2>1, <2>3
  <2>7. \A m \in mails \ Succeeded(c) : m \notin told[c] /\ out[c][m] < tries[c]
    BY <2>1
  <2>8. "dropped" \in {"answered", "dropped"}
    OBVIOUS
  <2> HIDE DEF mails
  <2>9. QED
    BY <1>1, <1>2, <2>3, <2>4, <2>5, <2>6, <2>7, <2>8, EndPreserves
<1>5. QED
  BY <1>3, <1>4 DEF Drop

\* The answer: what the handler knew, the client knows.
LEMMA ReportPreserves ==
  ASSUME IInv, NEW c \in Clients, Report(c)
  PROVE  IInv'
<1> USE DEF IInv
<1>1. /\ pc[c] = "sending" /\ pc' = [pc EXCEPT ![c] = "answered"]
      /\ told' = [told EXCEPT ![c] = told[c] \union Succeeded(c)]
      /\ UNCHANGED <<backend, call, results, tries, out, unclear>>
  BY DEF Report, Answer, TypeOK
<1>2. answer' \in [Clients -> {"ok", "bad", "error", Nil}]
  BY DEF Report, Answer, TypeOK
<1>3. Succeeded(c) \in SUBSET Mails
  BY <1>1, SucceededIsKnown
<1>4. TypeOK'
  BY <1>1, <1>2, <1>3 DEF TypeOK
<1>5. ClientInv(c)'
  <2>1. pc'[c] = "answered" /\ told'[c] = told[c] \union Succeeded(c)
    BY <1>1 DEF TypeOK
  <2>2. Account(c)'
    <3> SUFFICES ASSUME NEW m \in Mails
                 PROVE  out[c][m] = unclear[c][m] + (IF m \in told'[c] THEN 1 ELSE 0)
      BY <1>1, <2>1 DEF Account, Known
    <3>1. m \in told'[c] <=> Known(c, m)
      BY <1>1, <2>1 DEF Known
    <3>2. QED
      BY <3>1, KnownIsOut
  <2>3. OncePerCall(c)'
    BY <1>1, <2>1 DEF OncePerCall, ClientInv
  <2>4. QED
    BY <2>1, <2>2, <2>3 DEF ClientInv, CallIsFresh
<1>6. \A d \in Clients \ {c} : ClientInv(d)'
  <2>1. \A d \in Clients \ {c} : pc'[d] = pc[d] /\ told'[d] = told[d]
    BY <1>1 DEF TypeOK
  <2>2. QED
    BY <1>1, <2>1, UntouchedPreserves
<1>7. QED
  BY <1>1, <1>4, <1>5, <1>6

\* A stuttering step changes nothing.
LEMMA StutterPreserves ==
  ASSUME IInv, UNCHANGED vars
  PROVE  IInv'
<1>1. TypeOK' /\ DOMAIN call' = Clients
  BY DEF IInv, TypeOK, vars, handler
<1>2. \A d \in Clients : ClientInv(d)'
  BY UntouchedPreserves DEF IInv, vars, handler
<1>3. QED
  BY <1>1, <1>2 DEF IInv

-----------------------------------------------------------------------------
(* The theorems *)

\* Every step preserves the inductive invariant.
LEMMA NextPreserves == IInv /\ [Next]_vars => IInv'
BY InvokePreserves, RetryPreserves, SendPreserves, SendFailsPreserves, RefusePreserves,
   ReportPreserves, DropPreserves, StutterPreserves DEF Next, Step

\* The inductive invariant holds in every reachable state.
THEOREM Invariance == Spec => []IInv
BY InitIInv, NextPreserves, PTL DEF Spec

\* Types: no mail has more results than one, and none goes out more often than its
\* client has called.
THEOREM TypeCorrect == Spec => []TypeOK
<1>1. IInv => TypeOK
  BY DEF IInv
<1>2. QED
  BY <1>1, Invariance, PTL

\* What a client was told is sent has gone out, over any number of attempts.
THEOREM NoFalseSuccess == Spec => []ToldIsSent
<1>1. IInv => ToldIsSent
  <2> SUFFICES ASSUME IInv, NEW c \in Clients, NEW m \in told[c]
               PROVE  out[c][m] > 0
    BY DEF ToldIsSent
  <2>1. m \in Mails /\ Known(c, m)
    BY DEF IInv, TypeOK, Known
  <2>2. QED
    BY <2>1, KnownIsOut
<1>2. QED
  BY <1>1, Invariance, PTL

\* Mails are sent twice only when they went out before without a word: for any batch,
\* any failures and any number of repetitions (send_batch, SmtpBackend::send).
THEOREM DuplicatesAreInDoubt == Spec => []TwiceOnlyInDoubt
<1>1. IInv => TwiceOnlyInDoubt
  BY KnownIsOut DEF TwiceOnlyInDoubt, Known
<1>2. QED
  BY <1>1, Invariance, PTL
=============================================================================
