------------------------ MODULE SecretStores_proofs ------------------------
(***************************************************************************)
(* Theorems about secrets, for every set of backends, names, requests and  *)
(* calls.  The inductive invariant ties together what a request asks of    *)
(* the store, the status on its way back, what the client is told, and     *)
(* whether the store has done it; on this rest an account of the creates   *)
(* that succeed, the mark of an unfinished create, and the reasons of      *)
(* every denial.                                                           *)
(***************************************************************************)
EXTENDS SecretStores, FiniteSetTheorems, TLAPS

Versions == Seq(Requests \union {Gone})
Changing == {"create", "update", "delete"}
Questions == {"exists"} \union Listings
Taking == {"create", "add", "write", "delete"}

\* The state, with the domains of its functions.
Shape ==
  /\ TypeOK
  /\ backend \in {"memory", "vault", "aws", "gcp"}
  /\ store \in [Names -> Versions \union {Nil}]
  /\ call \in [Requests -> CallType \union {Nil}]

\* A request that has not begun has done nothing, and one that has, has its call.
Begun(r) ==
  /\ pc[r] = "idle" => asked[r] = Nil /\ reply[r] = Nil /\ outcome[r] = Nil /\ r \notin took
  /\ pc[r] # "idle" => call[r] \in CallType

\* What is on its way to the store is not done yet, and nothing has come of it.
Asking(r) ==
  asked[r] # Nil =>
    /\ backend # "memory" /\ reply[r] = Nil /\ r \notin took /\ outcome[r] \in {Nil, "error"}
    /\ \/ asked[r] = Verb(call[r]) /\ pc[r] # "version"
       \/ asked[r] = "add" /\ backend = "gcp" /\ call[r].op = "create" /\ pc[r] # "call"

\* What comes back says whether it is done.
Replied(r) ==
  reply[r] # Nil =>
    /\ Active(r) /\ backend # "memory"
    /\ reply[r] = "ok" /\ ~CreatesVersion(r) /\ call[r].op \in Changing => r \in took
    /\ reply[r] # "ok" => r \notin took
    /\ reply[r] = "exists" => pc[r] = "call"

\* Calls that have changed nothing so far.
Untaken(r) == pc[r] = "call" /\ (CreatesVersion(r) \/ backend = "memory") => r \notin took

\* What the client is told is true, and told once.
Told(r) ==
  /\ pc[r] # "answered" => outcome[r] = Nil
  /\ outcome[r] = "ok" /\ call[r].op \in Changing => r \in took
  /\ outcome[r] \in {"bad", "missing"} => r \notin took /\ asked[r] = Nil

RequestInv(r) == Begun(r) /\ Asking(r) /\ Replied(r) /\ Untaken(r) /\ Told(r)

\* A create that has made the secret and will not be told that it exists.
Marks(r, n) ==
  /\ Creates(r, n) /\ r \notin took /\ outcome[r] \notin {"ok", "bad"}
  /\ pc[r] = "call" => reply[r] = "ok"

ShellInv(n) == store[n] = <<>> => backend = "gcp" /\ \E r \in Requests : Marks(r, n)

\* The creates that have the secret for their own: they are told so, or may be yet.
Winners(n) ==
  {r \in Requests : Creates(r, n) /\ \/ pc[r] = "call" /\ reply[r] = "ok"
                                     \/ pc[r] = "version"
                                     \/ outcome[r] = "ok"}

\* All but one of them are paid for by a removal, and all if the secret is not there.
Paid(n) ==
  backend # "vault" =>
    /\ IsFiniteSet(Winners(n))
    /\ Cardinality(Winners(n)) <= removals[n] + (IF store[n] = Nil THEN 0 ELSE 1)

Saw(r, condition) == condition \in seen[r]
SawOther(r, condition) == \E d \in seen[r] : d # condition

\* The history of a call has the present, and the reason of the status on its way back.
SeenInv(r) ==
  Active(r) =>
    /\ Saw(r, Condition(store[call[r].name]))
    /\ reply[r] = "missing" =>
         /\ call[r].op \in Changing => Saw(r, "none")
         /\ call[r].op = "get" => SawOther(r, "value")
         /\ call[r].op \in Questions => SawOther(r, "value")
    /\ reply[r] = "exists" => SawOther(r, "none")
    /\ reply[r] = "ok" /\ call[r].op \in Questions => SawOther(r, "none")

IInv ==
  /\ Shape
  /\ \A r \in Requests : RequestInv(r) /\ SeenInv(r)
  /\ \A n \in Names : ShellInv(n) /\ Paid(n)

-----------------------------------------------------------------------------
(* Lemmas *)

\* No constant of the model is taken for another.
LEMMA NilIsNothing ==
  /\ Nil \notin Versions /\ Nil \notin CallType /\ Nil # <<>>
  /\ Nil \notin Verbs /\ Nil \notin Statuses /\ Nil \notin Outcomes
<1>1. <<>> \in Versions
  BY DEF Versions
<1>2. QED
  BY <1>1, SecretsAssumption DEF Versions

\* The verbs of the tables.
LEMMA VerbOfCall ==
  ASSUME NEW c \in CallType, backend \in {"memory", "vault", "aws", "gcp"}
  PROVE  /\ Verb(c) \in Verbs /\ Verb(c) # Nil
         /\ Verb(c) = "write" <=> backend = "vault" /\ c.op \in {"create", "update"}
         /\ Verb(c) = "create_empty" <=> backend = "gcp" /\ c.op = "create"
         /\ c.op = "create" => Verb(c) \in {"create", "create_empty", "write"}
         /\ Verb(c) = "create" => c.op = "create"
         /\ c.op = "update" => Verb(c) \in {"add", "write"}
         /\ c.op = "delete" => Verb(c) = "delete"
         /\ Verb(c) = "delete" => c.op = "delete"
         /\ c.op = "get" => Verb(c) = "get"
         /\ c.op = "exists" => Verb(c) \in {"get", "describe"}
         /\ Verb(c) = "list" <=> c.op \in Listings
<1> USE DEF Listings
<1>1. c.op \in {"get", "exists", "list", "search", "create", "update", "delete"}
  BY DEF CallType
<1>2. CASE backend = "memory"
  <2>1. Verb(c) = MemoryAsks[c.op]
    BY <1>2 DEF Verb
  <2>2. QED
    BY <1>1, <1>2, <2>1, NilIsNothing DEF MemoryAsks, Verbs
<1>3. CASE backend = "vault"
  <2>1. Verb(c) = VaultAsks[c.op]
    BY <1>3 DEF Verb
  <2>2. QED
    BY <1>1, <1>3, <2>1, NilIsNothing DEF VaultAsks, Verbs
<1>4. CASE backend = "aws"
  <2>1. Verb(c) = AwsAsks[c.op]
    BY <1>4 DEF Verb
  <2>2. QED
    BY <1>1, <1>4, <2>1, NilIsNothing DEF AwsAsks, Verbs
<1>5. CASE backend = "gcp"
  <2>1. Verb(c) = GcpAsks[c.op]
    BY <1>5 DEF Verb
  <2>2. QED
    BY <1>1, <1>5, <2>1, NilIsNothing DEF GcpAsks, Verbs
<1>6. QED
  BY <1>2, <1>3, <1>4, <1>5

\* A secret with one more version has a version.
LEMMA OneMoreVersion ==
  ASSUME NEW S, NEW s \in Seq(S), NEW e \in S
  PROVE  Append(s, e) \in Seq(S) /\ Append(s, e) # <<>> /\ Front(s) \in Seq(S)
<1>1. Append(s, e) \in Seq(S) /\ Len(Append(s, e)) = Len(s) + 1 /\ Len(s) \in Nat
  OBVIOUS
<1>2. Len(<<>>) = 0
  OBVIOUS
<1>3. Append(s, e) # <<>>
  BY <1>1, <1>2
<1>4. Front(s) \in Seq(S)
  BY DEF Front
<1>5. QED
  BY <1>1, <1>3, <1>4

\* What the store does for a request, and to its own secret only.
LEMMA ServesEffect ==
  ASSUME Shape, NEW r \in Requests, call[r] \in CallType, NEW verb \in Verbs, NEW status,
         Serves(r, verb, status)
  PROVE  /\ call[r].name \in Names
         /\ store' \in [Names -> Versions \union {Nil}]
         /\ \A m \in Names \ {call[r].name} : store'[m] = store[m]
         /\ status \in Statuses \ {"failed"}
         /\ status = Status(verb, store[call[r].name])
         /\ took' = took \union (IF status = "ok" /\ verb \in Taking THEN {r} ELSE {})
         /\ status = "ok" =>
              store'[call[r].name] = Stored(r, verb, store[call[r].name])
         /\ status # "ok" => store' = store
<1> DEFINE n == call[r].name
<1>1. n \in Names
  BY DEF CallType
<1>2. /\ status = Status(verb, store[n])
      /\ store' = IF status = "ok" THEN [store EXCEPT ![n] = Stored(r, verb, store[n])] ELSE store
      /\ took' = IF status = "ok" /\ verb \in Taking THEN took \union {r} ELSE took
  BY DEF Serves, Taking
<1>3. store[n] \in Versions \union {Nil} /\ DOMAIN store = Names
  BY <1>1 DEF Shape
<1>4. status \in Statuses \ {"failed"}
  BY <1>2 DEF Status, Statuses
<1>5. ASSUME status = "ok"
      PROVE  Stored(r, verb, store[n]) \in Versions \union {Nil}
  <2>1. CASE verb \in {"create", "create_empty", "get", "describe", "list"}
    BY <2>1, <1>3 DEF Stored, Versions
  <2>2. CASE verb \in {"add", "delete"} /\ store[n] = Nil
    BY <2>2, <1>2, <1>5 DEF Status, Stored
  <2>3. CASE verb \in {"add", "delete"} /\ store[n] # Nil
    <3>2. store[n] \in Seq(Requests \union {Gone})
      BY <2>3, <1>3 DEF Versions
    <3>3. Append(store[n], r) \in Versions
      BY <3>2 DEF Versions
    <3>4. Front(store[n]) \in Seq(Requests \union {Gone})
      BY <3>2 DEF Front
    <3>5. Append(Front(store[n]), Gone) \in Versions
      BY <3>4 DEF Versions
    <3>6. QED
      BY <2>3, <3>3, <3>5 DEF Stored
  <2>4. CASE verb = "write"
    BY <2>4, <1>3 DEF Stored, Versions
  <2>5. QED
    BY <2>1, <2>2, <2>3, <2>4 DEF Verbs
<1>6. store' \in [Names -> Versions \union {Nil}]
  BY <1>1, <1>2, <1>5, <1>3 DEF Shape
<1>7. status = "ok" => store'[n] = Stored(r, verb, store[n])
  BY <1>1, <1>2, <1>3
<1>8. \A m \in Names \ {n} : store'[m] = store[m]
  BY <1>2, <1>3
<1>9. QED
  BY <1>1, <1>2, <1>4, <1>6, <1>7, <1>8

\* When a served secret comes to be, ceases to be, or is left without a version.
LEMMA ServedSecret ==
  ASSUME Shape, NEW r \in Requests, call[r] \in CallType, NEW verb \in Verbs, NEW status,
         Serves(r, verb, status), verb = "write" => backend = "vault",
         verb = "create_empty" => backend = "gcp",
         backend # "gcp" => store[call[r].name] # <<>>
  PROVE  /\ store'[call[r].name] = <<>> =>
              \/ verb = "create_empty" /\ status = "ok"
              \/ store'[call[r].name] = store[call[r].name] /\ ~(status = "ok" /\ verb \in Taking)
         /\ store[call[r].name] = Nil /\ store'[call[r].name] # Nil /\ backend # "vault" =>
              verb \in {"create", "create_empty"}
         /\ verb \in {"create", "create_empty"} /\ status = "ok" =>
              store[call[r].name] = Nil /\ store'[call[r].name] # Nil
<1> DEFINE n == call[r].name
<1>1. /\ store[n] \in Versions \union {Nil} /\ n \in Names
      /\ status \in Statuses \ {"failed"} /\ status = Status(verb, store[n])
      /\ status = "ok" => store'[n] = Stored(r, verb, store[n])
      /\ status # "ok" => store' = store
  BY ServesEffect DEF Shape
<1>2. CASE status # "ok"
  BY <1>1, <1>2
<1>3. CASE status = "ok"
  <2>1. store'[n] = Stored(r, verb, store[n])
    BY <1>1, <1>3
  <2>2. CASE verb \in {"create", "create_empty"}
    <3>1. store[n] = Nil
      BY <1>1, <1>3, <2>2 DEF Status
    <3>2. <<r>> # <<>> /\ <<r>> \in Versions /\ <<>> \in Versions
      BY DEF Versions
    <3>3. store'[n] # Nil
      BY <2>1, <2>2, <3>2, NilIsNothing DEF Stored
    <3>4. store'[n] = <<>> => verb = "create_empty"
      BY <2>1, <2>2, <3>2 DEF Stored
    <3>5. QED
      BY <1>3, <2>2, <3>1, <3>3, <3>4
  <2>3. CASE verb \in {"add", "delete"} /\ store[n] = Nil
    <3>1. verb = "delete" /\ store'[n] = Nil
      BY <1>1, <1>3, <2>1, <2>3 DEF Status, Stored
    <3>2. QED
      BY <3>1, <2>3, NilIsNothing
  <2>4. CASE verb \in {"add", "delete"} /\ store[n] # Nil
    <3>1. store[n] # Nil /\ store[n] \in Seq(Requests \union {Gone})
      BY <1>1, <1>3, <2>4 DEF Status, Versions
    <3>2. Append(store[n], r) # <<>>
      BY <3>1, OneMoreVersion
    <3>3. Front(store[n]) \in Seq(Requests \union {Gone})
      BY <3>1, OneMoreVersion
    <3>4. Append(Front(store[n]), Gone) # <<>>
      BY <3>3, OneMoreVersion
    <3>5. store'[n] # <<>>
      BY <2>1, <2>4, <3>2, <3>4, NilIsNothing DEF Stored
    <3>6. QED
      BY <2>4, <3>1, <3>5
  <2>5. CASE verb = "write"
    <3> DEFINE before == IF store[n] = Nil THEN <<>> ELSE store[n]
    <3>1. before \in Seq(Requests \union {Gone}) /\ r \in Requests \union {Gone}
      BY <1>1 DEF Versions
    <3>2. store'[n] = Append(before, r)
      BY <2>1, <2>5 DEF Stored
    <3>3. store'[n] # <<>>  /\ status = "ok"
      <4> HIDE DEF before
      <4>1. QED
        BY <3>1, <3>2, <1>3, OneMoreVersion
    <3>4. QED
      BY <3>3, <2>5
  <2>6. CASE verb \in {"get", "describe", "list"}
    <3>1. store'[n] = store[n] /\ verb \notin Taking
      BY <2>1, <2>6 DEF Stored, Taking
    <3>2. QED
      BY <2>6, <3>1
  <2>7. QED
    BY <2>2, <2>3, <2>4, <2>5, <2>6 DEF Verbs
<1>4. QED
  BY <1>2, <1>3

\* A step that is about request r alone.
Touches(r) ==
  /\ backend' = backend
  /\ \A q \in Requests \ {r} :
       /\ pc'[q] = pc[q] /\ call'[q] = call[q] /\ asked'[q] = asked[q]
       /\ reply'[q] = reply[q] /\ outcome'[q] = outcome[q]
       /\ q \in took' <=> q \in took

\* The others keep what is said of them.
LEMMA OthersKeep ==
  ASSUME NEW r \in Requests, Touches(r), NEW q \in Requests \ {r}
  PROVE  /\ RequestInv(q) => RequestInv(q)'
         /\ \A n \in Names : Marks(q, n) <=> Marks(q, n)'
         /\ \A n \in Names : q \in Winners(n)' => q \in Winners(n)
<1>1. /\ pc'[q] = pc[q] /\ call'[q] = call[q] /\ asked'[q] = asked[q]
      /\ reply'[q] = reply[q] /\ outcome'[q] = outcome[q] /\ backend' = backend
      /\ q \in took' <=> q \in took
  BY DEF Touches
<1>2. \A n \in Names : Creates(q, n)' <=> Creates(q, n)
  BY <1>1 DEF Creates
<1>3. \A n \in Names : Marks(q, n) <=> Marks(q, n)'
  BY <1>1, <1>2 DEF Marks
<1>4. \A n \in Names : q \in Winners(n)' => q \in Winners(n)
  BY <1>1, <1>2 DEF Winners
<1>5. ASSUME RequestInv(q) PROVE RequestInv(q)'
  <2>1. Begun(q)'
    BY <1>1, <1>5 DEF RequestInv, Begun
  <2>2. Asking(q)'
    <3>1. Verb(call[q])' = Verb(call[q])
      BY <1>1 DEF Verb
    <3>2. QED
      BY <1>1, <1>5, <3>1 DEF RequestInv, Asking
  <2>3. Replied(q)' /\ Untaken(q)'
    BY <1>1, <1>5 DEF RequestInv, Replied, Untaken, Active, CreatesVersion
  <2>4. Told(q)'
    BY <1>1, <1>5 DEF RequestInv, Told
  <2>5. QED
    BY <2>1, <2>2, <2>3, <2>4 DEF RequestInv
<1>6. QED
  BY <1>3, <1>4, <1>5

\* Whatever happens to the secret, the account has room for the winners it had, and for
\* one more if the secret comes to be.
LEMMA PaidStep ==
  ASSUME Shape, NEW n \in Names, Paid(n), Observe, backend' = backend, NEW r \in Requests,
         \/ Winners(n)' \subseteq Winners(n)
         \/ Winners(n)' \subseteq Winners(n) \union {r} /\ store[n] = Nil /\ store'[n] # Nil
         \/ backend = "vault"
  PROVE  Paid(n)'
<1> SUFFICES ASSUME backend # "vault" PROVE Paid(n)'
  BY DEF Paid
<1>1. /\ removals[n] \in Nat
      /\ removals'[n] = removals[n] + (IF store[n] # Nil /\ store'[n] = Nil THEN 1 ELSE 0)
  BY DEF Shape, TypeOK, Observe
<1> DEFINE W == Winners(n)
<1> DEFINE V == Winners(n)'
<1>2. /\ IsFiniteSet(W) /\ Cardinality(W) \in Nat
      /\ Cardinality(W) <= removals[n] + (IF store[n] = Nil THEN 0 ELSE 1)
  BY FS_CardinalityType DEF Paid
<1>3. /\ IsFiniteSet(W \union {r}) /\ Cardinality(W \union {r}) \in Nat
      /\ Cardinality(W \union {r}) <= Cardinality(W) + 1
  <2> HIDE DEF W
  <2>1. IsFiniteSet(W)
    BY <1>2
  <2>2. /\ IsFiniteSet(W \union {r})
        /\ Cardinality(W \union {r}) = IF r \in W THEN Cardinality(W) ELSE Cardinality(W) + 1
    BY <2>1, FS_AddElement
  <2>3. QED
    BY <1>2, <2>2
<1>4. CASE V \subseteq W
  <2>1. IsFiniteSet(V) /\ Cardinality(V) \in Nat /\ Cardinality(V) <= Cardinality(W)
    <3> HIDE DEF V, W
    <3>1. QED
      BY <1>2, <1>4, FS_Subset, FS_CardinalityType
  <2>2. Cardinality(V) <= removals'[n] + (IF store'[n] = Nil THEN 0 ELSE 1)
    <3> HIDE DEF V, W
    <3>1. QED
      BY <1>1, <1>2, <2>1
  <2>3. QED
    BY <2>1, <2>2 DEF Paid
<1>5. CASE V \subseteq W \union {r} /\ store[n] = Nil /\ store'[n] # Nil
  <2>1. IsFiniteSet(V) /\ Cardinality(V) \in Nat /\ Cardinality(V) <= Cardinality(W) + 1
    <3> HIDE DEF V, W
    <3>1. Cardinality(V) <= Cardinality(W \union {r}) /\ IsFiniteSet(V)
      BY <1>3, <1>5, FS_Subset
    <3>2. QED
      BY <3>1, <1>2, <1>3, FS_CardinalityType
  <2>2. Cardinality(V) <= removals'[n] + (IF store'[n] = Nil THEN 0 ELSE 1)
    <3> HIDE DEF V, W
    <3>1. QED
      BY <1>1, <1>2, <1>5, <2>1
  <2>3. QED
    BY <2>1, <2>2 DEF Paid
<1>6. QED
  BY <1>4, <1>5

\* The history of a call grows, and its reasons with it.
LEMMA SeenKept ==
  ASSUME Shape, NEW q \in Requests, SeenInv(q), Observe, backend' = backend,
         Active(q)' => \/ Active(q) /\ call'[q] = call[q] /\ reply'[q] = reply[q]
                       \/ reply'[q] = Nil
  PROVE  SeenInv(q)'
<1> SUFFICES ASSUME Active(q)' PROVE SeenInv(q)'
  BY DEF SeenInv
<1>1. seen'[q] = seen[q] \union {Condition(store'[call'[q].name])}
  BY DEF Observe
<1>2. Saw(q, Condition(store[call[q].name]))'
  BY <1>1 DEF Saw
<1>3. CASE reply'[q] = Nil
  BY <1>2, <1>3, NilIsNothing DEF SeenInv, Statuses
<1>4. CASE Active(q) /\ call'[q] = call[q] /\ reply'[q] = reply[q]
  <2>1. \A d : Saw(q, d) => Saw(q, d)'
    BY <1>1 DEF Saw
  <2>2. \A d : SawOther(q, d) => SawOther(q, d)'
    BY <1>1 DEF SawOther
  <2>3. QED
    BY <1>2, <1>4, <2>1, <2>2 DEF SeenInv
<1>5. QED
  BY <1>3, <1>4

\* A step of one request that leaves the store alone.
LEMMA QuietStep ==
  ASSUME IInv, NEW r \in Requests, Touches(r), Observe, Shape', store' = store,
         RequestInv(r)',
         \A n \in Names : Marks(r, n) => Marks(r, n)',
         \A n \in Names : r \in Winners(n)' => r \in Winners(n),
         Active(r)' => \/ Active(r) /\ call'[r] = call[r] /\ reply'[r] = reply[r]
                       \/ reply'[r] = Nil
  PROVE  IInv'
<1>1. backend' = backend
  BY DEF Touches
<1>2. \A q \in Requests : RequestInv(q)'
  BY OthersKeep DEF IInv
<1>3. \A q \in Requests : SeenInv(q)'
  <2> TAKE q \in Requests
  <2>1. Active(q)' => \/ Active(q) /\ call'[q] = call[q] /\ reply'[q] = reply[q]
                      \/ reply'[q] = Nil
    BY DEF Touches, Active
  <2>2. QED
    BY <1>1, <2>1, SeenKept DEF IInv
<1>4. \A n \in Names : ShellInv(n)'
  <2>1. \A n \in Names, q \in Requests : Marks(q, n) => Marks(q, n)'
    BY OthersKeep
  <2>2. QED
    BY <1>1, <2>1 DEF IInv, ShellInv
<1>5. \A n \in Names : Paid(n)'
  <2> TAKE n \in Names
  <2>1. Winners(n)' \subseteq Requests
    BY DEF Winners
  <2>2. Winners(n)' \subseteq Winners(n)
    BY <2>1, OthersKeep
  <2>3. QED
    BY <1>1, <2>2, PaidStep DEF IInv
<1>6. QED
  BY <1>2, <1>3, <1>4, <1>5 DEF IInv

-----------------------------------------------------------------------------
(* One lemma for each action *)

\* The initial states: no request, no secret.
LEMMA InitIInv == Init => IInv
<1> SUFFICES ASSUME Init PROVE IInv
  OBVIOUS
<1>1. Shape
  BY SecretsAssumption DEF Init, Shape, TypeOK, Conditions
<1>2. \A r \in Requests : RequestInv(r) /\ SeenInv(r)
  <2> TAKE r \in Requests
  <2>1. /\ pc[r] = "idle" /\ asked[r] = Nil /\ reply[r] = Nil /\ outcome[r] = Nil
        /\ r \notin took
    BY DEF Init
  <2>2. RequestInv(r)
    BY <2>1, NilIsNothing DEF RequestInv, Begun, Asking, Replied, Untaken, Told, Outcomes
  <2>3. SeenInv(r)
    BY <2>1 DEF SeenInv, Active
  <2>4. QED
    BY <2>2, <2>3
<1>3. \A n \in Names : ShellInv(n)
  BY NilIsNothing DEF Init, ShellInv
<1>4. \A n \in Names : Paid(n)
  <2> TAKE n \in Names
  <2>1. Winners(n) = {}
    BY DEF Init, Winners, Creates
  <2>2. removals[n] = 0 /\ store[n] = Nil
    BY DEF Init
  <2>3. QED
    BY <2>1, <2>2, FS_EmptySet DEF Paid
<1>5. QED
  BY <1>1, <1>2, <1>3, <1>4 DEF IInv

\* The history keeps its type.
LEMMA ObserveType ==
  ASSUME Shape, Observe
  PROVE  removals' \in [Names -> Nat] /\ seen' \in [Requests -> SUBSET Conditions]
<1>1. removals' \in [Names -> Nat]
  BY DEF Shape, TypeOK, Observe
<1>2. \A versions : Condition(versions) \in Conditions
  BY DEF Condition, Conditions
<1>3. seen' \in [Requests -> SUBSET Conditions]
  BY <1>2 DEF Shape, TypeOK, Observe
<1>4. QED
  BY <1>1, <1>3

\* A call is made.
LEMMA InvokePreserves ==
  ASSUME IInv, NEW r \in Requests, NEW c \in Calls[r], Invoke(r, c), Observe
  PROVE  IInv'
<1> USE DEF IInv
<1>1. /\ pc[r] = "idle" /\ pc' = [pc EXCEPT ![r] = "call"] /\ call' = [call EXCEPT ![r] = c]
      /\ asked' = [asked EXCEPT ![r] = IF backend = "memory" THEN Nil ELSE Verb(c)]
      /\ UNCHANGED <<backend, store, reply, outcome, took>>
  BY DEF Invoke, Goto
<1>2. c \in CallType /\ Verb(c) \in Verbs /\ Verb(c) # Nil
  BY SecretsAssumption, VerbOfCall DEF Shape
<1>3. /\ pc'[r] = "call" /\ call'[r] = c /\ reply'[r] = Nil /\ outcome'[r] = Nil
      /\ r \notin took' /\ asked'[r] = IF backend = "memory" THEN Nil ELSE Verb(c)
  BY <1>1 DEF Shape, TypeOK, RequestInv, Begun
<1>4. Touches(r)
  BY <1>1 DEF Touches, Shape, TypeOK
<1>5. Shape'
  <2>1. asked' \in [Requests -> Verbs \union {Nil}]
    BY <1>1, <1>2 DEF Shape, TypeOK
  <2>2. /\ call' \in [Requests -> CallType \union {Nil}]
        /\ \A q \in Requests : call'[q] \in Calls[q] \union {Nil}
    BY <1>1, <1>2 DEF Shape, TypeOK
  <2>3. \A q \in Requests :
          /\ pc'[q] = "version" => backend' = "gcp" /\ call'[q].op = "create"
          /\ backend' # "memory" /\ pc'[q] \in {"call", "version"} =>
               (asked'[q] = Nil) # (reply'[q] = Nil)
    <3> TAKE q \in Requests
    <3>1. CASE q = r
      BY <1>1, <1>2, <1>3, <3>1
    <3>2. CASE q # r
      BY <1>4, <3>2 DEF Touches, Shape, TypeOK
    <3>3. QED
      BY <3>1, <3>2
  <2>4. QED
    BY <1>1, <2>1, <2>2, <2>3, ObserveType DEF Shape, TypeOK
<1>6. RequestInv(r)'
  <2>1. Begun(r)' /\ Replied(r)' /\ Untaken(r)' /\ Told(r)'
    BY <1>2, <1>3, NilIsNothing DEF Begun, Replied, Untaken, Told, Outcomes
  <2>2. Verb(c)' = Verb(c)
    BY <1>1 DEF Verb
  <2>3. Asking(r)'
    BY <1>1, <1>3, <2>2 DEF Asking
  <2>4. QED
    BY <2>1, <2>3 DEF RequestInv
<1>7. \A n \in Names : Marks(r, n) => Marks(r, n)'
  BY <1>1 DEF Marks, Creates
<1>8. \A n \in Names : r \in Winners(n)' => r \in Winners(n)
  BY <1>3, NilIsNothing DEF Winners, Statuses, Outcomes
<1>9. QED
  BY <1>1, <1>3, <1>4, <1>5, <1>6, <1>7, <1>8, QuietStep

\* A request is lost.
LEMMA LosePreserves ==
  ASSUME IInv, NEW r \in Requests, Lose(r), Observe
  PROVE  IInv'
<1> USE DEF IInv
<1>1. /\ asked[r] # Nil /\ ~Active(r) /\ asked' = [asked EXCEPT ![r] = Nil]
      /\ UNCHANGED <<backend, store, pc, call, reply, outcome, took>>
  BY DEF Lose
<1>2. asked'[r] = Nil
  BY <1>1 DEF Shape, TypeOK
<1>3. Touches(r)
  BY <1>1 DEF Touches, Shape, TypeOK
<1>4. Shape'
  <2>1. asked' \in [Requests -> Verbs \union {Nil}]
    BY <1>1 DEF Shape, TypeOK
  <2>2. \A q \in Requests : backend' # "memory" /\ pc'[q] \in {"call", "version"} =>
          (asked'[q] = Nil) # (reply'[q] = Nil)
    BY <1>1, <1>3 DEF Touches, Shape, TypeOK, Active
  <2>3. QED
    BY <1>1, <2>1, <2>2, ObserveType DEF Shape, TypeOK
<1>5. RequestInv(r)'
  BY <1>1, <1>2 DEF RequestInv, Begun, Asking, Replied, Untaken, Told, Active, CreatesVersion
<1>6. \A n \in Names : Marks(r, n) => Marks(r, n)'
  BY <1>1 DEF Marks, Creates
<1>7. \A n \in Names : r \in Winners(n)' => r \in Winners(n)
  BY <1>1 DEF Winners, Creates
<1>8. Active(r)' => FALSE
  BY <1>1 DEF Active
<1>9. QED
  BY <1>1, <1>3, <1>4, <1>5, <1>6, <1>7, <1>8, QuietStep

\* The handler is dropped, or loses its connection.
LEMMA AbandonPreserves ==
  ASSUME IInv, NEW r \in Requests, Disconnect(r) \/ Drop(r), Observe
  PROVE  IInv'
<1> USE DEF IInv
<1>1. /\ Active(r) /\ reply' = [reply EXCEPT ![r] = Nil]
      /\ UNCHANGED <<backend, store, call, asked, took>>
      /\ \/ /\ pc' = [pc EXCEPT ![r] = "answered"]
            /\ outcome' = [outcome EXCEPT ![r] = "error"]
         \/ /\ pc' = [pc EXCEPT ![r] = "dropped"]
            /\ outcome' = outcome
  BY DEF Disconnect, Drop, Answer, Goto
<1>2. /\ reply'[r] = Nil /\ pc[r] \in {"call", "version"}
      /\ outcome[r] = Nil
      /\ \/ pc'[r] = "answered" /\ outcome'[r] = "error"
         \/ pc'[r] = "dropped" /\ outcome'[r] = Nil
  BY <1>1 DEF Active, Shape, TypeOK, RequestInv, Told
<1>3. Touches(r)
  BY <1>1 DEF Touches, Shape, TypeOK
<1>4. Shape'
  <2>1. /\ pc' \in [Requests -> {"idle", "call", "version", "answered", "dropped"}]
        /\ reply' \in [Requests -> Statuses \union {Nil}]
        /\ outcome' \in [Requests -> Outcomes \union {Nil}]
    BY <1>1 DEF Shape, TypeOK, Outcomes
  <2>2. \A q \in Requests :
          /\ pc'[q] = "version" => backend' = "gcp" /\ call'[q].op = "create"
          /\ backend' # "memory" /\ pc'[q] \in {"call", "version"} =>
               (asked'[q] = Nil) # (reply'[q] = Nil)
    BY <1>1, <1>2, <1>3 DEF Touches, Shape, TypeOK
  <2>3. QED
    BY <1>1, <2>1, <2>2, ObserveType DEF Shape, TypeOK
<1>5. RequestInv(r)'
  <2>1. Begun(r)' /\ Replied(r)' /\ Untaken(r)' /\ Told(r)'
    BY <1>1, <1>2, NilIsNothing DEF RequestInv, Begun, Replied, Untaken, Told, Outcomes,
       CreatesVersion
  <2>2. Verb(call[r])' = Verb(call[r])
    BY <1>1 DEF Verb
  <2>3. Asking(r)'
    BY <1>1, <1>2, <2>2 DEF RequestInv, Asking
  <2>4. QED
    BY <2>1, <2>3 DEF RequestInv
<1>6. \A n \in Names : Marks(r, n) => Marks(r, n)'
  BY <1>1, <1>2, NilIsNothing DEF Marks, Creates, Outcomes
<1>7. \A n \in Names : r \in Winners(n)' => r \in Winners(n)
  BY <1>1, <1>2, NilIsNothing DEF Winners, Creates, Outcomes
<1>8. QED
  BY <1>1, <1>2, <1>3, <1>4, <1>5, <1>6, <1>7, QuietStep

\* What a status becomes.
LEMMA AnswerOfStatus ==
  ASSUME NEW c \in CallType, NEW status \in Statuses
  PROVE  /\ AnswerTo(c, status) \in Outcomes
         /\ AnswerTo(c, status) = "ok" => status = "ok" /\ c.op \notin Questions
         /\ AnswerTo(c, status) = "bad" => status = "exists" /\ c.op = "create"
         /\ AnswerTo(c, status) = "missing" =>
              status = "missing" /\ c.op \in {"get", "update", "delete"}
         /\ AnswerTo(c, status) = "yes" => status \in {"ok", "glued"} /\ c.op \in Questions
         /\ AnswerTo(c, status) = "no" =>
              /\ c.op \in Questions
              /\ \/ status \in {"missing", "unlisted"}
                 \/ c.op = "exists" /\ backend = "gcp" /\ status = "failed"
<1> USE DEF Questions, Listings
<1>1. c.op \in {"get", "exists", "list", "search", "create", "update", "delete"}
  BY DEF CallType
<1>2. CASE c.op \in Questions
  BY <1>2 DEF AnswerTo, Statuses, Outcomes
<1>3. CASE c.op = "create"
  BY <1>3 DEF AnswerTo, Statuses, Outcomes
<1>4. CASE c.op \in {"get", "update", "delete"}
  BY <1>4 DEF AnswerTo, Statuses, Outcomes
<1>5. QED
  BY <1>1, <1>2, <1>3, <1>4

\* The response arrives.
LEMMA RespondPreserves ==
  ASSUME IInv, NEW r \in Requests, Respond(r), Observe
  PROVE  IInv'
<1> USE DEF IInv
<1>1. /\ Active(r) /\ reply[r] # Nil /\ reply' = [reply EXCEPT ![r] = Nil]
      /\ UNCHANGED <<backend, store, call, took>>
  BY DEF Respond
<1>2. /\ RequestInv(r) /\ pc[r] \in {"call", "version"} /\ asked[r] = Nil /\ outcome[r] = Nil
      /\ call[r] \in CallType /\ reply[r] \in Statuses /\ reply'[r] = Nil
  BY <1>1 DEF Active, Shape, TypeOK, RequestInv, Begun, Asking, Told
<1>3. CASE CreatesVersion(r) /\ reply[r] = "ok"
  <2>1. /\ pc' = [pc EXCEPT ![r] = "version"] /\ asked' = [asked EXCEPT ![r] = "add"]
        /\ outcome' = outcome
    BY <1>3 DEF Respond, Goto
  <2>2. /\ pc'[r] = "version" /\ asked'[r] = "add" /\ outcome'[r] = Nil /\ r \notin took
        /\ pc[r] = "call" /\ backend = "gcp" /\ call[r].op = "create" /\ "add" # Nil
    BY <1>2, <1>3, <2>1, NilIsNothing
       DEF Shape, TypeOK, RequestInv, Untaken, CreatesVersion, Verbs
  <2>3. Touches(r)
    BY <1>1, <2>1 DEF Touches, Shape, TypeOK
  <2>4. Shape'
    <3>1. asked' \in [Requests -> Verbs \union {Nil}]
      BY <2>1 DEF Shape, TypeOK, Verbs
    <3>2. /\ pc' \in [Requests -> {"idle", "call", "version", "answered", "dropped"}]
          /\ reply' \in [Requests -> Statuses \union {Nil}]
      BY <1>1, <2>1 DEF Shape, TypeOK
    <3>3. \A q \in Requests :
            /\ pc'[q] = "version" => backend' = "gcp" /\ call'[q].op = "create"
            /\ backend' # "memory" /\ pc'[q] \in {"call", "version"} =>
                 (asked'[q] = Nil) # (reply'[q] = Nil)
      BY <1>1, <1>2, <2>2, <2>3 DEF Touches, Shape, TypeOK
    <3>4. QED
      BY <1>1, <2>1, <3>1, <3>2, <3>3, ObserveType DEF Shape, TypeOK
  <2>5. RequestInv(r)'
    BY <1>1, <1>2, <2>2, NilIsNothing
       DEF RequestInv, Begun, Asking, Replied, Untaken, Told, Outcomes, CreatesVersion
  <2>6. \A n \in Names : Marks(r, n) => Marks(r, n)'
    BY <1>1, <2>1, <2>2 DEF Marks, Creates
  <2>7. \A n \in Names : r \in Winners(n)' => r \in Winners(n)
    BY <1>1, <1>3, <2>2 DEF Winners, Creates
  <2>8. QED
    BY <1>1, <1>2, <2>3, <2>4, <2>5, <2>6, <2>7, QuietStep
<1>4. CASE ~(CreatesVersion(r) /\ reply[r] = "ok")
  <2> DEFINE a == AnswerTo(call[r], reply[r])
  <2>1. /\ pc' = [pc EXCEPT ![r] = "answered"] /\ outcome' = [outcome EXCEPT ![r] = a]
        /\ asked' = asked
    BY <1>4 DEF Respond, Answer, Goto
  <2>2. pc'[r] = "answered" /\ outcome'[r] = a /\ asked'[r] = Nil
    BY <1>2, <2>1 DEF Shape, TypeOK
  <2>3. /\ a \in Outcomes
        /\ a = "ok" => reply[r] = "ok"
        /\ a = "bad" => reply[r] = "exists" /\ call[r].op = "create"
        /\ a = "missing" => reply[r] = "missing"
    BY <1>2, AnswerOfStatus
  <2> HIDE DEF a
  <2>4. /\ reply[r] = "ok" /\ call[r].op \in Changing => r \in took
        /\ reply[r] # "ok" => r \notin took
        /\ reply[r] = "exists" => pc[r] = "call"
    BY <1>1, <1>2, <1>4 DEF RequestInv, Replied
  <2>5. Touches(r)
    BY <1>1, <2>1 DEF Touches, Shape, TypeOK
  <2>6. Shape'
    <3>1. /\ pc' \in [Requests -> {"idle", "call", "version", "answered", "dropped"}]
          /\ reply' \in [Requests -> Statuses \union {Nil}]
          /\ outcome' \in [Requests -> Outcomes \union {Nil}]
      BY <1>1, <2>1, <2>3 DEF Shape, TypeOK
    <3>2. \A q \in Requests :
            /\ pc'[q] = "version" => backend' = "gcp" /\ call'[q].op = "create"
            /\ backend' # "memory" /\ pc'[q] \in {"call", "version"} =>
                 (asked'[q] = Nil) # (reply'[q] = Nil)
      BY <1>1, <2>2, <2>5 DEF Touches, Shape, TypeOK
    <3>3. QED
      BY <1>1, <2>1, <3>1, <3>2, ObserveType DEF Shape, TypeOK
  <2>7. RequestInv(r)'
    <3>1. Begun(r)' /\ Asking(r)' /\ Replied(r)' /\ Untaken(r)'
      BY <1>1, <1>2, <2>2 DEF Begun, Asking, Replied, Untaken, CreatesVersion
    <3>2. Told(r)'
      BY <1>1, <2>2, <2>3, <2>4 DEF Told
    <3>3. QED
      BY <3>1, <3>2 DEF RequestInv
  <2>8. \A n \in Names : Marks(r, n) => Marks(r, n)'
    <3>1. ASSUME NEW n \in Names, Marks(r, n) PROVE Marks(r, n)'
      <4>1. call[r].op = "create" /\ r \notin took /\ (pc[r] = "call" => reply[r] = "ok")
        BY <3>1 DEF Marks, Creates
      <4>2. reply[r] # "ok" /\ reply[r] # "exists"
        BY <1>2, <2>4, <4>1 DEF Changing
      <4>3. QED
        BY <1>1, <2>2, <2>3, <3>1, <4>2 DEF Marks, Creates
    <3>2. QED
      BY <3>1
  <2>9. \A n \in Names : r \in Winners(n)' => r \in Winners(n)
    BY <1>1, <1>2, <2>2, <2>3 DEF Winners, Creates
  <2>10. QED
    BY <1>1, <1>2, <2>5, <2>6, <2>7, <2>8, <2>9, QuietStep
<1>5. QED
  BY <1>3, <1>4

\* The memory backend: a whole call.
LEMMA LockedPreserves ==
  ASSUME IInv, NEW r \in Requests, Locked(r), Observe
  PROVE  IInv'
<1> USE DEF IInv
<1>1. /\ pc[r] = "call" /\ backend = "memory"
      /\ UNCHANGED <<backend, call, asked, reply>>
  BY DEF Locked
<1>2. PICK status \in Statuses :
        /\ Serves(r, Verb(call[r]), status)
        /\ Answer(r, AnswerTo(call[r], status))
  BY DEF Locked
<1>3. /\ RequestInv(r) /\ call[r] \in CallType /\ r \notin took
      /\ asked[r] = Nil /\ reply[r] = Nil /\ outcome[r] = Nil
  BY <1>1 DEF RequestInv, Begun, Asking, Replied, Untaken, Told
<1> DEFINE n == call[r].name
<1> DEFINE a == AnswerTo(call[r], status)
<1>4. /\ pc' = [pc EXCEPT ![r] = "answered"] /\ outcome' = [outcome EXCEPT ![r] = a]
  BY <1>2 DEF Answer, Goto
<1>5. pc'[r] = "answered" /\ outcome'[r] = a
  BY <1>4 DEF Shape, TypeOK
<1>6. /\ Verb(call[r]) \in Verbs /\ Verb(call[r]) # "write" /\ Verb(call[r]) # "create_empty"
      /\ call[r].op \in Changing => Verb(call[r]) \in Taking
      /\ call[r].op = "create" => Verb(call[r]) = "create"
  BY <1>1, <1>3, VerbOfCall DEF Shape, Changing, Taking
<1>7. /\ n \in Names /\ store' \in [Names -> Versions \union {Nil}]
      /\ \A m \in Names \ {n} : store'[m] = store[m]
      /\ took' = took \union (IF status = "ok" /\ Verb(call[r]) \in Taking THEN {r} ELSE {})
  BY <1>2, <1>3, <1>6, ServesEffect
<1>8. \A m \in Names : store[m] # <<>>
  BY <1>1 DEF ShellInv
<1>9. /\ store'[n] # <<>>
      /\ Verb(call[r]) = "create" /\ status = "ok" => store[n] = Nil /\ store'[n] # Nil
  BY <1>1, <1>2, <1>3, <1>6, <1>7, <1>8, ServedSecret
<1>10. /\ a \in Outcomes
       /\ a = "ok" => status = "ok"
       /\ a \in {"bad", "missing"} => status # "ok"
  BY <1>3, AnswerOfStatus
<1> HIDE DEF a, n
<1>11. Touches(r)
  BY <1>1, <1>4, <1>7 DEF Touches, Shape, TypeOK
<1>12. Shape'
  <2>1. /\ pc' \in [Requests -> {"idle", "call", "version", "answered", "dropped"}]
        /\ outcome' \in [Requests -> Outcomes \union {Nil}]
    BY <1>4, <1>10 DEF Shape, TypeOK
  <2>2. \A m \in Names : store'[m] # Nil => store'[m] \in Seq(Requests \union {Gone})
    BY <1>7 DEF Versions
  <2>3. took' \subseteq Requests
    BY <1>7 DEF Shape, TypeOK
  <2>4. \A q \in Requests :
          /\ pc'[q] = "version" => backend' = "gcp" /\ call'[q].op = "create"
          /\ backend' # "memory" /\ pc'[q] \in {"call", "version"} =>
               (asked'[q] = Nil) # (reply'[q] = Nil)
    BY <1>1, <1>5, <1>11 DEF Touches, Shape, TypeOK
  <2>5. QED
    BY <1>1, <1>7, <2>1, <2>2, <2>3, <2>4, ObserveType DEF Shape, TypeOK
<1>13. RequestInv(r)'
  <2>1. Begun(r)' /\ Asking(r)' /\ Replied(r)' /\ Untaken(r)'
    BY <1>1, <1>3, <1>5 DEF Begun, Asking, Replied, Untaken, CreatesVersion
  <2>2. Told(r)'
    BY <1>1, <1>3, <1>5, <1>6, <1>7, <1>10 DEF Told
  <2>3. QED
    BY <2>1, <2>2 DEF RequestInv
<1>14. \A q \in Requests : RequestInv(q)'
  BY <1>11, <1>13, OthersKeep
<1>15. \A q \in Requests : SeenInv(q)'
  <2> TAKE q \in Requests
  <2>1. Active(q)' => Active(q) /\ call'[q] = call[q] /\ reply'[q] = reply[q]
    BY <1>5, <1>11 DEF Touches, Active
  <2>2. QED
    BY <1>1, <2>1, SeenKept
<1>16. \A m \in Names : ShellInv(m)'
  <2>1. \A m \in Names : store'[m] # <<>>
    BY <1>7, <1>8, <1>9
  <2>2. QED
    BY <2>1 DEF ShellInv
<1>17. \A m \in Names : Paid(m)'
  <2> TAKE m \in Names
  <2>1. Winners(m)' \subseteq Winners(m) \union {r}
    <3>1. Winners(m)' \subseteq Requests
      BY DEF Winners
    <3>2. QED
      BY <3>1, <1>11, OthersKeep
  <2>2. CASE r \in Winners(m)'
    <3>1. call[r].name = m /\ call[r].op = "create" /\ outcome'[r] = "ok"
      BY <1>1, <1>5, <2>2 DEF Winners, Creates
    <3>2. store[m] = Nil /\ store'[m] # Nil
      BY <3>1, <1>5, <1>6, <1>9, <1>10 DEF n
    <3>3. QED
      BY <1>1, <2>1, <3>2, PaidStep
  <2>3. CASE r \notin Winners(m)'
    BY <1>1, <2>1, <2>3, PaidStep
  <2>4. QED
    BY <2>2, <2>3
<1>18. QED
  BY <1>12, <1>14, <1>15, <1>16, <1>17

\* What a request to a remote store may ask for.
LEMMA AskedVerb ==
  ASSUME Shape, NEW r \in Requests, RequestInv(r), asked[r] # Nil
  PROVE  /\ call[r] \in CallType /\ asked[r] \in Verbs /\ backend # "memory"
         /\ pc[r] # "idle" /\ reply[r] = Nil /\ r \notin took /\ outcome[r] \in {Nil, "error"}
         /\ asked[r] = "write" => backend = "vault"
         /\ asked[r] = "create_empty" => backend = "gcp" /\ call[r].op = "create"
         /\ pc[r] = "version" => asked[r] = "add"
         /\ call[r].op = "create" /\ pc[r] = "call" =>
              asked[r] = (IF backend = "gcp" THEN "create_empty"
                          ELSE IF backend = "vault" THEN "write" ELSE "create")
         /\ call[r].op \in {"update", "delete"} => asked[r] \in {"add", "write", "delete"}
         /\ call[r].op = "get" => asked[r] = "get"
         /\ call[r].op = "exists" => asked[r] \in {"get", "describe"}
         /\ asked[r] = "list" <=> call[r].op \in Listings
<1>1. /\ asked[r] \in Verbs /\ pc[r] # "idle" /\ call[r] \in CallType
      /\ backend # "memory" /\ reply[r] = Nil /\ r \notin took /\ outcome[r] \in {Nil, "error"}
      /\ \/ asked[r] = Verb(call[r]) /\ pc[r] # "version"
         \/ asked[r] = "add" /\ backend = "gcp" /\ call[r].op = "create" /\ pc[r] # "call"
  BY DEF Shape, TypeOK, RequestInv, Begun, Asking
<1>2. CASE asked[r] = Verb(call[r]) /\ pc[r] # "version"
  BY <1>1, <1>2, VerbOfCall DEF Shape
<1>3. CASE asked[r] = "add" /\ backend = "gcp" /\ call[r].op = "create" /\ pc[r] # "call"
  BY <1>1, <1>3 DEF Listings
<1>4. QED
  BY <1>1, <1>2, <1>3

\* A request is served, refused, or answered with a listing that says nothing of the
\* secret.
LEMMA ServePreserves ==
  ASSUME IInv, NEW r \in Requests, Serve(r), Observe
  PROVE  IInv'
<1> USE DEF IInv
<1>1. /\ asked[r] # Nil /\ asked' = [asked EXCEPT ![r] = Nil]
      /\ UNCHANGED <<backend, pc, call, outcome>>
  BY DEF Serve
<1>2. PICK status \in Statuses :
        /\ \/ Serves(r, asked[r], status)
           \/ status \in {"failed", "unlisted", "glued"} /\ UNCHANGED <<store, took>>
        /\ reply' = [reply EXCEPT ![r] = IF Active(r) THEN status ELSE Nil]
  BY DEF Serve
<1> DEFINE n == call[r].name
<1>3. /\ RequestInv(r) /\ call[r] \in CallType /\ asked[r] \in Verbs /\ backend # "memory"
      /\ pc[r] # "idle" /\ reply[r] = Nil /\ r \notin took /\ outcome[r] \in {Nil, "error"}
  BY <1>1, AskedVerb
<1>4. asked'[r] = Nil /\ reply'[r] = IF Active(r) THEN status ELSE Nil
  BY <1>1, <1>2 DEF Shape, TypeOK
<1>5. n \in Names /\ (backend # "gcp" => store[n] # <<>>)
  BY <1>3 DEF CallType, ShellInv
<1>6. /\ store' \in [Names -> Versions \union {Nil}]
      /\ \A m \in Names \ {n} : store'[m] = store[m]
      /\ status = "ok" => Serves(r, asked[r], status)
      /\ took' = took \union (IF status = "ok" /\ asked[r] \in Taking THEN {r} ELSE {})
  <2>1. CASE Serves(r, asked[r], status)
    BY <1>3, <2>1, ServesEffect
  <2>2. CASE status \in {"failed", "unlisted", "glued"} /\ UNCHANGED <<store, took>>
    BY <2>2 DEF Shape
  <2>3. QED
    BY <1>2, <2>1, <2>2
<1>7. /\ store'[n] = <<>> =>
           \/ asked[r] = "create_empty" /\ status = "ok"
           \/ store[n] = <<>> /\ took' = took
      /\ asked[r] \in {"create", "create_empty"} /\ status = "ok" =>
           store[n] = Nil /\ store'[n] # Nil
  <2>1. CASE Serves(r, asked[r], status)
    BY <1>1, <1>3, <1>5, <1>6, <2>1, AskedVerb, ServedSecret
  <2>2. CASE status \in {"failed", "unlisted", "glued"} /\ UNCHANGED <<store, took>>
    BY <2>2
  <2>3. QED
    BY <1>2, <2>1, <2>2
<1> HIDE DEF n
<1>8. Touches(r)
  BY <1>1, <1>2, <1>6 DEF Touches, Shape, TypeOK
<1>9. Shape'
  <2>1. /\ asked' \in [Requests -> Verbs \union {Nil}]
        /\ reply' \in [Requests -> Statuses \union {Nil}]
    BY <1>1, <1>2 DEF Shape, TypeOK
  <2>2. \A m \in Names : store'[m] # Nil => store'[m] \in Seq(Requests \union {Gone})
    BY <1>6 DEF Versions
  <2>3. took' \subseteq Requests
    BY <1>6 DEF Shape, TypeOK
  <2>4. \A q \in Requests :
          /\ pc'[q] = "version" => backend' = "gcp" /\ call'[q].op = "create"
          /\ backend' # "memory" /\ pc'[q] \in {"call", "version"} =>
               (asked'[q] = Nil) # (reply'[q] = Nil)
    BY <1>1, <1>4, <1>8, NilIsNothing DEF Touches, Shape, TypeOK, Active
  <2>5. QED
    BY <1>1, <1>6, <2>1, <2>2, <2>3, <2>4, ObserveType DEF Shape, TypeOK
<1>10. RequestInv(r)'
  <2>1. status # "ok" => took' = took
    BY <1>6
  <2>2. Begun(r)' /\ Asking(r)' /\ Told(r)'
    BY <1>1, <1>3, <1>4, NilIsNothing DEF RequestInv, Begun, Asking, Told, Outcomes
  <2>3. Untaken(r)'
    BY <1>1, <1>3, <1>6, AskedVerb DEF Untaken, CreatesVersion, Taking
  <2>4. Replied(r)'
    <3>1. Active(r) /\ status = "ok" /\ ~CreatesVersion(r) /\ call[r].op \in Changing =>
            asked[r] \in Taking
      BY <1>1, <1>3, AskedVerb DEF Active, CreatesVersion, Changing, Taking, Shape, TypeOK
    <3>2. Active(r) /\ status = "exists" => pc[r] = "call"
      <4>1. SUFFICES ASSUME Active(r), status = "exists", pc[r] = "version" PROVE FALSE
        BY DEF Active
      <4>2. asked[r] = "add" /\ Serves(r, asked[r], status)
        BY <1>1, <1>2, <1>3, <4>1, AskedVerb
      <4>3. QED
        BY <4>1, <4>2 DEF Serves, Status
    <3>3. QED
      BY <1>1, <1>3, <1>4, <1>6, <2>1, <3>1, <3>2 DEF Replied, Active, CreatesVersion
  <2>5. QED
    BY <2>2, <2>3, <2>4 DEF RequestInv
<1>11. \A q \in Requests : RequestInv(q)'
  BY <1>8, <1>10, OthersKeep
<1>12. \A m \in Names : ShellInv(m)'
  <2> SUFFICES ASSUME NEW m \in Names, store'[m] = <<>>
               PROVE  backend = "gcp" /\ \E q \in Requests : Marks(q, m)'
    BY <1>1 DEF ShellInv
  <2>1. CASE m = n /\ asked[r] = "create_empty" /\ status = "ok"
    <3>1. backend = "gcp" /\ call[r].op = "create" /\ took' = took
      BY <1>1, <1>3, <1>6, <2>1, AskedVerb DEF Taking
    <3>2. Marks(r, m)'
      BY <1>1, <1>3, <1>4, <2>1, <3>1, NilIsNothing
         DEF Marks, Creates, Active, n, Outcomes
    <3>3. QED
      BY <3>1, <3>2
  <2>2. CASE store[m] = <<>> /\ (m = n => took' = took)
    <3>1. PICK q \in Requests : Marks(q, m)
      BY <2>2 DEF ShellInv
    <3>2. CASE q = r
      <4>1. m = n /\ pc[r] # "call" /\ took' = took
        BY <1>3, <2>2, <3>1, <3>2, NilIsNothing DEF Marks, Creates, n, Statuses
      <4>2. Marks(r, m)'
        BY <1>1, <3>1, <3>2, <4>1 DEF Marks, Creates
      <4>3. QED
        BY <2>2, <4>2 DEF ShellInv
    <3>3. CASE q # r
      BY <1>8, <2>2, <3>1, <3>3, OthersKeep DEF ShellInv
    <3>4. QED
      BY <3>2, <3>3
  <2>3. QED
    BY <1>6, <1>7, <2>1, <2>2
<1>13. \A m \in Names : Paid(m)'
  <2> TAKE m \in Names
  <2>1. Winners(m)' \subseteq Winners(m) \union {r}
    <3>1. Winners(m)' \subseteq Requests
      BY DEF Winners
    <3>2. QED
      BY <3>1, <1>8, OthersKeep
  <2>2. CASE r \in Winners(m)' /\ r \notin Winners(m)
    <3>1. /\ pc[r] = "call" /\ status = "ok" /\ call[r].op = "create" /\ call[r].name = m
      BY <1>1, <1>4, <2>2, NilIsNothing DEF Winners, Creates, Statuses, Active
    <3>2. backend # "vault" => asked[r] \in {"create", "create_empty"}
      BY <1>1, <1>3, <3>1, AskedVerb
    <3>3. backend # "vault" => store[m] = Nil /\ store'[m] # Nil
      BY <1>7, <3>1, <3>2 DEF n
    <3>4. QED
      BY <1>1, <2>1, <3>3, PaidStep
  <2>3. CASE ~(r \in Winners(m)' /\ r \notin Winners(m))
    BY <1>1, <2>1, <2>3, PaidStep
  <2>4. QED
    BY <2>2, <2>3
<1>14. SeenInv(r)'
  <2> SUFFICES ASSUME Active(r) PROVE SeenInv(r)'
    BY <1>1 DEF SeenInv, Active
  <2>1. /\ reply'[r] = status
        /\ seen'[r] = seen[r] \union {Condition(store'[n])}
        /\ Condition(store[n]) \in seen[r]
    <3>1. Active(r)' /\ call'[r] = call[r]
      BY <1>1 DEF Active
    <3>2. seen'[r] = seen[r] \union {Condition(store'[n])}
      BY <3>1 DEF Observe, n
    <3>3. Condition(store[n]) \in seen[r]
      BY DEF SeenInv, Saw, n
    <3>4. QED
      BY <1>4, <3>2, <3>3
  <2>2. Condition(store[n]) \in seen'[r] /\ Saw(r, Condition(store[call[r].name]))'
    BY <1>1, <2>1 DEF Saw, n
  <2>3. /\ Condition(store[n]) = "none" <=> store[n] = Nil
        /\ store[n] = Nil => Condition(store[n]) # "value"
    BY DEF Condition
  <2>4. CASE Serves(r, asked[r], status)
    <3>1. status = Status(asked[r], store[n])
      BY <2>4 DEF Serves, n
    <3>2. /\ status = "missing" /\ call[r].op \in Changing => store[n] = Nil
          /\ status = "missing" /\ call[r].op \notin Changing => Condition(store[n]) # "value"
          /\ status = "exists" => store[n] # Nil
          /\ status = "ok" /\ call[r].op \in Questions => store[n] # Nil
      <4>1. /\ status = "missing" => asked[r] = "get" \/ store[n] = Nil
            /\ asked[r] = "get" /\ status = "missing" => Condition(store[n]) # "value"
            /\ asked[r] = "get" /\ status = "ok" => Condition(store[n]) = "value"
            /\ status = "exists" => store[n] # Nil
            /\ asked[r] \in {"describe", "list"} /\ status = "ok" => store[n] # Nil
        BY <3>1 DEF Status
      <4>2. /\ call[r].op \in Changing => asked[r] # "get"
            /\ call[r].op \in Questions => asked[r] \in {"get", "describe", "list"}
        BY <1>1, <1>3, <2>1, AskedVerb DEF Changing, Questions, Active
      <4>3. QED
        BY <2>3, <4>1, <4>2
    <3>3. QED
      BY <1>1, <2>1, <2>2, <2>3, <3>2 DEF SeenInv, Saw, SawOther, Changing, Questions, Listings
  <2>5. CASE status \in {"failed", "unlisted", "glued"}
    BY <1>1, <2>1, <2>2, <2>5 DEF SeenInv
  <2>6. QED
    BY <1>2, <2>4, <2>5
<1>15. \A q \in Requests \ {r} : SeenInv(q)'
  <2> TAKE q \in Requests \ {r}
  <2>1. Active(q)' => Active(q) /\ call'[q] = call[q] /\ reply'[q] = reply[q]
    BY <1>8 DEF Touches, Active
  <2>2. QED
    BY <1>1, <2>1, SeenKept
<1>16. QED
  BY <1>9, <1>11, <1>12, <1>13, <1>14, <1>15

\* Nothing happens.
LEMMA StutterPreserves ==
  ASSUME IInv, UNCHANGED vars
  PROVE  IInv'
<1>1. /\ backend' = backend /\ store' = store /\ pc' = pc /\ call' = call
      /\ asked' = asked /\ reply' = reply /\ outcome' = outcome /\ took' = took
      /\ removals' = removals /\ seen' = seen
  BY DEF vars, history
<1>2. Shape'
  BY <1>1 DEF IInv, Shape, TypeOK
<1>3. ASSUME NEW r \in Requests PROVE RequestInv(r)' /\ SeenInv(r)'
  <2>1. RequestInv(r) /\ SeenInv(r)
    BY DEF IInv
  <2>2. Begun(r)' /\ Replied(r)' /\ Untaken(r)' /\ Told(r)'
    BY <1>1, <2>1 DEF RequestInv, Begun, Replied, Untaken, Told, Active, CreatesVersion
  <2>3. Verb(call[r])' = Verb(call[r])
    BY <1>1 DEF Verb
  <2>4. Asking(r)'
    BY <1>1, <2>1, <2>3 DEF RequestInv, Asking
  <2>5. SeenInv(r)'
    BY <1>1, <2>1 DEF SeenInv, Active, Saw, SawOther
  <2>6. QED
    BY <2>2, <2>4, <2>5 DEF RequestInv
<1>4. ASSUME NEW n \in Names PROVE ShellInv(n)' /\ Paid(n)'
  <2>1. ShellInv(n) /\ Paid(n)
    BY DEF IInv
  <2>2. \A r \in Requests : Marks(r, n)' <=> Marks(r, n)
    BY <1>1 DEF Marks, Creates
  <2>3. ShellInv(n)'
    BY <1>1, <2>1, <2>2 DEF ShellInv
  <2>4. Winners(n)' = Winners(n)
    BY <1>1 DEF Winners, Creates
  <2>5. Paid(n)'
    BY <1>1, <2>1, <2>4 DEF Paid
  <2>6. QED
    BY <2>3, <2>5
<1>5. QED
  BY <1>2, <1>3, <1>4 DEF IInv

\* Every step.
LEMMA NextPreserves == IInv /\ [Next]_vars => IInv'
<1> SUFFICES ASSUME IInv, [Next]_vars PROVE IInv'
  OBVIOUS
<1>1. CASE UNCHANGED vars
  BY <1>1, StutterPreserves
<1>2. CASE Next
  <2>1. Observe
    BY <1>2 DEF Next
  <2>2. PICK r \in Requests :
          \/ \E c \in Calls[r] : Invoke(r, c)
          \/ Serve(r) \/ Lose(r)
          \/ Locked(r) \/ Respond(r) \/ Disconnect(r) \/ Drop(r)
    BY <1>2 DEF Next
  <2>3. CASE \E c \in Calls[r] : Invoke(r, c)
    BY <2>1, <2>3, InvokePreserves
  <2>4. CASE Serve(r)
    BY <2>1, <2>4, ServePreserves
  <2>5. CASE Lose(r)
    BY <2>1, <2>5, LosePreserves
  <2>6. CASE Locked(r)
    BY <2>1, <2>6, LockedPreserves
  <2>7. CASE Respond(r)
    BY <2>1, <2>7, RespondPreserves
  <2>8. CASE Disconnect(r) \/ Drop(r)
    BY <2>1, <2>8, AbandonPreserves
  <2>9. QED
    BY <2>2, <2>3, <2>4, <2>5, <2>6, <2>7, <2>8
<1>3. QED
  BY <1>1, <1>2

-----------------------------------------------------------------------------
(* Theorems *)

\* The invariant holds in every reachable state.
THEOREM Invariance == Spec => []IInv
<1>1. Init => IInv
  BY InitIInv
<1>2. IInv /\ [Next]_vars => IInv'
  BY NextPreserves
<1>3. QED
  BY <1>1, <1>2, PTL DEF Spec

\* The handlers, the requests on their way and the store keep their types.
THEOREM TypeCorrect == Spec => []TypeOK
<1>1. IInv => TypeOK
  BY DEF IInv, Shape
<1>2. QED
  BY <1>1, Invariance, PTL

\* Of several creates of one secret, one is told that it created it, and one more for
\* each removal: the check and the insertion are one step of the store.
THEOREM OneCreateWins == Spec => []CreateIsExclusive
<1>1. ASSUME IInv PROVE CreateIsExclusive
  <2> SUFFICES ASSUME backend # "vault", NEW n \in Names
               PROVE  Cardinality({r \in Requests : Creates(r, n) /\ outcome[r] = "ok"})
                        <= 1 + removals[n]
    BY DEF CreateIsExclusive
  <2> DEFINE told == {r \in Requests : Creates(r, n) /\ outcome[r] = "ok"}
  <2> DEFINE winners == Winners(n)
  <2>1. told \subseteq winners
    BY DEF Winners
  <2>2. /\ IsFiniteSet(winners) /\ removals[n] \in Nat
        /\ Cardinality(winners) <= removals[n] + (IF store[n] = Nil THEN 0 ELSE 1)
    BY <1>1 DEF IInv, Paid, Shape, TypeOK
  <2> HIDE DEF told, winners
  <2>3. /\ Cardinality(told) <= Cardinality(winners)
        /\ Cardinality(told) \in Nat /\ Cardinality(winners) \in Nat
    BY <2>1, <2>2, FS_Subset, FS_CardinalityType
  <2>4. Cardinality(told) <= 1 + removals[n]
    BY <2>2, <2>3
  <2>5. QED
    BY <2>4 DEF told
<1>2. QED
  BY <1>1, Invariance, PTL

\* "Created", "updated" and "deleted" are never said of what has not happened, nor
\* "already exists" and "not found" of what has happened or still may.
THEOREM NoFalseAnswer == Spec => []AnswersAreTrue
<1>1. IInv => AnswersAreTrue
  BY DEF IInv, RequestInv, Told, AnswersAreTrue, Changing
<1>2. QED
  BY <1>1, Invariance, PTL

\* A secret without a version is the trace of a create that has not succeeded.
THEOREM ShellMarksCreate == Spec => []ShellIsUnfinished
<1>1. IInv => ShellIsUnfinished
  BY DEF IInv, ShellInv, Marks, ShellIsUnfinished
<1>2. QED
  BY <1>1, Invariance, PTL

\* What an answer given in this step says of the secret was so at some moment of the call.
Justified(r) ==
  /\ outcome'[r] = "missing" =>
       "none" \in seen[r] \/ (call[r].op = "get" /\ seen[r] # {"value"})
  /\ outcome'[r] = "no" => \/ seen[r] # {"value"}
                           \/ call[r].op = "exists" /\ backend = "gcp" /\ reply[r] = "failed"
                           \/ reply[r] = "unlisted"
  /\ outcome'[r] = "bad" => seen[r] # {"none"}
  /\ outcome'[r] = "yes" => seen[r] # {"none"} \/ reply[r] = "glued"

\* The answer to a status that the history of the call explains is justified.
LEMMA ReasonOfAnswer ==
  ASSUME NEW r \in Requests, call[r] \in CallType, NEW status \in Statuses,
         outcome'[r] = AnswerTo(call[r], status),
         status = "missing" =>
           /\ call[r].op \in Changing => Saw(r, "none")
           /\ call[r].op = "get" => SawOther(r, "value")
           /\ call[r].op \in Questions => SawOther(r, "value"),
         status = "exists" => SawOther(r, "none"),
         status = "ok" /\ call[r].op \in Questions => SawOther(r, "none"),
         status \in {"failed", "unlisted", "glued"} => reply[r] = status
  PROVE  Justified(r)
<1> DEFINE a == AnswerTo(call[r], status)
<1>1. /\ a = "bad" => status = "exists" /\ call[r].op = "create"
      /\ a = "missing" => status = "missing" /\ call[r].op \in {"get", "update", "delete"}
      /\ a = "yes" => status \in {"ok", "glued"} /\ call[r].op \in Questions
      /\ a = "no" =>
           /\ call[r].op \in Questions
           /\ \/ status \in {"missing", "unlisted"}
              \/ call[r].op = "exists" /\ backend = "gcp" /\ status = "failed"
  BY AnswerOfStatus
<1> HIDE DEF a
<1>2. outcome'[r] = a
  BY DEF a
<1>3. \A d : SawOther(r, d) => seen[r] # {d}
  BY DEF SawOther
<1>4. a = "missing" => "none" \in seen[r] \/ (call[r].op = "get" /\ seen[r] # {"value"})
  BY <1>1, <1>3 DEF Changing, Saw
<1>5. a = "no" => \/ seen[r] # {"value"}
                  \/ call[r].op = "exists" /\ backend = "gcp" /\ reply[r] = "failed"
                  \/ reply[r] = "unlisted"
  BY <1>1, <1>3
<1>6. /\ a = "bad" => seen[r] # {"none"}
      /\ a = "yes" => seen[r] # {"none"} \/ reply[r] = "glued"
  BY <1>1, <1>3
<1>7. QED
  BY <1>2, <1>4, <1>5, <1>6 DEF Justified

\* Under the lock of the memory backend the history has the state that is answered from.
LEMMA LockedReason ==
  ASSUME IInv, NEW r \in Requests, Locked(r)
  PROVE  Justified(r)
<1>1. PICK status \in Statuses :
        /\ Serves(r, Verb(call[r]), status)
        /\ Answer(r, AnswerTo(call[r], status))
  BY DEF Locked
<1> DEFINE n == call[r].name
<1>2. pc[r] = "call" /\ backend = "memory" /\ call[r] \in CallType
  BY DEF Locked, IInv, RequestInv, Begun
<1>3. outcome'[r] = AnswerTo(call[r], status)
  BY <1>1 DEF Answer, IInv, Shape, TypeOK
<1>4. Condition(store[n]) \in seen[r]
  BY <1>2 DEF IInv, SeenInv, Saw, Active
<1>5. /\ Condition(store[n]) = "none" <=> store[n] = Nil
      /\ store[n] = Nil => Condition(store[n]) # "value"
  BY DEF Condition
<1>6. status = Status(Verb(call[r]), store[n])
  BY <1>1 DEF Serves
<1>7. Verb(call[r]) = MemoryAsks[call[r].op]
  BY <1>2 DEF Verb
<1>8. /\ call[r].op \in Changing => Verb(call[r]) # "get"
      /\ call[r].op = "get" => Verb(call[r]) = "get"
      /\ call[r].op \in Questions => Verb(call[r]) \in {"describe", "list"}
  BY <1>7 DEF MemoryAsks, Changing, Questions, Listings
<1>9. /\ status = "missing" /\ Verb(call[r]) # "get" => store[n] = Nil
      /\ status = "missing" => Condition(store[n]) # "value"
      /\ status = "exists" => store[n] # Nil
      /\ status = "ok" /\ Verb(call[r]) \in {"describe", "list"} => store[n] # Nil
      /\ status \notin {"failed", "unlisted", "glued"}
  BY <1>2, <1>5, <1>6 DEF Status
<1> HIDE DEF n
<1>10. /\ status = "missing" =>
            /\ call[r].op \in Changing => Saw(r, "none")
            /\ call[r].op = "get" => SawOther(r, "value")
            /\ call[r].op \in Questions => SawOther(r, "value")
       /\ status = "exists" => SawOther(r, "none")
       /\ status = "ok" /\ call[r].op \in Questions => SawOther(r, "none")
  BY <1>4, <1>5, <1>8, <1>9 DEF Saw, SawOther
<1>11. QED
  BY <1>2, <1>3, <1>9, <1>10, ReasonOfAnswer

\* Every denial, and every "yes", is right for some moment of its call, or comes from a
\* status that says nothing of the secret: a refused EXISTS over GCP, a page that does
\* not reach it, another directory of Vault.
THEOREM ReasonedDenials == Spec => DenialsAreJustified
<1>1. ASSUME IInv, Next, NEW r \in Requests, outcome'[r] # outcome[r]
      PROVE  Justified(r)
  <2>1. PICK q \in Requests :
          \/ \E c \in Calls[q] : Invoke(q, c)
          \/ Serve(q) \/ Lose(q)
          \/ Locked(q) \/ Respond(q) \/ Disconnect(q) \/ Drop(q)
    BY <1>1 DEF Next
  <2>2. Locked(q) \/ Respond(q) \/ Disconnect(q)
    BY <1>1, <2>1 DEF Invoke, Serve, Lose, Drop
  <2>3. q = r
    BY <1>1, <2>2 DEF Locked, Respond, Disconnect, Answer, IInv, Shape, TypeOK
  <2>4. CASE Locked(r)
    BY <1>1, <2>4, LockedReason
  <2>5. CASE Respond(r)
    <3>1. /\ Active(r) /\ reply[r] \in Statuses /\ call[r] \in CallType
          /\ Answer(r, AnswerTo(call[r], reply[r]))
      BY <1>1, <2>5 DEF Respond, Active, IInv, RequestInv, Begun, Shape, TypeOK
    <3>2. outcome'[r] = AnswerTo(call[r], reply[r])
      BY <1>1, <3>1 DEF Answer, IInv, Shape, TypeOK
    <3>3. SeenInv(r)
      BY <1>1 DEF IInv
    <3>4. QED
      BY <3>1, <3>2, <3>3, ReasonOfAnswer DEF SeenInv
  <2>6. CASE Disconnect(r)
    <3>1. outcome'[r] = "error"
      BY <1>1, <2>6 DEF Disconnect, Answer, IInv, Shape, TypeOK
    <3>2. QED
      BY <3>1 DEF Justified
  <2>7. QED
    BY <2>2, <2>3, <2>4, <2>5, <2>6
<1> DEFINE Reasoned == \A r \in Requests : outcome'[r] # outcome[r] => Justified(r)
<1>2. IInv /\ [Next]_vars => [Reasoned]_vars
  BY <1>1
<1>3. DenialsAreJustified <=> [][Reasoned]_vars
  BY DEF DenialsAreJustified, Justified
<1> HIDE DEF Reasoned
<1>4. QED
  BY <1>2, <1>3, Invariance, PTL DEF Spec

=============================================================================
