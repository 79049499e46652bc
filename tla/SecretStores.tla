---------------------------- MODULE SecretStores ----------------------------
(***************************************************************************)
(* The secrets service (src/secrets.rs) over its memory backend and over   *)
(* the three remote stores: Vault, AWS Secrets Manager and GCP Secret      *)
(* Manager.  SECRETS_URL picks one when the service starts.                *)
(*                                                                         *)
(* The memory backend does a whole call under its lock.  A remote backend  *)
(* sends one HTTP request per call, and the GCP backend two for a create:  *)
(* the secret first, its first version then.  A handler may be dropped     *)
(* (TimeoutLayer, client gone) or lose its connection while a request is   *)
(* on its way; the store may serve that request all the same, and late.    *)
(*                                                                         *)
(* Values are reduced to who wrote them: a secret is the sequence of its   *)
(* versions, each the request that wrote it.  A listing is seen from the   *)
(* secret that its caller looks for: is it listed?  "list" gives the       *)
(* secret's directory for a prefix (all up to the last "/" of its name, or *)
(* nothing if it has none), "search" any other beginning of its name.      *)
(* Health and the read-only environment backend are left out; they change  *)
(* nothing.                                                                *)
(*                                                                         *)
(* External: the stores.  What they answer is what the code looks for;     *)
(* any request may be refused for another reason (quota, permission).      *)
(***************************************************************************)
EXTENDS Naturals, Sequences, FiniteSets, SequencesExt

CONSTANTS Schemes,      \* the backends SECRETS_URL may name
          Names,        \* of secrets
          Requests,     \* each makes one call
          Calls,        \* of each request: the calls it may make
          Nil, Gone     \* no secret; a version that Vault has marked as deleted

Listings == {"list", "search"}
CallType ==
  [op : {"get", "exists", "create", "update", "delete"} \union Listings, name : Names]
Verbs == {"create", "create_empty", "add", "write", "delete", "get", "describe", "list"}
Statuses == {"ok", "exists", "missing", "failed", "unlisted", "glued"}
Outcomes == {"ok", "bad", "missing", "yes", "no", "error"}

ASSUME SecretsAssumption ==
  /\ Schemes \subseteq {"memory", "vault", "aws", "gcp"} /\ Schemes # {}
  /\ Calls \in [Requests -> SUBSET CallType]
  /\ Gone \notin Requests
  /\ Nil \notin CallType \union Seq(Requests \union {Gone})
  /\ Nil \notin Verbs \union Statuses \union Outcomes

VARIABLES backend,    \* SecretsService.backend
          store,      \* name -> the versions of the secret, or Nil
          pc, call,   \* of each request: control point of its handler, and call
          asked,      \* ... its request on the way to the store
          reply,      \* ... the status that comes back
          outcome,    \* ... what the client is answered
          took,       \* history: the requests whose change the store has made
          removals,   \* history: how often each secret was removed
          seen        \* history: what the name of each request was while it ran

history == <<removals, seen>>
vars == <<backend, store, pc, call, asked, reply, outcome, took, history>>

Conditions == {"none", "shell", "gone", "value"}

Condition(versions) ==
  IF versions = Nil THEN "none"
  ELSE IF versions = <<>> THEN "shell"
  ELSE IF Last(versions) = Gone THEN "gone"
  ELSE "value"

TypeOK ==
  /\ backend \in Schemes
  /\ \A n \in Names : store[n] # Nil => store[n] \in Seq(Requests \union {Gone})
  /\ pc \in [Requests -> {"idle", "call", "version", "answered", "dropped"}]
  /\ \A r \in Requests : call[r] \in Calls[r] \union {Nil}
  /\ asked \in [Requests -> Verbs \union {Nil}]
  /\ reply \in [Requests -> Statuses \union {Nil}]
  /\ outcome \in [Requests -> Outcomes \union {Nil}]
  /\ \A r \in Requests :
       /\ pc[r] = "version" => backend = "gcp" /\ call[r].op = "create"
       /\ backend # "memory" /\ pc[r] \in {"call", "version"} =>
            (asked[r] = Nil) # (reply[r] = Nil)
  /\ took \subseteq Requests
  /\ removals \in [Names -> Nat]
  /\ seen \in [Requests -> SUBSET Conditions]

Init ==
  /\ backend \in Schemes
  /\ store = [n \in Names |-> Nil]
  /\ pc = [r \in Requests |-> "idle"]
  /\ call = [r \in Requests |-> Nil]
  /\ asked = [r \in Requests |-> Nil]
  /\ reply = [r \in Requests |-> Nil]
  /\ outcome = [r \in Requests |-> Nil]
  /\ took = {}
  /\ removals = [n \in Names |-> 0]
  /\ seen = [r \in Requests |-> {}]

Goto(r, point) == pc' = [pc EXCEPT ![r] = point]

Answer(r, o) == Goto(r, "answered") /\ outcome' = [outcome EXCEPT ![r] = o]

Active(r) == pc[r] \in {"call", "version"}

(***************************************************************************)
(* What each backend asks of its store for an operation: "add" needs the   *)
(* secret to be there, "write" does not; "get" asks for a value,           *)
(* "describe" for the secret, "list" for the names under a prefix.         *)
(***************************************************************************)
MemoryAsks == [get |-> "get", exists |-> "describe", list |-> "list", search |-> "list",
               delete |-> "delete", create |-> "create", update |-> "add"]

VaultAsks == [get |-> "get", exists |-> "get", list |-> "list", search |-> "list",
              delete |-> "delete", create |-> "write", update |-> "write"]

AwsAsks == [get |-> "get", exists |-> "get", list |-> "list", search |-> "list",
            delete |-> "delete", create |-> "create", update |-> "add"]

\* A create goes on with "add".
GcpAsks == [get |-> "get", exists |-> "describe", list |-> "list", search |-> "list",
            delete |-> "delete", create |-> "create_empty", update |-> "add"]

Verb(c) ==
  LET asks == CASE backend = "memory" -> MemoryAsks
                [] backend = "vault"  -> VaultAsks
                [] backend = "aws"    -> AwsAsks
                [] backend = "gcp"    -> GcpAsks
  IN  asks[c.op]

\* Clients make their calls; a remote backend sends its request at once.
Invoke(r, c) ==
  /\ pc[r] = "idle"
  /\ Goto(r, "call")
  /\ call' = [call EXCEPT ![r] = c]
  /\ asked' = [asked EXCEPT ![r] = IF backend = "memory" THEN Nil ELSE Verb(c)]
  /\ UNCHANGED <<backend, store, reply, outcome, took>>

-----------------------------------------------------------------------------
(* The store *)

\* The stores that list page by page.  Their listings have as many secrets as the store
\* puts on its first page: the code does not ask for the next, and answers as if that
\* were all.
FirstPageOnly == {"aws", "gcp"}

\* The secret a listing is asked about may be on no page that the code asks for.
IsBeyondPage(r) == asked[r] = "list" /\ backend \in FirstPageOnly

\* Vault lists one directory, metadata/{prefix}.  Of a prefix that is not the secret's
\* directory it lists other names, or none; and as the code puts them behind the prefix
\* without a "/", one of them may come to read as the secret's ("db", "password").
IsOtherLevel(r) == asked[r] = "list" /\ backend = "vault" /\ call[r].op = "search"

\* The status of a request for a secret with these versions, if it is not refused.
\* Vault answers 204 also to the DELETE of a secret that it does not have.
Status(verb, versions) ==
  CASE verb \in {"create", "create_empty"} -> IF versions = Nil THEN "ok" ELSE "exists"
    [] verb = "write"                      -> "ok"
    [] verb = "get"                        -> IF Condition(versions) = "value" THEN "ok" ELSE "missing"
    [] verb = "delete" /\ backend = "vault" -> "ok"
    [] OTHER                               -> IF versions = Nil THEN "missing" ELSE "ok"

\* The versions once a request with status "ok" has been served.  Vault keeps the
\* versions of a deleted secret and marks the last; the others destroy them.
Stored(r, verb, versions) ==
  CASE verb = "create"       -> <<r>>
    [] verb = "create_empty" -> <<>>
    [] verb = "add"          -> Append(versions, r)
    [] verb = "write"        -> Append(IF versions = Nil THEN <<>> ELSE versions, r)
    [] verb = "delete"       -> IF backend = "vault" /\ versions # Nil
                                THEN Append(Front(versions), Gone) ELSE Nil
    [] OTHER                 -> versions

\* The store does what request r asks with this verb.
Serves(r, verb, status) ==
  LET n == call[r].name IN
  /\ status = Status(verb, store[n])
  /\ store' = IF status = "ok" THEN [store EXCEPT ![n] = Stored(r, verb, @)] ELSE store
  /\ took' = IF status = "ok" /\ verb \in {"create", "add", "write", "delete"}
             THEN took \union {r} ELSE took

\* A request arrives, perhaps after its handler has gone; its status is on the way back.
Serve(r) ==
  /\ asked[r] # Nil
  /\ \E status \in Statuses :
       /\ \/ ~IsOtherLevel(r) /\ Serves(r, asked[r], status)
          \/ status = "failed" /\ UNCHANGED <<store, took>>
          \/ IsBeyondPage(r) /\ status = "unlisted" /\ UNCHANGED <<store, took>>
          \/ IsOtherLevel(r) /\ status \in {"unlisted", "glued"} /\ UNCHANGED <<store, took>>
       /\ reply' = [reply EXCEPT ![r] = IF Active(r) THEN status ELSE Nil]
  /\ asked' = [asked EXCEPT ![r] = Nil]
  /\ UNCHANGED <<backend, pc, call, outcome>>

\* A request that nobody waits for any more does not arrive.
Lose(r) ==
  /\ asked[r] # Nil /\ ~Active(r)
  /\ asked' = [asked EXCEPT ![r] = Nil]
  /\ UNCHANGED <<backend, store, pc, call, reply, outcome, took>>

-----------------------------------------------------------------------------
(* The handlers *)

\* Mutant of AnswerTo: whatever is not a success is a missing secret.
AnswerToAnything(c, status) ==
  CASE c.op \in {"exists"} \union Listings -> IF status \in {"ok", "glued"} THEN "yes" ELSE "no"
    [] status = "ok" -> "ok"
    [] c.op = "create" /\ status = "exists" -> "bad"
    [] OTHER -> "missing"

\* What a client is told.  EXISTS of the GCP backend takes every refusal for a "no".
AnswerTo(c, status) ==
  LET asks == c.op \in {"exists"} \union Listings IN
  CASE asks /\ status \in {"ok", "glued"} -> "yes"
    [] asks /\ status \in {"missing", "unlisted"} -> "no"
    [] c.op = "exists" /\ backend = "gcp" /\ status = "failed" -> "no"
    [] ~asks /\ status = "ok" -> "ok"
    [] c.op = "create" /\ status = "exists" -> "bad"
    [] c.op \in {"get", "update", "delete"} /\ status = "missing" -> "missing"
    [] OTHER -> "error"

\* The memory backend: a whole call under the lock.
Locked(r) ==
  /\ pc[r] = "call" /\ backend = "memory"
  /\ \E status \in Statuses :
       /\ Serves(r, Verb(call[r]), status)
       /\ Answer(r, AnswerTo(call[r], status))
  /\ UNCHANGED <<backend, call, asked, reply>>

\* Mutant of CreatesVersion: in every backend.
CreatesVersionAnywhere(r) == pc[r] = "call" /\ call[r].op = "create"

\* The first of the two requests of a create.
CreatesVersion(r) == pc[r] = "call" /\ backend = "gcp" /\ call[r].op = "create"

\* Mutant of Respond: the status of the first request of a GCP create is the answer.
RespondEarly(r) ==
  /\ Active(r) /\ reply[r] # Nil
  /\ Answer(r, AnswerTo(call[r], reply[r])) /\ UNCHANGED asked
  /\ reply' = [reply EXCEPT ![r] = Nil]
  /\ UNCHANGED <<backend, store, call, took>>

\* Mutant of Respond: a GCP create takes a secret that is there for its own.
RespondAdopts(r) ==
  /\ Active(r) /\ reply[r] # Nil
  /\ IF CreatesVersion(r) /\ reply[r] \in {"ok", "exists"}
     THEN /\ Goto(r, "version")
          /\ asked' = [asked EXCEPT ![r] = "add"]
          /\ UNCHANGED outcome
     ELSE Answer(r, AnswerTo(call[r], reply[r])) /\ UNCHANGED asked
  /\ reply' = [reply EXCEPT ![r] = Nil]
  /\ UNCHANGED <<backend, store, call, took>>

\* The response arrives.  A GCP create goes on with the version; all others answer.
Respond(r) ==
  /\ Active(r) /\ reply[r] # Nil
  /\ IF CreatesVersion(r) /\ reply[r] = "ok"
     THEN /\ Goto(r, "version")
          /\ asked' = [asked EXCEPT ![r] = "add"]
          /\ UNCHANGED outcome
     ELSE Answer(r, AnswerTo(call[r], reply[r])) /\ UNCHANGED asked
  /\ reply' = [reply EXCEPT ![r] = Nil]
  /\ UNCHANGED <<backend, store, call, took>>

\* The connection fails, before or after the request was served.
Disconnect(r) ==
  /\ Active(r) /\ backend # "memory"
  /\ Answer(r, "error")
  /\ reply' = [reply EXCEPT ![r] = Nil]
  /\ UNCHANGED <<backend, store, call, asked, took>>

\* The handler is dropped where it waits.
Drop(r) ==
  /\ Active(r)
  /\ Goto(r, "dropped")
  /\ reply' = [reply EXCEPT ![r] = Nil]
  /\ UNCHANGED <<backend, store, call, asked, outcome, took>>

\* History: removals, and what each running request's name has been.
Observe ==
  /\ removals' = [n \in Names |->
                    removals[n] + IF store[n] # Nil /\ store'[n] = Nil THEN 1 ELSE 0]
  /\ seen' = [r \in Requests |->
                IF Active(r)' THEN seen[r] \union {Condition(store'[call'[r].name])} ELSE {}]

Next ==
  /\ \E r \in Requests :
       \/ \E c \in Calls[r] : Invoke(r, c)
       \/ Serve(r) \/ Lose(r)
       \/ Locked(r) \/ Respond(r) \/ Disconnect(r) \/ Drop(r)
  /\ Observe

Spec == Init /\ [][Next]_vars

-----------------------------------------------------------------------------
(* Properties *)

Creates(r, n) == pc[r] # "idle" /\ call[r].op = "create" /\ call[r].name = n

\* Of several clients that create one secret, at once or again after a failure, one is
\* told that it did, as long as nobody removes the secret.  (Vault has no create: its
\* POST stores one more version, so there everybody is told so.)
CreateIsExclusive ==
  backend # "vault" =>
    \A n \in Names :
      Cardinality({r \in Requests : Creates(r, n) /\ outcome[r] = "ok"}) <= 1 + removals[n]

\* "Created", "updated" and "deleted" are said when it has happened, also by the backend
\* that needs two requests for it (over Vault, a secret that was not there is deleted,
\* too); and a request that is refused as wrong ("already exists", "not found") has
\* changed nothing and never will.
AnswersAreTrue ==
  \A r \in Requests :
    /\ outcome[r] = "ok" /\ call[r].op \in {"create", "update", "delete"} => r \in took
    /\ outcome[r] \in {"bad", "missing"} => r \notin took /\ asked[r] = Nil

\* Nobody is told of a secret that was not there, or sent away from one that was there
\* all the time: each such answer is right for some moment of the call, unless it comes
\* from a status that says nothing of the secret: a refused EXISTS over GCP, a listing
\* whose first page does not reach it, or one of another directory of Vault.
DenialsAreJustified ==
  [][\A r \in Requests : outcome'[r] # outcome[r] =>
       /\ outcome'[r] = "missing" =>
            "none" \in seen[r] \/ (call[r].op = "get" /\ seen[r] # {"value"})
       /\ outcome'[r] = "no" => \/ seen[r] # {"value"}
                                \/ call[r].op = "exists" /\ backend = "gcp" /\ reply[r] = "failed"
                                \/ reply[r] = "unlisted"
       /\ outcome'[r] = "bad" => seen[r] # {"none"}
       /\ outcome'[r] = "yes" => seen[r] # {"none"} \/ reply[r] = "glued"]_vars

\* A secret without a version, which EXISTS reports and GET does not find, is what a
\* create has left that is under way, has failed or was dropped; nobody was told that
\* it is created, and it is never what remains of a secret that had a value.
ShellIsUnfinished ==
  \A n \in Names : store[n] = <<>> =>
    \E r \in Requests : Creates(r, n) /\ r \notin took /\ outcome[r] \notin {"ok", "bad"}
=============================================================================
