---------------------------- MODULE EmailService ----------------------------
(***************************************************************************)
(* The email service (src/email.rs): single mails and batches, over SMTP   *)
(* or the in-memory outbox.                                                *)
(*                                                                         *)
(* A batch is a loop of single sends, each of which waits for the server.  *)
(* A mail that cannot be built ends the loop with an error; a mail that    *)
(* the server does not accept is a result like another.  So an error, or a *)
(* handler that is dropped (TimeoutLayer, client gone), leaves the client  *)
(* without a word about the mails that went out before, and a result that  *)
(* says "failed" may be that of a mail the server has taken.  Clients try  *)
(* again: with all they have not been told was sent.                       *)
(*                                                                         *)
(* External: the SMTP server and what reaches it, and the clients.         *)
(***************************************************************************)
EXTENDS Naturals, Sequences, FiniteSets, SequencesExt

CONSTANTS Schemes,      \* the backends EMAIL_URL may name
          Mails,
          Malformed,    \* the mails with an address that does not parse
          Unbuildable,  \* the mails that lettre refuses, having no recipient
          Clients, Calls,  \* each makes one of its calls, and repeats it
          MaxTries,     \* bound on the attempts of a client
          Nil

CallType == [op : {"send", "batch"}, mails : Seq(Mails)]

ASSUME EmailAssumption ==
  /\ Schemes \subseteq {"memory", "smtp"}
  /\ IsFiniteSet(Mails) /\ Malformed \subseteq Mails /\ Unbuildable \subseteq Mails
  /\ \A c \in Clients : \A x \in Calls[c] :
       x \in CallType /\ IsInjective(x.mails) /\ (x.op = "send" => Len(x.mails) = 1)
  /\ MaxTries \in Nat /\ Nil \notin STRING

VARIABLES backend,   \* EmailService.backend
          pc, call,  \* of each client: where its handler is, and its call
          results,   \* ... the results so far: TRUE for EmailResult::success
          answer,    \* ... the status of the last answer
          tries,     \* ... how many calls it has made
          out,       \* ... how often each mail has gone out
          told,      \* ... the mails it was told were sent
          unclear    \* history: ... how often a mail went out without it being told

handler == <<pc, results>>
vars == <<backend, handler, call, answer, tries, out, told, unclear>>

Counts == [Mails -> 0..MaxTries]

TypeOK ==
  /\ backend \in Schemes
  /\ pc \in [Clients -> {"idle", "sending", "answered", "dropped"}]
  /\ \A c \in Clients : pc[c] # "idle" =>
       call[c] \in CallType /\ Len(results[c]) <= Len(call[c].mails)
  /\ results \in [Clients -> Seq(BOOLEAN)]
  /\ answer \in [Clients -> {"ok", "bad", "error", Nil}]
  /\ tries \in [Clients -> 0..MaxTries]
  /\ out \in [Clients -> Counts]
  /\ told \in [Clients -> SUBSET Mails]
  /\ unclear \in [Clients -> Counts]

Init ==
  /\ backend \in Schemes
  /\ pc = [c \in Clients |-> "idle"]
  /\ call = [c \in Clients |-> Nil]
  /\ results = [c \in Clients |-> <<>>]
  /\ answer = [c \in Clients |-> Nil]
  /\ tries = [c \in Clients |-> 0]
  /\ out = [c \in Clients |-> [m \in Mails |-> 0]]
  /\ told = [c \in Clients |-> {}]
  /\ unclear = [c \in Clients |-> [m \in Mails |-> 0]]

Request(c, x) ==
  /\ tries[c] < MaxTries
  /\ tries' = [tries EXCEPT ![c] = @ + 1]
  /\ pc' = [pc EXCEPT ![c] = "sending"]
  /\ call' = [call EXCEPT ![c] = x]
  /\ results' = [results EXCEPT ![c] = <<>>]
  /\ answer' = [answer EXCEPT ![c] = Nil]
  /\ UNCHANGED <<backend, out, told, unclear>>

Invoke(c, x) == pc[c] = "idle" /\ Request(c, x)

\* A client repeats its call with the mails of which it does not know that they were sent,
\* in any order.
Retry(c) ==
  LET left == ToSet(call[c].mails) \ told[c] IN
  /\ pc[c] \in {"answered", "dropped"} /\ left # {}
  /\ \E rest \in SetToSeqs(left) : Request(c, [call[c] EXCEPT !.mails = rest])

-----------------------------------------------------------------------------
(* The loop of send_batch; a single send is a loop of one. *)

Position(c) == Len(results[c]) + 1
Pending(c) == pc[c] = "sending" /\ Position(c) <= Len(call[c].mails)
Current(c) == call[c].mails[Position(c)]

\* The in-memory backend takes a mail as it is.
Builds(m) == backend = "memory" \/ m \notin Malformed \union Unbuildable

Record(c, success) == results' = [results EXCEPT ![c] = Append(@, success)]

GoesOut(c) == out' = [out EXCEPT ![c][Current(c)] = @ + 1]

\* The mails of this call that have gone out and are not reported to the client.
Succeeded(c) == {call[c].mails[i] : i \in {j \in DOMAIN results[c] : results[c][j]}}
Unreported(c, mails) ==
  unclear' = [unclear EXCEPT ![c] = [m \in Mails |-> IF m \in mails THEN @[m] + 1 ELSE @[m]]]

\* The backend has the mail, and says so.
Send(c) ==
  /\ Pending(c) /\ Builds(Current(c))
  /\ GoesOut(c) /\ Record(c, TRUE)
  /\ UNCHANGED <<backend, pc, call, answer, tries, told, unclear>>

\* Mutant of SendFails: an error of the transport is taken for a success.
SendFailsUnseen(c) ==
  /\ Pending(c) /\ Builds(Current(c)) /\ backend = "smtp"
  /\ Record(c, TRUE)
  /\ UNCHANGED <<backend, pc, call, answer, tries, told, out, unclear>>

\* Mutant of SendFails: the failure is recorded, the mail sent again, and recorded again.
SendFailsTwice(c) ==
  /\ Pending(c) /\ Builds(Current(c)) /\ backend = "smtp"
  /\ GoesOut(c) /\ results' = [results EXCEPT ![c] = @ \o <<FALSE, TRUE>>]
  /\ UNCHANGED <<backend, pc, call, answer, tries, told, unclear>>

\* The transport reports an error: the server has refused the mail or was not reached,
\* or has taken it and its response is lost.
SendFails(c) ==
  /\ Pending(c) /\ Builds(Current(c)) /\ backend = "smtp"
  /\ \/ GoesOut(c) /\ Unreported(c, {Current(c)})
     \/ UNCHANGED <<out, unclear>>
  /\ Record(c, FALSE)
  /\ UNCHANGED <<backend, pc, call, answer, tries, told>>

Answer(c, status) ==
  /\ pc' = [pc EXCEPT ![c] = "answered"]
  /\ answer' = [answer EXCEPT ![c] = status]

\* The mail cannot be built: `?` gives up the batch, and the results so far.
Refuse(c) ==
  /\ Pending(c) /\ ~Builds(Current(c))
  /\ Answer(c, IF Current(c) \in Malformed THEN "bad" ELSE "error")
  /\ Unreported(c, Succeeded(c))
  /\ UNCHANGED <<backend, call, results, tries, told, out>>

\* Mutant of Report: one failure makes the batch a failure.
ReportWhole(c) ==
  /\ pc[c] = "sending" /\ ~Pending(c)
  /\ LET all == \A i \in DOMAIN results[c] : results[c][i]
     IN  /\ Answer(c, IF all THEN "ok" ELSE "bad")
         /\ told' = IF all THEN [told EXCEPT ![c] = @ \union Succeeded(c)] ELSE told
  /\ UNCHANGED <<backend, call, results, tries, out, unclear>>

\* The answer has the results.  A single mail that failed is a bad request; a batch is
\* answered with 200, whatever its results.
Report(c) ==
  /\ pc[c] = "sending" /\ ~Pending(c)
  /\ Answer(c, IF call[c].op = "send" /\ ~results[c][1] THEN "bad" ELSE "ok")
  /\ told' = [told EXCEPT ![c] = @ \union Succeeded(c)]
  /\ UNCHANGED <<backend, call, results, tries, out, unclear>>

\* The handler is dropped: while it waits for the server, which may have taken the mail
\* by then, or for the lock of the outbox; or its answer does not arrive.
Drop(c) ==
  /\ pc[c] = "sending"
  /\ pc' = [pc EXCEPT ![c] = "dropped"]
  /\ \/ Unreported(c, Succeeded(c)) /\ UNCHANGED out
     \/ /\ Pending(c) /\ Builds(Current(c)) /\ backend = "smtp"
        /\ GoesOut(c) /\ Unreported(c, Succeeded(c) \union {Current(c)})
  /\ UNCHANGED <<backend, call, results, answer, tries, told>>

-----------------------------------------------------------------------------
Step(c) == Send(c) \/ SendFails(c) \/ Refuse(c) \/ Report(c)

Next ==
  \E c \in Clients :
    (\E x \in Calls[c] : Invoke(c, x)) \/ Retry(c) \/ Step(c) \/ Drop(c)

Spec == Init /\ [][Next]_vars

-----------------------------------------------------------------------------
(* Properties *)

\* What a client is told was sent has gone out, over all its attempts.
ToldIsSent ==
  \A c \in Clients : \A m \in told[c] : out[c][m] > 0

\* A client that repeats what it was not told of sends a mail twice only if the mail has
\* gone out before without a word: an answer lost or not given, a batch given up, or a
\* response of the server that was lost.  So no mail goes out twice in one call, and a
\* batch in which some mails fail can be repeated with these.
TwiceOnlyInDoubt ==
  \A c \in Clients : \A m \in Mails :
    /\ out[c][m] <= 1 + unclear[c][m]
    /\ m \in told[c] => out[c][m] = 1 + unclear[c][m]
=============================================================================
