-------------------------- MODULE MessageChannels --------------------------
(***************************************************************************)
(* What the in-memory queue service promises: every queue and every topic  *)
(* is one first-in first-out channel, whoever names it first, a message    *)
(* goes to one consumer, and a subscriber's batch is a run of messages     *)
(* that no other consumer's interrupts (src/queue.rs).                     *)
(*                                                                         *)
(* A request makes one call.  A producer's message is known by the request *)
(* that sent it.                                                           *)
(***************************************************************************)
EXTENDS Naturals, Sequences

CONSTANTS Names,      \* of queues and topics
          Requests,
          Calls,      \* of each request: the calls it may make, records with an op and a name
          Nil

VARIABLES content,      \* of each channel: the messages nobody has taken
          phase, call,  \* of each request
          got           \* ... the messages it has taken

vars == <<content, phase, call, got>>

Produces(c) == c.op \in {"push", "publish"}

\* The number of messages a call may take.
Limit(c) == CASE c.op = "pop" -> 1
              [] c.op = "subscribe" -> c.max
              [] OTHER -> 0

Init ==
  /\ content = [n \in Names |-> <<>>]
  /\ phase = [r \in Requests |-> "idle"]
  /\ call = [r \in Requests |-> Nil]
  /\ got = [r \in Requests |-> <<>>]

Ask(r, c) ==
  /\ phase[r] = "idle"
  /\ phase' = [phase EXCEPT ![r] = "open"]
  /\ call' = [call EXCEPT ![r] = c]
  /\ UNCHANGED <<content, got>>

Put(r) ==
  /\ phase[r] = "open" /\ Produces(call[r])
  /\ content' = [content EXCEPT ![call[r].name] = Append(@, r)]
  /\ phase' = [phase EXCEPT ![r] = "done"]
  /\ UNCHANGED <<call, got>>

\* A consumer is in the middle of its batch.
Collects(r, n) == phase[r] = "open" /\ call[r].name = n /\ got[r] # <<>>

\* A consumer takes the oldest message; it may stop there.
Take(r) ==
  LET n == call[r].name IN
  /\ phase[r] = "open" /\ Len(got[r]) < Limit(call[r])
  /\ content[n] # <<>>
  /\ ~\E s \in Requests \ {r} : Collects(s, n)
  /\ content' = [content EXCEPT ![n] = Tail(@)]
  /\ got' = [got EXCEPT ![r] = Append(@, Head(content[n]))]
  /\ phase' = [phase EXCEPT ![r] = IF Len(got'[r]) = Limit(call[r]) THEN "done" ELSE "open"]
  /\ UNCHANGED call

\* A consumer's time is up.  A pop goes away empty-handed only from an empty queue.
Stop(r) ==
  /\ phase[r] = "open" /\ ~Produces(call[r])
  /\ call[r].op = "pop" => content[call[r].name] = <<>>
  /\ phase' = [phase EXCEPT ![r] = "done"]
  /\ UNCHANGED <<content, call, got>>

Answer(r) ==
  /\ phase[r] = "done"
  /\ phase' = [phase EXCEPT ![r] = "answered"]
  /\ UNCHANGED <<content, call, got>>

\* The client is not reached: it went away, or the request timed out.
Lose(r) ==
  /\ phase[r] \in {"open", "done"}
  /\ phase' = [phase EXCEPT ![r] = "lost"]
  /\ UNCHANGED <<content, call, got>>

Next ==
  \E r \in Requests :
    (\E c \in Calls[r] : Ask(r, c)) \/ Put(r) \/ Take(r) \/ Stop(r) \/ Answer(r) \/ Lose(r)

Spec == Init /\ [][Next]_vars
=============================================================================
