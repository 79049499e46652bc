---------------------------- MODULE QueueMemory ----------------------------
(***************************************************************************)
(* The in-memory queue service (src/queue.rs): work queues (push, pop) and *)
(* topics (publish, subscribe).                                            *)
(*                                                                         *)
(* A queue is an unbounded channel whose receiver sits behind a mutex that *)
(* serves its waiters in order (tokio::sync::Mutex).  A consumer owns the  *)
(* receiver from the moment it gets the mutex until it answers, so it      *)
(* waits for messages with the mutex held.  The queue is created by the    *)
(* first request that names it, under the mutex of the map.                *)
(*                                                                         *)
(* A handler is a future: when the request times out (TimeoutLayer) or the *)
(* client goes away, it is dropped at the await it is waiting in.          *)
(*                                                                         *)
(* Topics and queues live in two maps; the sets Topics and Queues keep     *)
(* their names apart.  A request makes one call, and the message of a      *)
(* producer is known by its request.                                       *)
(***************************************************************************)
EXTENDS Naturals, Sequences, FiniteSets, SequencesExt

CONSTANTS Topics, Queues,  \* names clients use
          Requests,        \* each makes one call
          Calls,           \* of each request: the calls it may make in this instance
          Nil

Names == Topics \union Queues

\* `timeout` of a subscribe: zero seconds or not; a pop treats both alike.
CallType ==
  [op : {"publish"}, name : Topics] \union [op : {"push", "pop"}, name : Queues]
    \union [op : {"subscribe"}, name : Topics, max : Nat, timeout : {0, 1}]

ASSUME QueueAssumption ==
  /\ Calls \in [Requests -> SUBSET CallType]
  /\ Topics \intersect Queues = {}
  /\ Nil \notin Requests \union Nat \union CallType

VARIABLES map,        \* name -> its channel, in `topics` or `queues`
          channels,   \* InMemoryQueue: the messages, and who owns or awaits the receiver
          pc, call,   \* of each request: control point and call
          mine,       \* ... its clone of the InMemoryQueue
          got,        \* ... the messages it has received
          pushed      \* history: what was sent to each name

vars == <<map, channels, pc, call, mine, got, pushed>>

Channel == [items : Seq(Requests), waiters : Seq(Requests)]
Fresh == [items |-> <<>>, waiters |-> <<>>]

Produces(c) == c.op \in {"push", "publish"}

Limit(c) == IF c.op = "pop" THEN 1 ELSE c.max

Points == {"idle", "lookup", "send", "lock", "recv", "done", "answered", "dropped"}

TypeOK ==
  /\ map \in [Names -> Nat \union {Nil}]
  /\ \A n \in Names : map[n] # Nil => map[n] \in 1 .. Len(channels)
  /\ channels \in Seq(Channel)
  /\ pc \in [Requests -> Points]
  /\ \A r \in Requests : call[r] \in Calls[r] \union {Nil}
  /\ mine \in [Requests -> Nat \union {Nil}]
  /\ got \in [Requests -> Seq(Requests)]
  /\ \A r \in Requests : got[r] # <<>> => Len(got[r]) <= Limit(call[r])

Init ==
  /\ map = [n \in Names |-> Nil]
  /\ channels = <<>>
  /\ pc = [r \in Requests |-> "idle"]
  /\ call = [r \in Requests |-> Nil]
  /\ mine = [r \in Requests |-> Nil]
  /\ got = [r \in Requests |-> <<>>]
  /\ pushed = [n \in Names |-> <<>>]

Goto(r, point) == pc' = [pc EXCEPT ![r] = point]

Invoke(r, c) ==
  /\ pc[r] = "idle"
  /\ Goto(r, "lookup")
  /\ call' = [call EXCEPT ![r] = c]
  /\ UNCHANGED <<map, channels, mine, got, pushed>>

\* Mutant of Lookup: the map is not asked first.
LookupCreates(r) ==
  /\ pc[r] = "lookup"
  /\ map' = [map EXCEPT ![call[r].name] = Len(channels) + 1]
  /\ channels' = Append(channels, Fresh)
  /\ mine' = [mine EXCEPT ![r] = Len(channels) + 1]
  /\ Goto(r, IF Produces(call[r]) THEN "send" ELSE "lock")
  /\ UNCHANGED <<call, got, pushed>>

\* get_or_create_inmemory_queue and _topic: one step, under the mutex of the map.
Lookup(r) ==
  LET n == call[r].name
      new == Len(channels) + 1
  IN
  /\ pc[r] = "lookup"
  /\ \/ /\ map[n] # Nil
        /\ mine' = [mine EXCEPT ![r] = map[n]]
        /\ UNCHANGED <<map, channels>>
     \/ /\ map[n] = Nil
        /\ map' = [map EXCEPT ![n] = new]
        /\ channels' = Append(channels, Fresh)
        /\ mine' = [mine EXCEPT ![r] = new]
  /\ Goto(r, IF Produces(call[r]) THEN "send" ELSE "lock")
  /\ UNCHANGED <<call, got, pushed>>

\* The channel is unbounded and its receiver never dropped: send succeeds.
Send(r) ==
  /\ pc[r] = "send"
  /\ channels' = [channels EXCEPT ![mine[r]].items = Append(@, r)]
  /\ pushed' = [pushed EXCEPT ![call[r].name] = Append(@, r)]
  /\ Goto(r, "done")
  /\ UNCHANGED <<map, call, mine, got>>

\* `queue.consumer.lock().await`
Lock(r) ==
  /\ pc[r] = "lock"
  /\ channels' = [channels EXCEPT ![mine[r]].waiters = Append(@, r)]
  /\ Goto(r, "recv")
  /\ UNCHANGED <<map, call, mine, got, pushed>>

Items(r) == channels[mine[r]].items

\* The request holds the mutex of the receiver.
Owns(r) == pc[r] = "recv" /\ Head(channels[mine[r]].waiters) = r

\* The waiters once request r has given up the mutex, or its place in the line.
Without(r) ==
  LET line == channels[mine[r]].waiters
  IN  RemoveAt(line, CHOOSE i \in DOMAIN line : line[i] = r)

\* Mutant of MayPoll: one message too many.
MayPollOneMore(r) ==
  call[r].op = "subscribe" => call[r].timeout > 0 /\ Len(got[r]) <= call[r].max

\* Subscribe looks at its remaining time before it polls the receiver; pop polls first.
MayPoll(r) ==
  call[r].op = "subscribe" => call[r].timeout > 0 /\ Len(got[r]) < call[r].max

\* Mutant of Receive: the mutex is not held while the batch is collected.
ReceiveUnlocked(r) ==
  /\ pc[r] = "recv" /\ MayPoll(r)
  /\ Items(r) # <<>>
  /\ got' = [got EXCEPT ![r] = Append(@, Head(Items(r)))]
  /\ LET enough == Len(got'[r]) = Limit(call[r]) IN
     /\ channels' = [channels EXCEPT ![mine[r]] =
                       [items |-> Tail(Items(r)),
                        waiters |-> IF enough THEN Without(r) ELSE @.waiters]]
     /\ Goto(r, IF enough THEN "done" ELSE "recv")
  /\ UNCHANGED <<map, call, mine, pushed>>

\* Mutant of Receive: the message is looked at, not taken.
ReceivePeeks(r) ==
  /\ Owns(r) /\ MayPoll(r)
  /\ Items(r) # <<>>
  /\ got' = [got EXCEPT ![r] = Append(@, Head(Items(r)))]
  /\ channels' = [channels EXCEPT ![mine[r]].waiters = Without(r)]
  /\ Goto(r, "done")
  /\ UNCHANGED <<map, call, mine, pushed>>

\* `consumer.recv()` returns a message: a pop answers with it, a subscribe goes on
\* until it has max_messages.
Receive(r) ==
  /\ Owns(r) /\ MayPoll(r)
  /\ Items(r) # <<>>
  /\ got' = [got EXCEPT ![r] = Append(@, Head(Items(r)))]
  /\ LET enough == Len(got'[r]) = Limit(call[r]) IN
     /\ channels' = [channels EXCEPT ![mine[r]] =
                       [items |-> Tail(Items(r)),
                        waiters |-> IF enough THEN Without(r) ELSE @.waiters]]
     /\ Goto(r, IF enough THEN "done" ELSE "recv")
  /\ UNCHANGED <<map, call, mine, pushed>>

\* The deadline, which runs from the moment the mutex was obtained, has passed.  A
\* subscribe stops whatever is queued; the timeout of a pop is looked at only after
\* its receiver had nothing.
TimeIsUp(r) ==
  /\ Owns(r)
  /\ call[r].op = "pop" => Items(r) = <<>>
  /\ channels' = [channels EXCEPT ![mine[r]].waiters = Without(r)]
  /\ Goto(r, "done")
  /\ UNCHANGED <<map, call, mine, got, pushed>>

\* The response reaches the client.
Deliver(r) ==
  /\ pc[r] = "done"
  /\ Goto(r, "answered")
  /\ UNCHANGED <<map, channels, call, mine, got, pushed>>

\* Mutant of Drop: the mutex of a dropped consumer is not released.
DropKeepsLock(r) ==
  /\ pc[r] \in {"lookup", "lock", "recv", "done"}
  /\ Goto(r, "dropped")
  /\ UNCHANGED <<map, channels, call, mine, got, pushed>>

\* The handler is dropped while it waits for the map or for the receiver's mutex or
\* for a message, or the connection fails once it has answered.
Drop(r) ==
  /\ pc[r] \in {"lookup", "lock", "recv", "done"}
  /\ channels' = IF pc[r] = "recv"
                 THEN [channels EXCEPT ![mine[r]].waiters = Without(r)]
                 ELSE channels
  /\ Goto(r, "dropped")
  /\ UNCHANGED <<map, call, mine, got, pushed>>

Step(r) == Lookup(r) \/ Send(r) \/ Lock(r) \/ Receive(r) \/ TimeIsUp(r) \/ Deliver(r)

Next ==
  \E r \in Requests : (\E c \in Calls[r] : Invoke(r, c)) \/ Step(r) \/ Drop(r)

Spec == Init /\ [][Next]_vars

\* The runtime polls a handler that can go on, and timers fire.  Nothing is assumed
\* of clients, nor that a request is ever timed out from outside.
LiveSpec == Spec /\ \A r \in Requests : WF_vars(Step(r))

-----------------------------------------------------------------------------
(* Properties *)

\* What is queued under a name.
Queued(n) == IF map[n] = Nil THEN <<>> ELSE channels[map[n]].items

\* A message that was sent is in exactly one place for ever: in its queue, or with the
\* one consumer that received it.  Whatever two requests race to create the queue,
\* and whenever handlers are dropped, none is stranded and none received twice.
EachMessageOnce ==
  \A n \in Names :
    \A m \in ToSet(pushed[n]) :
      IF Contains(Queued(n), m)
      THEN \A r \in Requests : ~Contains(got[r], m)
      ELSE Cardinality({r \in Requests : Contains(got[r], m)}) = 1

Content == [n \in Names |-> Queued(n)]
Phase == [r \in Requests |->
            CASE pc[r] \in {"lookup", "send", "lock", "recv"} -> "open"
              [] pc[r] = "dropped" -> "lost"
              [] OTHER -> pc[r]]

Promise == INSTANCE MessageChannels WITH content <- Content, phase <- Phase

\* Queues created on demand behave as channels that were always there: first in,
\* first out, whoever races to create them; a batch of a subscriber is not interrupted
\* by another's; and a pop answers null only when its queue was empty.
ImplementsChannels == Promise!Spec

\* Every request ends, however long consumers hold the receiver and wherever others
\* are dropped: the line at the receiver's mutex moves on.
EveryRequestEnds ==
  \A r \in Requests : (pc[r] # "idle") ~> (pc[r] \in {"answered", "dropped"})
=============================================================================
