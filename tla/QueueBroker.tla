---------------------------- MODULE QueueBroker ----------------------------
(***************************************************************************)
(* Work queues over Redis Streams or RabbitMQ (OmniqueueBackend in         *)
(* src/queue.rs).                                                          *)
(*                                                                         *)
(* The service keeps one producer and one consumer per queue in two maps.  *)
(* A map's mutex is held while a missing client is built, over the network *)
(* calls that takes; a consumer has a mutex of its own, held from before   *)
(* the receive until the answer.  The first push of a queue creates it at  *)
(* the broker; a pop creates nothing.  A pop acknowledges the message      *)
(* before it answers.                                                      *)
(*                                                                         *)
(* External: the broker and the omniqueue crate.  A delivered message is   *)
(* unacknowledged until its ack; the broker hands it out again when the    *)
(* ack does not come (Redis after ack_deadline_ms, RabbitMQ when the       *)
(* channel closes).  Every network call may fail, and may have had its     *)
(* effect all the same.  Redis answers XADD when it has the message; a     *)
(* publish to RabbitMQ is answered for when it is written, as the channel  *)
(* asks for no confirms.                                                   *)
(*                                                                         *)
(* A request makes one call, and the message of a push is known by its     *)
(* request.                                                                *)
(***************************************************************************)
EXTENDS Naturals, FiniteSets

CONSTANTS Queues, Requests, Backends,
          Calls,  \* of each request, the calls it may make
          Nil

Answers == {"ok", "null", "error"}

Call == [op : {"push", "pop"}, name : Queues]

ASSUME BrokerAssumption ==
  /\ Nil \notin Queues \union Requests \union Answers
  /\ Backends \subseteq {"redis", "rabbitmq"}
  /\ Calls \in [Requests -> SUBSET Call]

VARIABLES backend,    \* OmniqueueBackend.backend_type, chosen by the URL at the start
          exists,     \* broker: the queues declared (stream and consumer group)
          ready,      \* broker: of each queue, the messages nobody holds
          unacked,    \* broker: of each queue, the deliveries <<message, consumer>>
          producers,  \* keys of the map `producers`
          consumers,  \* keys of the map `consumers`
          pmutex,     \* the request that holds the mutex of `producers`
          cmutex,     \* ... of `consumers`
          receiver,   \* ... of each queue's consumer
          pc, call,   \* of each request: control point; operation and queue
          got,        \* ... the message it received
          answer      \* ... what it answers

broker  == <<backend, exists, ready, unacked>>
caches  == <<producers, consumers>>
mutexes == <<pmutex, cmutex, receiver>>
vars == <<backend, exists, ready, unacked, producers, consumers, pmutex, cmutex, receiver,
          pc, call, got, answer>>

Waiting == {"producers", "ensure", "build", "send",
            "consumers", "connect", "receiver", "receive", "ack"}

\* The types, and: a queue that has a producer exists at the broker.
TypeOK ==
  /\ backend \in Backends
  /\ exists \subseteq Queues /\ producers \subseteq exists /\ consumers \subseteq Queues
  /\ ready \in [Queues -> SUBSET Requests]
  /\ unacked \in [Queues -> SUBSET (Requests \X Requests)]
  /\ pmutex \in Requests \union {Nil}
  /\ cmutex \in Requests \union {Nil}
  /\ receiver \in [Queues -> Requests \union {Nil}]
  /\ pc \in [Requests -> Waiting \union {"idle", "done", "answered", "dropped"}]
  /\ call \in [Requests -> Call \union {Nil}]
  /\ got \in [Requests -> Requests \union {Nil}]
  /\ answer \in [Requests -> Answers \union {Nil}]

Init ==
  /\ backend \in Backends
  /\ exists = {} /\ producers = {} /\ consumers = {}
  /\ ready = [n \in Queues |-> {}]
  /\ unacked = [n \in Queues |-> {}]
  /\ pmutex = Nil /\ cmutex = Nil
  /\ receiver = [n \in Queues |-> Nil]
  /\ pc = [r \in Requests |-> "idle"]
  /\ call = [r \in Requests |-> Nil]
  /\ got = [r \in Requests |-> Nil]
  /\ answer = [r \in Requests |-> Nil]

Goto(r, point) == pc' = [pc EXCEPT ![r] = point] /\ UNCHANGED <<call, got, answer>>

Answer(r, a) ==
  /\ pc' = [pc EXCEPT ![r] = "done"]
  /\ answer' = [answer EXCEPT ![r] = a]
  /\ UNCHANGED <<call, got>>

Name(r) == call[r].name

Invoke(r, c) ==
  /\ pc[r] = "idle"
  /\ pc' = [pc EXCEPT ![r] = IF c.op = "push" THEN "producers" ELSE "consumers"]
  /\ call' = [call EXCEPT ![r] = c]
  /\ UNCHANGED <<broker, caches, mutexes, got, answer>>

-----------------------------------------------------------------------------
(* Push *)

\* Mutant of AskProducers: the mutex is let go before the producer is built.
AskProducersUnlocked(r) ==
  /\ pc[r] = "producers" /\ pmutex = Nil
  /\ Goto(r, IF Name(r) \in producers THEN "send" ELSE "ensure")
  /\ UNCHANGED <<broker, caches, mutexes>>

\* Mutant of AskProducers: the queue is not created before the first push.
AskProducersOnly(r) ==
  /\ pc[r] = "producers" /\ pmutex = Nil
  /\ IF Name(r) \in producers
     THEN Goto(r, "send") /\ UNCHANGED pmutex
     ELSE Goto(r, "build") /\ pmutex' = r
  /\ UNCHANGED <<broker, caches, cmutex, receiver>>

\* get_or_create_producer: a cached producer is cloned; else the mutex is kept.
AskProducers(r) ==
  /\ pc[r] = "producers" /\ pmutex = Nil
  /\ IF Name(r) \in producers
     THEN Goto(r, "send") /\ UNCHANGED pmutex
     ELSE Goto(r, "ensure") /\ pmutex' = r
  /\ UNCHANGED <<broker, caches, cmutex, receiver>>

\* XGROUP CREATE ... MKSTREAM, or queue_declare; harmless when it exists.
Ensure(r) ==
  /\ pc[r] = "ensure"
  /\ exists' = exists \union {Name(r)}
  /\ Goto(r, "build")
  /\ UNCHANGED <<backend, ready, unacked, caches, mutexes>>

BuildProducer(r) ==
  /\ pc[r] = "build"
  /\ producers' = producers \union {Name(r)}
  /\ pmutex' = Nil
  /\ Goto(r, "send")
  /\ UNCHANGED <<broker, consumers, cmutex, receiver>>

\* A message for a queue that does not exist reaches nobody: RabbitMQ drops it, and
\* a Redis group created later starts behind it (`$`).
Stored(r) == IF Name(r) \in exists THEN [ready EXCEPT ![Name(r)] = @ \union {r}] ELSE ready

\* Whether the send's "ok" waits for the broker to have the message: publish_options
\* are the default ones, on a channel without confirm_select.
Confirms == backend = "redis"

Send(r) ==
  /\ pc[r] = "send"
  /\ \/ Confirms /\ ready' = Stored(r) /\ Answer(r, "ok")
     \/ ~Confirms /\ ready' \in {ready, Stored(r)} /\ Answer(r, "ok")
     \/ ready' \in {ready, Stored(r)} /\ Answer(r, "error")
  /\ UNCHANGED <<backend, exists, unacked, caches, mutexes>>

-----------------------------------------------------------------------------
(* Pop *)

\* get_or_create_consumer
AskConsumers(r) ==
  /\ pc[r] = "consumers" /\ cmutex = Nil
  /\ IF Name(r) \in consumers
     THEN Goto(r, "receiver") /\ UNCHANGED cmutex
     ELSE Goto(r, "connect") /\ cmutex' = r
  /\ UNCHANGED <<broker, caches, pmutex, receiver>>

BuildConsumer(r) ==
  /\ pc[r] = "connect"
  /\ consumers' = consumers \union {Name(r)}
  /\ cmutex' = Nil
  /\ Goto(r, "receiver")
  /\ UNCHANGED <<broker, producers, pmutex, receiver>>

LockReceiver(r) ==
  /\ pc[r] = "receiver" /\ receiver[Name(r)] = Nil
  /\ receiver' = [receiver EXCEPT ![Name(r)] = r]
  /\ Goto(r, "receive")
  /\ UNCHANGED <<broker, caches, pmutex, cmutex>>

\* The broker hands message m out to request r.
Delivers(r, m) ==
  /\ m \in ready[Name(r)]
  /\ ready' = [ready EXCEPT ![Name(r)] = @ \ {m}]
  /\ unacked' = [unacked EXCEPT ![Name(r)] = @ \union {<<m, r>>}]
  /\ UNCHANGED <<backend, exists>>

Receive(r) ==
  /\ pc[r] = "receive"
  /\ \E m \in Requests : Delivers(r, m) /\ got' = [got EXCEPT ![r] = m]
  /\ pc' = [pc EXCEPT ![r] = "ack"]
  /\ UNCHANGED <<caches, mutexes, call, answer>>

Unlocked(r) == [n \in Queues |-> IF receiver[n] = r THEN Nil ELSE receiver[n]]

\* The timeout, or an error of the broker, ends the pop without a message; a
\* delivery may have been on its way to the receive that is given up.
ReceiveNothing(r) ==
  /\ pc[r] = "receive"
  /\ UNCHANGED broker \/ \E m \in Requests : Delivers(r, m)
  /\ Answer(r, "null") \/ Answer(r, "error")
  /\ receiver' = Unlocked(r)
  /\ UNCHANGED <<caches, pmutex, cmutex>>

Acked(r) == [unacked EXCEPT ![Name(r)] = @ \ {<<got[r], r>>}]

\* A failed acknowledgement is only logged: the answer is the same.
Ack(r) ==
  /\ pc[r] = "ack"
  /\ unacked' \in {unacked, Acked(r)}
  /\ Answer(r, "ok")
  /\ receiver' = Unlocked(r)
  /\ UNCHANGED <<backend, exists, ready, caches, pmutex, cmutex>>

-----------------------------------------------------------------------------
(* Failures *)

Release(r) ==
  /\ pmutex' = IF pmutex = r THEN Nil ELSE pmutex
  /\ cmutex' = IF cmutex = r THEN Nil ELSE cmutex
  /\ receiver' = Unlocked(r)

\* What the broker may have done of the call a request was waiting for.
HalfDone(r) ==
  /\ exists' \in IF pc[r] = "ensure" THEN {exists, exists \union {Name(r)}} ELSE {exists}
  /\ ready' \in IF pc[r] = "send" THEN {ready, Stored(r)} ELSE {ready}
  /\ unacked' \in IF pc[r] = "ack" THEN {unacked, Acked(r)} ELSE {unacked}
  /\ UNCHANGED backend

\* Mutant of BuildFails: the mutex of the map is not given back.
BuildFailsLocked(r) ==
  /\ pc[r] \in {"ensure", "build", "connect"}
  /\ HalfDone(r)
  /\ Answer(r, "error")
  /\ UNCHANGED <<caches, mutexes>>

\* The queue cannot be created, or no client be built: the `?` drops the guard.
BuildFails(r) ==
  /\ pc[r] \in {"ensure", "build", "connect"}
  /\ HalfDone(r)
  /\ Answer(r, "error")
  /\ Release(r)
  /\ UNCHANGED caches

Deliver(r) ==
  /\ pc[r] = "done"
  /\ Goto(r, "answered")
  /\ UNCHANGED <<broker, caches, mutexes>>

\* The handler is dropped at an await (TimeoutLayer, client gone), or its answer
\* does not arrive.
Drop(r) ==
  /\ pc[r] \in Waiting \union {"done"}
  /\ HalfDone(r)
  /\ Release(r)
  /\ Goto(r, "dropped")
  /\ UNCHANGED caches

\* The service restarts, with empty maps.
Crash ==
  /\ \E r \in Requests : pc[r] \in Waiting
  /\ pc' = [r \in Requests |-> IF pc[r] \in Waiting \union {"done"} THEN "dropped" ELSE pc[r]]
  /\ producers' = {} /\ consumers' = {}
  /\ pmutex' = Nil /\ cmutex' = Nil
  /\ receiver' = [n \in Queues |-> Nil]
  /\ UNCHANGED <<broker, call, got, answer>>

\* The broker takes a delivery back, whether or not its receiver is still at work.
Redeliver(n) ==
  /\ \E d \in unacked[n] :
       /\ unacked' = [unacked EXCEPT ![n] = @ \ {d}]
       /\ ready' = [ready EXCEPT ![n] = @ \union {d[1]}]
  /\ UNCHANGED <<backend, exists, caches, mutexes, pc, call, got, answer>>

Step(r) ==
  \/ AskProducers(r) \/ Ensure(r) \/ BuildProducer(r) \/ Send(r)
  \/ AskConsumers(r) \/ BuildConsumer(r) \/ LockReceiver(r)
  \/ Receive(r) \/ ReceiveNothing(r) \/ Ack(r)
  \/ BuildFails(r) \/ Deliver(r)

Next ==
  \/ \E r \in Requests : (\E c \in Calls[r] : Invoke(r, c)) \/ Step(r) \/ Drop(r)
  \/ \E n \in Queues : Redeliver(n)
  \/ Crash

Spec == Init /\ [][Next]_vars

\* A call to the broker ends, with a result or an error, and the runtime goes on
\* with the handler.  Nothing else is assumed: no restart, no redelivery.
LiveSpec == Spec /\ \A r \in Requests : WF_vars(Step(r))

-----------------------------------------------------------------------------
(* Properties *)

Builds(r) == pc[r] \in {"ensure", "build", "connect"}

\* No client is built twice: two requests that miss the same entry of a map do not
\* both connect, and who holds a client's mutex is the one who uses it.
OneClientPerQueue ==
  /\ \A r, s \in Requests :
       Builds(r) /\ Builds(s) /\ call[r] = call[s] => r = s
  /\ \A r \in Requests :
       /\ pc[r] \in {"ensure", "build"} => Name(r) \notin producers
       /\ pc[r] = "connect" => Name(r) \notin consumers
       /\ pc[r] \in {"receive", "ack"} => receiver[Name(r)] = r

AtBroker(m, n) == m \in ready[n] \/ \E c \in Requests : <<m, c>> \in unacked[n]

Over == {"done", "answered", "dropped"}

\* A handler received message m and went on to its answer, or was dropped there: it
\* has given the message up, or may have.
Taken(m) == \E c \in Requests : got[c] = m /\ pc[c] \in Over

Pushed(r) == answer[r] = "ok" /\ call[r].op = "push"

\* Over Redis, a push that was answered "pushed" is at the broker until a handler that
\* received that very message acknowledges it: through restarts of the service,
\* failed acknowledgements, second deliveries and receives given up halfway.  Over
\* RabbitMQ the answer says nothing.
PushedIsKept ==
  \A r \in Requests : Confirms /\ Pushed(r) => AtBroker(r, Name(r)) \/ Taken(r)

\* What the module's documentation calls at-least-once delivery: a message that was
\* pushed is at the broker, or a handler has it and still has its answer to give, or
\* gave it.  It does not hold: the message is acknowledged before it is answered, and
\* over RabbitMQ the push is not confirmed.
AtLeastOnce ==
  \A r \in Requests : Pushed(r) =>
    \/ AtBroker(r, Name(r))
    \/ \E c \in Requests : got[c] = r /\ pc[c] \in {"ack", "done", "answered"}

\* Every request ends once its calls to the broker do, also after requests before it
\* failed or were dropped with a mutex in their hands.
EveryRequestEnds ==
  \A r \in Requests : (pc[r] # "idle") ~> (pc[r] \in {"answered", "dropped"})
=============================================================================
