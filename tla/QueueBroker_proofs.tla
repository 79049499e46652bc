-------------------------- MODULE QueueBroker_proofs --------------------------
(***************************************************************************)
(* Theorems about the work queues over a broker, for every set of queues   *)
(* and requests, over either broker.  The inductive invariant says who     *)
(* holds which mutex, that a producer belongs to a queue that exists, and  *)
(* where a message is that was pushed.                                     *)
(***************************************************************************)
EXTENDS QueueBroker, TLAPS

PushPoints == {"producers", "ensure", "build", "send"}
PopPoints == {"consumers", "connect", "receiver", "receive", "ack"}

\* A request at work has its call, and neither message nor answer before its time.
Progress ==
  \A r \in Requests :
    /\ pc[r] # "idle" => call[r] \in Call
    /\ pc[r] \in PushPoints => call[r].op = "push"
    /\ pc[r] \in PopPoints => call[r].op = "pop"
    /\ answer[r] # Nil => pc[r] \in Over
    /\ got[r] # Nil => pc[r] \in Over \union {"ack"}

\* Who builds a client holds the mutex of its map, and the map has no such client yet;
\* who uses a consumer holds the consumer's mutex.
Locks ==
  \A r \in Requests :
    /\ pc[r] \in {"ensure", "build"} => pmutex = r /\ Name(r) \notin producers
    /\ pc[r] = "connect" => cmutex = r /\ Name(r) \notin consumers
    /\ pc[r] \in {"receive", "ack"} => receiver[Name(r)] = r

\* A producer is built and used for a queue that exists.
Declared == \A r \in Requests : pc[r] \in {"build", "send"} => Name(r) \in exists

IInv == TypeOK /\ Progress /\ Locks /\ Declared /\ PushedIsKept

-----------------------------------------------------------------------------
(* Lemmas *)

\* The initial states: nothing is there.
LEMMA InitIInv == Init => IInv
<1> SUFFICES ASSUME Init PROVE IInv
  OBVIOUS
<1>1. TypeOK
  BY DEF Init, TypeOK
<1>2. Progress /\ Locks /\ Declared
  BY DEF Init, Progress, Locks, Declared, PushPoints, PopPoints
<1>3. PushedIsKept
  BY BrokerAssumption DEF Init, PushedIsKept, Pushed, Answers
<1>4. QED
  BY <1>1, <1>2, <1>3 DEF IInv

\* A request at work has a queue.
LEMMA CallOfRequest ==
  ASSUME Progress, NEW r \in Requests, pc[r] # "idle"
  PROVE  Name(r) \in Queues /\ call[r] \in Call
BY DEF Progress, Name, Call

-----------------------------------------------------------------------------
(* One lemma for each part of the invariant *)

\* Every step keeps the types.
LEMMA TypePreserved ==
  ASSUME TypeOK, Progress, Declared, Next
  PROVE  TypeOK'
<1> USE DEF TypeOK, Waiting, Answers, caches, mutexes, broker
<1>1. ASSUME NEW r \in Requests, NEW c \in Calls[r], Invoke(r, c) PROVE TypeOK'
  BY <1>1, BrokerAssumption DEF Invoke
<1>2. ASSUME NEW r \in Requests, AskProducers(r) PROVE TypeOK'
  BY <1>2, CallOfRequest DEF AskProducers, Goto
<1>3. ASSUME NEW r \in Requests, Ensure(r) PROVE TypeOK'
  BY <1>3, CallOfRequest DEF Ensure, Goto
<1>4. ASSUME NEW r \in Requests, BuildProducer(r) PROVE TypeOK'
  BY <1>4, CallOfRequest DEF BuildProducer, Goto, Declared
<1>5. ASSUME NEW r \in Requests, Send(r) PROVE TypeOK'
  BY <1>5, CallOfRequest DEF Send, Answer, Stored
<1>6. ASSUME NEW r \in Requests, AskConsumers(r) PROVE TypeOK'
  BY <1>6, CallOfRequest DEF AskConsumers, Goto
<1>7. ASSUME NEW r \in Requests, BuildConsumer(r) PROVE TypeOK'
  BY <1>7, CallOfRequest DEF BuildConsumer, Goto
<1>8. ASSUME NEW r \in Requests, LockReceiver(r) PROVE TypeOK'
  BY <1>8, CallOfRequest DEF LockReceiver, Goto
<1>9. ASSUME NEW r \in Requests, Receive(r) PROVE TypeOK'
  BY <1>9, CallOfRequest DEF Receive, Delivers
<1>10. ASSUME NEW r \in Requests, ReceiveNothing(r) PROVE TypeOK'
  BY <1>10, CallOfRequest DEF ReceiveNothing, Answer, Delivers, Unlocked
<1>11. ASSUME NEW r \in Requests, Ack(r) PROVE TypeOK'
  BY <1>11, CallOfRequest DEF Ack, Answer, Acked, Unlocked
<1>12. ASSUME NEW r \in Requests, BuildFails(r) PROVE TypeOK'
  <2>1. Name(r) \in Queues
    BY <1>12, CallOfRequest DEF BuildFails
  <2>2. /\ exists' \subseteq Queues /\ exists \subseteq exists' /\ backend' = backend
        /\ ready' \in [Queues -> SUBSET Requests]
    BY <1>12, <2>1 DEF BuildFails, HalfDone, Stored
  <2>3. unacked' \in [Queues -> SUBSET (Requests \X Requests)]
    BY <1>12, <2>1 DEF BuildFails, HalfDone, Acked
  <2>4. /\ pmutex' \in Requests \union {Nil} /\ cmutex' \in Requests \union {Nil}
        /\ receiver' \in [Queues -> Requests \union {Nil}]
    BY <1>12 DEF BuildFails, Release, Unlocked
  <2>5. QED
    BY <1>12, <2>2, <2>3, <2>4 DEF BuildFails, Answer
<1>13. ASSUME NEW r \in Requests, Deliver(r) PROVE TypeOK'
  BY <1>13, CallOfRequest DEF Deliver, Goto
<1>14. ASSUME NEW r \in Requests, Drop(r) PROVE TypeOK'
  <2>1. Name(r) \in Queues
    BY <1>14, CallOfRequest DEF Drop
  <2>2. /\ exists' \subseteq Queues /\ exists \subseteq exists' /\ backend' = backend
        /\ ready' \in [Queues -> SUBSET Requests]
    BY <1>14, <2>1 DEF Drop, HalfDone, Stored
  <2>3. unacked' \in [Queues -> SUBSET (Requests \X Requests)]
    BY <1>14, <2>1 DEF Drop, HalfDone, Acked
  <2>4. /\ pmutex' \in Requests \union {Nil} /\ cmutex' \in Requests \union {Nil}
        /\ receiver' \in [Queues -> Requests \union {Nil}]
    BY <1>14 DEF Drop, Release, Unlocked
  <2>5. QED
    BY <1>14, <2>2, <2>3, <2>4 DEF Drop, Goto
<1>15. ASSUME NEW n \in Queues, Redeliver(n) PROVE TypeOK'
  BY <1>15 DEF Redeliver
<1>16. ASSUME Crash PROVE TypeOK'
  BY <1>16 DEF Crash
<1>17. QED
  BY <1>1, <1>2, <1>3, <1>4, <1>5, <1>6, <1>7, <1>8, <1>9, <1>10, <1>11, <1>12, <1>13,
     <1>14, <1>15, <1>16 DEF Next, Step

\* A request goes from point to point with its call.
LEMMA ProgressPreserved ==
  ASSUME TypeOK, Progress, Next
  PROVE  Progress'
<1> USE DEF TypeOK, Progress, PushPoints, PopPoints, Over, Waiting, caches, mutexes, broker
<1>1. ASSUME NEW r \in Requests, NEW c \in Calls[r], Invoke(r, c) PROVE Progress'
  <2>1. /\ pc'[r] = IF c.op = "push" THEN "producers" ELSE "consumers"
        /\ call'[r] = c
        /\ got' = got /\ answer' = answer
    BY <1>1 DEF Invoke
  <2>2. \A s \in Requests \ {r} : pc'[s] = pc[s] /\ call'[s] = call[s]
    BY <1>1 DEF Invoke
  <2>3. c \in Call /\ c.op \in {"push", "pop"} /\ c.name \in Queues
    BY BrokerAssumption DEF Call
  <2>4. pc[r] = "idle"
    BY <1>1 DEF Invoke
  <2>5. QED
    BY <2>1, <2>2, <2>3, <2>4
<1>2. ASSUME NEW r \in Requests, AskProducers(r) PROVE Progress'
  BY <1>2, CallOfRequest DEF AskProducers, Goto
<1>3. ASSUME NEW r \in Requests, Ensure(r) PROVE Progress'
  BY <1>3, CallOfRequest DEF Ensure, Goto
<1>4. ASSUME NEW r \in Requests, BuildProducer(r) PROVE Progress'
  BY <1>4, CallOfRequest DEF BuildProducer, Goto
<1>5. ASSUME NEW r \in Requests, Send(r) PROVE Progress'
  BY <1>5, CallOfRequest DEF Send, Answer, Stored
<1>6. ASSUME NEW r \in Requests, AskConsumers(r) PROVE Progress'
  BY <1>6, CallOfRequest DEF AskConsumers, Goto
<1>7. ASSUME NEW r \in Requests, BuildConsumer(r) PROVE Progress'
  BY <1>7, CallOfRequest DEF BuildConsumer, Goto
<1>8. ASSUME NEW r \in Requests, LockReceiver(r) PROVE Progress'
  BY <1>8, CallOfRequest DEF LockReceiver, Goto
<1>9. ASSUME NEW r \in Requests, Receive(r) PROVE Progress'
  BY <1>9, CallOfRequest DEF Receive, Delivers
<1>10. ASSUME NEW r \in Requests, ReceiveNothing(r) PROVE Progress'
  BY <1>10, CallOfRequest DEF ReceiveNothing, Answer, Delivers, Unlocked
<1>11. ASSUME NEW r \in Requests, Ack(r) PROVE Progress'
  BY <1>11, CallOfRequest DEF Ack, Answer, Acked, Unlocked
<1>12. ASSUME NEW r \in Requests, BuildFails(r) PROVE Progress'
  BY <1>12, CallOfRequest DEF BuildFails, HalfDone, Answer, Release, Acked, Stored, Unlocked
<1>13. ASSUME NEW r \in Requests, Deliver(r) PROVE Progress'
  BY <1>13, CallOfRequest DEF Deliver, Goto
<1>14. ASSUME NEW r \in Requests, Drop(r) PROVE Progress'
  BY <1>14, CallOfRequest DEF Drop, HalfDone, Release, Goto, Acked, Stored, Unlocked
<1>15. ASSUME NEW n \in Queues, Redeliver(n) PROVE Progress'
  BY <1>15 DEF Redeliver
<1>16. ASSUME Crash PROVE Progress'
  BY <1>16 DEF Crash
<1>17. QED
  BY <1>1, <1>2, <1>3, <1>4, <1>5, <1>6, <1>7, <1>8, <1>9, <1>10, <1>11, <1>12, <1>13,
     <1>14, <1>15, <1>16 DEF Next, Step

\* Mutexes stay with those who need them, and no client is built beside another.
LEMMA LocksPreserved ==
  ASSUME TypeOK, Progress, Locks, Next
  PROVE  Locks'
<1> USE DEF TypeOK, Locks, Waiting, caches, mutexes, broker
<1>1. ASSUME NEW r \in Requests, NEW c \in Calls[r], Invoke(r, c) PROVE Locks'
  BY <1>1 DEF Invoke, Name
<1>2. ASSUME NEW r \in Requests, AskProducers(r) PROVE Locks'
  BY <1>2, CallOfRequest, BrokerAssumption DEF AskProducers, Goto, Name
<1>3. ASSUME NEW r \in Requests, Ensure(r) PROVE Locks'
  BY <1>3, CallOfRequest DEF Ensure, Goto, Name
<1>4. ASSUME NEW r \in Requests, BuildProducer(r) PROVE Locks'
  BY <1>4, CallOfRequest DEF BuildProducer, Goto, Name
<1>5. ASSUME NEW r \in Requests, Send(r) PROVE Locks'
  BY <1>5, CallOfRequest DEF Send, Answer, Stored, Name
<1>6. ASSUME NEW r \in Requests, AskConsumers(r) PROVE Locks'
  BY <1>6, CallOfRequest, BrokerAssumption DEF AskConsumers, Goto, Name
<1>7. ASSUME NEW r \in Requests, BuildConsumer(r) PROVE Locks'
  BY <1>7, CallOfRequest DEF BuildConsumer, Goto, Name
<1>8. ASSUME NEW r \in Requests, LockReceiver(r) PROVE Locks'
  <2>1. Name(r) \in Queues
    BY <1>8, CallOfRequest DEF LockReceiver
  <2>2. /\ pc' = [pc EXCEPT ![r] = "receive"] /\ call' = call
        /\ receiver[Name(r)] = Nil /\ receiver' = [receiver EXCEPT ![Name(r)] = r]
        /\ UNCHANGED <<producers, consumers, pmutex, cmutex>>
    BY <1>8 DEF LockReceiver, Goto, caches
  <2>3. \A s \in Requests : s # r /\ pc'[s] \in {"receive", "ack"} => receiver[Name(s)] = s
    BY <2>2
  <2>4. \A s \in Requests : s # r /\ pc'[s] \in {"receive", "ack"} => receiver'[Name(s)] = s
    BY <2>2, <2>3, BrokerAssumption
  <2>5. receiver'[Name(r)] = r
    BY <2>1, <2>2
  <2>6. QED
    BY <2>2, <2>4, <2>5 DEF Name
<1>9. ASSUME NEW r \in Requests, Receive(r) PROVE Locks'
  BY <1>9, CallOfRequest DEF Receive, Delivers, Name
<1>10. ASSUME NEW r \in Requests, ReceiveNothing(r) PROVE Locks'
  BY <1>10, CallOfRequest DEF ReceiveNothing, Answer, Delivers, Unlocked, Name
<1>11. ASSUME NEW r \in Requests, Ack(r) PROVE Locks'
  BY <1>11, CallOfRequest DEF Ack, Answer, Acked, Unlocked, Name
<1>12. ASSUME NEW r \in Requests, BuildFails(r) PROVE Locks'
  BY <1>12, CallOfRequest DEF BuildFails, HalfDone, Answer, Release, Acked, Stored, Unlocked,
     Name
<1>13. ASSUME NEW r \in Requests, Deliver(r) PROVE Locks'
  BY <1>13, CallOfRequest DEF Deliver, Goto, Name
<1>14. ASSUME NEW r \in Requests, Drop(r) PROVE Locks'
  BY <1>14, CallOfRequest DEF Drop, HalfDone, Release, Goto, Acked, Stored, Unlocked, Name
<1>15. ASSUME NEW n \in Queues, Redeliver(n) PROVE Locks'
  BY <1>15 DEF Redeliver, Name
<1>16. ASSUME Crash PROVE Locks'
  BY <1>16 DEF Crash
<1>17. QED
  BY <1>1, <1>2, <1>3, <1>4, <1>5, <1>6, <1>7, <1>8, <1>9, <1>10, <1>11, <1>12, <1>13,
     <1>14, <1>15, <1>16 DEF Next, Step

\* A producer is not cached before its queue exists, and queues stay.
LEMMA DeclaredPreserved ==
  ASSUME TypeOK, Progress, Declared, Next
  PROVE  Declared'
<1> USE DEF TypeOK, Declared, Waiting, caches, mutexes, broker
<1>1. ASSUME NEW r \in Requests, NEW c \in Calls[r], Invoke(r, c) PROVE Declared'
  BY <1>1 DEF Invoke, Name
<1>2. ASSUME NEW r \in Requests, AskProducers(r) PROVE Declared'
  BY <1>2, CallOfRequest DEF AskProducers, Goto, Name
<1>3. ASSUME NEW r \in Requests, Ensure(r) PROVE Declared'
  BY <1>3, CallOfRequest DEF Ensure, Goto, Name
<1>4. ASSUME NEW r \in Requests, BuildProducer(r) PROVE Declared'
  BY <1>4, CallOfRequest DEF BuildProducer, Goto, Name
<1>5. ASSUME NEW r \in Requests, Send(r) PROVE Declared'
  BY <1>5, CallOfRequest DEF Send, Answer, Stored, Name
<1>6. ASSUME NEW r \in Requests, AskConsumers(r) PROVE Declared'
  BY <1>6, CallOfRequest DEF AskConsumers, Goto, Name
<1>7. ASSUME NEW r \in Requests, BuildConsumer(r) PROVE Declared'
  BY <1>7, CallOfRequest DEF BuildConsumer, Goto, Name
<1>8. ASSUME NEW r \in Requests, LockReceiver(r) PROVE Declared'
  BY <1>8, CallOfRequest DEF LockReceiver, Goto, Name
<1>9. ASSUME NEW r \in Requests, Receive(r) PROVE Declared'
  BY <1>9, CallOfRequest DEF Receive, Delivers, Name
<1>10. ASSUME NEW r \in Requests, ReceiveNothing(r) PROVE Declared'
  BY <1>10, CallOfRequest DEF ReceiveNothing, Answer, Delivers, Unlocked, Name
<1>11. ASSUME NEW r \in Requests, Ack(r) PROVE Declared'
  BY <1>11, CallOfRequest DEF Ack, Answer, Acked, Unlocked, Name
<1>12. ASSUME NEW r \in Requests, BuildFails(r) PROVE Declared'
  BY <1>12, CallOfRequest DEF BuildFails, HalfDone, Answer, Release, Acked, Stored, Unlocked,
     Name
<1>13. ASSUME NEW r \in Requests, Deliver(r) PROVE Declared'
  BY <1>13, CallOfRequest DEF Deliver, Goto, Name
<1>14. ASSUME NEW r \in Requests, Drop(r) PROVE Declared'
  BY <1>14, CallOfRequest DEF Drop, HalfDone, Release, Goto, Acked, Stored, Unlocked, Name
<1>15. ASSUME NEW n \in Queues, Redeliver(n) PROVE Declared'
  BY <1>15 DEF Redeliver, Name
<1>16. ASSUME Crash PROVE Declared'
  BY <1>16 DEF Crash
<1>17. QED
  BY <1>1, <1>2, <1>3, <1>4, <1>5, <1>6, <1>7, <1>8, <1>9, <1>10, <1>11, <1>12, <1>13,
     <1>14, <1>15, <1>16 DEF Next, Step

-----------------------------------------------------------------------------
(* Messages *)

\* No message disappears from the broker, unless into the hands of who received it.
BrokerKeeps ==
  \A m \in Requests, n \in Queues : AtBroker(m, n) => AtBroker(m, n)' \/ Taken(m)'

\* What is over stays over, with the message it received.
LEMMA OverStays ==
  ASSUME TypeOK, Next, NEW c \in Requests, pc[c] \in Over
  PROVE  pc'[c] \in Over /\ got'[c] = got[c]
<1> USE DEF TypeOK, Over, Waiting
<1>1. ASSUME NEW r \in Requests, NEW x \in Calls[r], Invoke(r, x) PROVE pc'[c] \in Over /\ got'[c] = got[c]
  BY <1>1 DEF Invoke
<1>2. ASSUME NEW r \in Requests, Step(r) PROVE pc'[c] \in Over /\ got'[c] = got[c]
  <2>1. CASE c = r
    BY <1>2, <2>1 DEF Step, AskProducers, Ensure, BuildProducer, Send, AskConsumers,
       BuildConsumer, LockReceiver, Receive, ReceiveNothing, Ack, BuildFails, Deliver, Goto, Answer
  <2>2. CASE c # r
    BY <1>2, <2>2 DEF Step, AskProducers, Ensure, BuildProducer, Send, AskConsumers,
       BuildConsumer, LockReceiver, Receive, ReceiveNothing, Ack, BuildFails, Deliver, Goto, Answer
  <2>3. QED
    BY <2>1, <2>2
<1>3. ASSUME NEW r \in Requests, Drop(r) PROVE pc'[c] \in Over /\ got'[c] = got[c]
  BY <1>3 DEF Drop, Goto
<1>4. ASSUME NEW n \in Queues, Redeliver(n) PROVE pc'[c] \in Over /\ got'[c] = got[c]
  BY <1>4 DEF Redeliver
<1>5. ASSUME Crash PROVE pc'[c] \in Over /\ got'[c] = got[c]
  BY <1>5 DEF Crash
<1>6. QED
  BY <1>1, <1>2, <1>3, <1>4, <1>5 DEF Next

\* A step that keeps messages, what was received, and answers, keeps what was pushed.
LEMMA KeptIfBrokerKeeps ==
  ASSUME IInv, Next, BrokerKeeps, backend' = backend,
         \A r \in Requests : backend = "redis" /\ answer'[r] = "ok" /\ call'[r].op = "push" =>
           (answer[r] = "ok" /\ call'[r] = call[r]) \/ AtBroker(r, Name(r))'
  PROVE  PushedIsKept'
<1> SUFFICES ASSUME NEW r \in Requests, backend = "redis", answer'[r] = "ok",
                    call'[r].op = "push"
             PROVE  AtBroker(r, Name(r))' \/ Taken(r)'
  BY DEF PushedIsKept, Pushed, Confirms
<1>1. CASE AtBroker(r, Name(r))'
  BY <1>1
<1>2. CASE answer[r] = "ok" /\ call'[r] = call[r]
  <2>1. AtBroker(r, Name(r)) \/ Taken(r)
    BY <1>2 DEF IInv, PushedIsKept, Pushed, Confirms
  <2>2. Name(r) \in Queues /\ Name(r)' = Name(r)
    BY <1>2, CallOfRequest, BrokerAssumption DEF IInv, Progress, Over, Answers, Name
  <2>3. CASE Taken(r)
    BY <2>3, OverStays DEF Taken, IInv
  <2>4. CASE AtBroker(r, Name(r))
    <3>1. AtBroker(r, Name(r))' <=> \/ r \in ready'[Name(r)]
                                    \/ \E c \in Requests : <<r, c>> \in unacked'[Name(r)]
      BY <2>2 DEF AtBroker
    <3>2. AtBroker(r, Name(r)) => \/ r \in ready'[Name(r)]
                                  \/ \E c \in Requests : <<r, c>> \in unacked'[Name(r)]
                                  \/ Taken(r)'
      BY <2>2 DEF BrokerKeeps, AtBroker
    <3>3. QED
      BY <2>4, <3>1, <3>2
  <2>5. QED
    BY <2>1, <2>3, <2>4
<1>3. QED
  BY <1>1, <1>2

\* A delivery moves a message from the queue to the deliveries.
LEMMA DeliveryKeeps ==
  ASSUME TypeOK, Progress, NEW r \in Requests, pc[r] # "idle", NEW m \in Requests,
         Delivers(r, m)
  PROVE  BrokerKeeps
<1>1. Name(r) \in Queues
  BY CallOfRequest
<1>2. SUFFICES ASSUME NEW x \in Requests, NEW n \in Queues, AtBroker(x, n)
               PROVE  AtBroker(x, n)'
  BY DEF BrokerKeeps
<1>3. /\ ready'[n] = IF n = Name(r) THEN ready[n] \ {m} ELSE ready[n]
      /\ unacked'[n] = IF n = Name(r) THEN unacked[n] \union {<<m, r>>} ELSE unacked[n]
  BY <1>1 DEF Delivers, TypeOK
<1>4. CASE x \in ready[n]
  BY <1>3, <1>4 DEF AtBroker
<1>5. CASE \E c \in Requests : <<x, c>> \in unacked[n]
  BY <1>3, <1>5 DEF AtBroker
<1>6. QED
  BY <1>2, <1>4, <1>5 DEF AtBroker

\* An acknowledged message was received by who acknowledges it.
LEMMA AckKeeps ==
  ASSUME TypeOK, Progress, NEW r \in Requests, pc[r] # "idle", pc'[r] \in Over,
         ready' = ready, unacked' \in {unacked, Acked(r)}, got' = got
  PROVE  BrokerKeeps
<1>1. Name(r) \in Queues
  BY CallOfRequest
<1>2. SUFFICES ASSUME NEW x \in Requests, NEW n \in Queues, AtBroker(x, n)
               PROVE  AtBroker(x, n)' \/ got[r] = x
  BY DEF BrokerKeeps, Taken
<1>3. \A d : d \in unacked[n] => d \in unacked'[n] \/ d = <<got[r], r>>
  BY <1>1 DEF Acked, TypeOK
<1>4. CASE x \in ready[n]
  BY <1>4 DEF AtBroker
<1>5. CASE \E c \in Requests : <<x, c>> \in unacked[n]
  BY <1>3, <1>5 DEF AtBroker
<1>6. QED
  BY <1>2, <1>4, <1>5 DEF AtBroker

\* The queue of a push has one message more, if it exists.
LEMMA StoringKeeps ==
  ASSUME TypeOK, Progress, NEW r \in Requests, pc[r] # "idle",
         ready' \in {ready, Stored(r)}, unacked' = unacked
  PROVE  /\ BrokerKeeps
         /\ ready' = Stored(r) /\ Name(r) \in exists => r \in ready'[Name(r)]
<1>1. Name(r) \in Queues
  BY CallOfRequest
<1>2. \A n \in Queues : ready[n] \subseteq ready'[n]
  BY <1>1 DEF Stored, TypeOK
<1>3. ready' = Stored(r) /\ Name(r) \in exists => r \in ready'[Name(r)]
  BY <1>1 DEF Stored, TypeOK
<1>4. BrokerKeeps
  BY <1>2 DEF BrokerKeeps, AtBroker
<1>5. QED
  BY <1>3, <1>4

\* A step that does not reach the broker.
LEMMA SilentKeeps ==
  ASSUME UNCHANGED <<ready, unacked>>
  PROVE  BrokerKeeps
BY DEF BrokerKeeps, AtBroker

\* No step loses a message that was pushed.
LEMMA KeptPreserved ==
  ASSUME IInv, Next
  PROVE  PushedIsKept'
<1> USE DEF broker
<1>1. ASSUME NEW r \in Requests, NEW c \in Calls[r], Invoke(r, c) PROVE PushedIsKept'
  <2>1. BrokerKeeps
    BY <1>1, SilentKeeps DEF Invoke, broker
  <2>2. answer[r] = Nil /\ "ok" # Nil
    BY <1>1, BrokerAssumption DEF Invoke, IInv, Progress, Over, Answers
  <2>3. \A q \in Requests : answer'[q] = "ok" => q # r
    BY <1>1, <2>2 DEF Invoke
  <2>4. \A q \in Requests : q # r => call'[q] = call[q]
    BY <1>1 DEF Invoke, IInv, TypeOK
  <2>5. QED
    BY <1>1, <2>1, <2>3, <2>4, KeptIfBrokerKeeps DEF Invoke
<1>2. ASSUME NEW r \in Requests, AskProducers(r) PROVE PushedIsKept'
  <2>1. BrokerKeeps
    BY <1>2, SilentKeeps DEF AskProducers, Goto, broker
  <2>2. QED
    BY <1>2, <2>1, KeptIfBrokerKeeps DEF AskProducers, Goto
<1>3. ASSUME NEW r \in Requests, Ensure(r) PROVE PushedIsKept'
  <2>1. BrokerKeeps
    BY <1>3, SilentKeeps DEF Ensure
  <2>2. QED
    BY <1>3, <2>1, KeptIfBrokerKeeps DEF Ensure, Goto
<1>4. ASSUME NEW r \in Requests, BuildProducer(r) PROVE PushedIsKept'
  <2>1. BrokerKeeps
    BY <1>4, SilentKeeps DEF BuildProducer, broker
  <2>2. QED
    BY <1>4, <2>1, KeptIfBrokerKeeps DEF BuildProducer, Goto
<1>5. ASSUME NEW r \in Requests, Send(r) PROVE PushedIsKept'
  <2>1. /\ pc[r] = "send" /\ Name(r) \in exists
        /\ UNCHANGED <<backend, exists, unacked, call, got>>
        /\ ready' \in {ready, Stored(r)}
        /\ \/ ready' = Stored(r) /\ answer' = [answer EXCEPT ![r] = "ok"]
           \/ backend # "redis" /\ answer' = [answer EXCEPT ![r] = "ok"]
           \/ answer' = [answer EXCEPT ![r] = "error"]
    BY <1>5 DEF Send, Answer, Confirms, IInv, Declared
  <2>2. BrokerKeeps /\ (ready' = Stored(r) => r \in ready'[Name(r)])
    BY <2>1, StoringKeeps DEF IInv
  <2>3. \A q \in Requests : backend = "redis" /\ answer'[q] = "ok" =>
          answer[q] = "ok" \/ (q = r /\ ready' = Stored(r))
    BY <2>1 DEF IInv, TypeOK
  <2>4. ready' = Stored(r) => AtBroker(r, Name(r))'
    BY <2>1, <2>2 DEF AtBroker, Name
  <2>5. QED
    BY <2>1, <2>2, <2>3, <2>4, KeptIfBrokerKeeps
<1>6. ASSUME NEW r \in Requests, AskConsumers(r) PROVE PushedIsKept'
  <2>1. BrokerKeeps
    BY <1>6, SilentKeeps DEF AskConsumers, broker
  <2>2. QED
    BY <1>6, <2>1, KeptIfBrokerKeeps DEF AskConsumers, Goto
<1>7. ASSUME NEW r \in Requests, BuildConsumer(r) PROVE PushedIsKept'
  <2>1. BrokerKeeps
    BY <1>7, SilentKeeps DEF BuildConsumer, broker
  <2>2. QED
    BY <1>7, <2>1, KeptIfBrokerKeeps DEF BuildConsumer, Goto
<1>8. ASSUME NEW r \in Requests, LockReceiver(r) PROVE PushedIsKept'
  <2>1. BrokerKeeps
    BY <1>8, SilentKeeps DEF LockReceiver, broker
  <2>2. QED
    BY <1>8, <2>1, KeptIfBrokerKeeps DEF LockReceiver, Goto
<1>9. ASSUME NEW r \in Requests, Receive(r) PROVE PushedIsKept'
  <2>1. PICK m \in Requests : Delivers(r, m) /\ got' = [got EXCEPT ![r] = m]
    BY <1>9 DEF Receive
  <2>2. BrokerKeeps
    BY <1>9, <2>1, DeliveryKeeps DEF Receive, IInv
  <2>3. got[r] = Nil
    BY <1>9 DEF Receive, IInv, Progress, Over
  <2>4. QED
    BY <1>9, <2>1, <2>2, <2>3, KeptIfBrokerKeeps DEF Receive, Delivers, IInv, TypeOK
<1>10. ASSUME NEW r \in Requests, ReceiveNothing(r) PROVE PushedIsKept'
  <2>1. BrokerKeeps
    BY <1>10, DeliveryKeeps, SilentKeeps DEF ReceiveNothing, IInv, broker
  <2>2. /\ pc[r] = "receive" /\ call[r].op = "pop"
        /\ UNCHANGED <<backend, call, got>>
    BY <1>10 DEF ReceiveNothing, Delivers, Answer, IInv, Progress, PopPoints
  <2>3. \A q \in Requests : q # r => answer'[q] = answer[q]
    BY <1>10 DEF ReceiveNothing, Answer, IInv, TypeOK
  <2>4. QED
    BY <2>1, <2>2, <2>3, KeptIfBrokerKeeps
<1>11. ASSUME NEW r \in Requests, Ack(r) PROVE PushedIsKept'
  <2>1. BrokerKeeps
    BY <1>11, AckKeeps DEF Ack, Answer, IInv, TypeOK, Over
  <2>2. /\ pc[r] = "ack" /\ call[r].op = "pop"
        /\ UNCHANGED <<backend, call, got>>
    BY <1>11 DEF Ack, Answer, IInv, Progress, PopPoints
  <2>3. \A q \in Requests : q # r => answer'[q] = answer[q]
    BY <1>11 DEF Ack, Answer, IInv, TypeOK
  <2>4. QED
    BY <2>1, <2>2, <2>3, KeptIfBrokerKeeps
<1>12. ASSUME NEW r \in Requests, BuildFails(r) PROVE PushedIsKept'
  <2>1. BrokerKeeps
    BY <1>12, SilentKeeps DEF BuildFails, HalfDone
  <2>2. /\ UNCHANGED <<backend, call, got>>
        /\ \A q \in Requests : answer'[q] = "ok" => answer[q] = "ok"
    BY <1>12 DEF BuildFails, HalfDone, Answer, IInv, TypeOK
  <2>3. QED
    BY <2>1, <2>2, KeptIfBrokerKeeps
<1>13. ASSUME NEW r \in Requests, Deliver(r) PROVE PushedIsKept'
  <2>1. BrokerKeeps
    BY <1>13, SilentKeeps DEF Deliver, broker
  <2>2. QED
    BY <1>13, <2>1, KeptIfBrokerKeeps DEF Deliver, Goto
<1>14. ASSUME NEW r \in Requests, Drop(r) PROVE PushedIsKept'
  <2>1. /\ pc[r] # "idle" /\ pc'[r] \in Over
        /\ UNCHANGED <<backend, call, got, answer>>
    BY <1>14 DEF Drop, HalfDone, Goto, Waiting, IInv, TypeOK, Over
  <2>2. CASE pc[r] = "send"
    <3>1. ready' \in {ready, Stored(r)} /\ unacked' = unacked
      BY <1>14, <2>2 DEF Drop, HalfDone
    <3>2. QED
      BY <2>1, <3>1, StoringKeeps, KeptIfBrokerKeeps DEF IInv
  <2>3. CASE pc[r] # "send"
    <3>1. ready' = ready /\ unacked' \in {unacked, Acked(r)}
      BY <1>14, <2>3 DEF Drop, HalfDone
    <3>2. QED
      BY <2>1, <3>1, AckKeeps, KeptIfBrokerKeeps DEF IInv
  <2>4. QED
    BY <2>2, <2>3
<1>15. ASSUME NEW n \in Queues, Redeliver(n) PROVE PushedIsKept'
  <2>1. PICK d \in unacked[n] :
          /\ unacked' = [unacked EXCEPT ![n] = unacked[n] \ {d}]
          /\ ready' = [ready EXCEPT ![n] = ready[n] \union {d[1]}]
    BY <1>15 DEF Redeliver
  <2>2. UNCHANGED <<backend, call, got, answer>>
    BY <1>15 DEF Redeliver
  <2>3. ASSUME NEW x \in Requests, NEW q \in Queues, AtBroker(x, q)
        PROVE  AtBroker(x, q)'
    <3>1. /\ ready'[q] = IF q = n THEN ready[q] \union {d[1]} ELSE ready[q]
          /\ unacked'[q] = IF q = n THEN unacked[q] \ {d} ELSE unacked[q]
      BY <2>1 DEF IInv, TypeOK
    <3>2. CASE x \in ready[q]
      BY <3>1, <3>2 DEF AtBroker
    <3>3. ASSUME NEW c \in Requests, <<x, c>> \in unacked[q]
          PROVE  AtBroker(x, q)'
      <4>1. <<x, c>> = d => d[1] = x
        OBVIOUS
      <4>2. QED
        BY <3>1, <3>3, <4>1 DEF AtBroker
    <3>4. QED
      BY <2>3, <3>2, <3>3 DEF AtBroker
  <2>4. QED
    BY <2>2, <2>3, KeptIfBrokerKeeps DEF BrokerKeeps
<1>16. ASSUME Crash PROVE PushedIsKept'
  <2>1. BrokerKeeps
    BY <1>16, SilentKeeps DEF Crash, broker
  <2>2. QED
    BY <1>16, <2>1, KeptIfBrokerKeeps DEF Crash
<1>17. QED
  BY <1>1, <1>2, <1>3, <1>4, <1>5, <1>6, <1>7, <1>8, <1>9, <1>10, <1>11, <1>12, <1>13,
     <1>14, <1>15, <1>16 DEF Next, Step

\* Nothing happens.
LEMMA StutterPreserves ==
  ASSUME IInv, UNCHANGED vars
  PROVE  IInv'
<1>1. TypeOK' /\ Progress' /\ Locks' /\ Declared'
  BY DEF vars, IInv, TypeOK, Progress, Locks, Declared, Name
<1>2. PushedIsKept'
  BY DEF vars, IInv, PushedIsKept, Pushed, Confirms, Taken, AtBroker, Name
<1>3. QED
  BY <1>1, <1>2 DEF IInv

-----------------------------------------------------------------------------
(* Theorems *)

\* The invariant holds in every reachable state.
THEOREM Invariance == Spec => []IInv
<1>1. Init => IInv
  BY InitIInv
<1>2. IInv /\ [Next]_vars => IInv'
  <2>1. ASSUME IInv, Next PROVE IInv'
    BY <2>1, TypePreserved, ProgressPreserved, LocksPreserved, DeclaredPreserved,
       KeptPreserved DEF IInv
  <2>2. QED
    BY <2>1, StutterPreserves
<1>3. QED
  BY <1>1, <1>2, PTL DEF Spec

\* The broker, the maps with their mutexes, and the requests keep their types.
THEOREM TypeCorrect == Spec => []TypeOK
<1>1. IInv => TypeOK
  BY DEF IInv
<1>2. QED
  BY <1>1, Invariance, PTL

\* No two requests build the client of one queue, none builds one that is there, and a
\* consumer is used by who holds its mutex, whoever fails, is dropped or restarted.
THEOREM OneBuilder == Spec => []OneClientPerQueue
<1>1. ASSUME IInv PROVE OneClientPerQueue
  <2>1. ASSUME NEW r \in Requests, NEW s \in Requests, Builds(r), Builds(s), call[r] = call[s]
        PROVE  r = s
    <3>1. /\ pc[r] \in {"ensure", "build"} <=> call[r].op = "push"
          /\ pc[s] \in {"ensure", "build"} <=> call[s].op = "push"
      BY <1>1, <2>1 DEF IInv, Progress, Builds, PushPoints, PopPoints
    <3>2. QED
      BY <1>1, <2>1, <3>1 DEF IInv, Locks, Builds
  <2>2. QED
    BY <1>1, <2>1 DEF IInv, Locks, OneClientPerQueue
<1>2. QED
  BY <1>1, Invariance, PTL

\* Over Redis, what a client was told is pushed is at the broker until a handler that
\* received it acknowledges it.
THEOREM NoPushIsLost == Spec => []PushedIsKept
<1>1. IInv => PushedIsKept
  BY DEF IInv
<1>2. QED
  BY <1>1, Invariance, PTL

=============================================================================
