--------------------------- MODULE MCQueueBroker ---------------------------
(* Instances of QueueBroker for TLC. *)
EXTENDS QueueBroker

CONSTANTS q1, q2, r1, r2, r3

TwoQueues == {q1, q2}
ThreeRequests == {r1, r2, r3}

\* Any calls.  Queues are alike: the one that the first request uses is called q1.
AnyCalls ==
  [r \in Requests |-> {c \in Call : r = r1 => c.name = q1}]
=============================================================================
