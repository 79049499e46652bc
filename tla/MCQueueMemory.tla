---------------------------- MODULE MCQueueMemory ----------------------------
(* Instances of QueueMemory for TLC. *)
EXTENDS QueueMemory

CONSTANTS r1, r2, r3, r4

FourRequests == {r1, r2, r3, r4}

Produce == [op : {"push"}, name : Queues] \union [op : {"publish"}, name : Topics]

Pop == [op : {"pop"}, name : Queues]

Subscribe(max, timeout) == [op : {"subscribe"}, name : Topics, max : {max}, timeout : {timeout}]

\* Who may do what: up to two producers and two subscribers, one of them perhaps
\* without any time, or one that asks for nothing; or a push and three pops.
Roles ==
  [r \in FourRequests |->
     CASE r = r1 -> Produce
       [] r = r2 -> Produce \union Pop
       [] r = r3 -> Pop \union Subscribe(2, 1) \union Subscribe(0, 1)
       [] r = r4 -> Pop \union Subscribe(2, 1) \union Subscribe(2, 0)]
=============================================================================
