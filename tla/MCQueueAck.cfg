\* Over Redis: the acknowledgement comes before the answer.
CONSTANTS
  q1 = q1
  q2 = q2
  r1 = r1
  r2 = r2
  r3 = r3
  Queues <- TwoQueues
  Requests <- ThreeRequests
  Backends = {"redis"}
  Calls <- AnyCalls
  Nil = Nil
SPECIFICATION Spec
INVARIANT AtLeastOnce
CHECK_DEADLOCK FALSE
