\* Three requests on two queues, over either broker, with fairness.
CONSTANTS
  q1 = q1
  q2 = q2
  r1 = r1
  r2 = r2
  r3 = r3
  Queues <- TwoQueues
  Requests <- ThreeRequests
  Backends = {"redis", "rabbitmq"}
  Calls <- AnyCalls
  Nil = Nil
SPECIFICATION LiveSpec
INVARIANTS TypeOK OneClientPerQueue PushedIsKept
PROPERTY EveryRequestEnds
CHECK_DEADLOCK FALSE
