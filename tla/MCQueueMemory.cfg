\* Four requests on one queue and one topic, with fairness.
CONSTANTS
  r1 = r1
  r2 = r2
  r3 = r3
  r4 = r4
  Topics = {t}
  Queues = {q}
  Requests <- FourRequests
  Calls <- Roles
  Nil = Nil
SPECIFICATION LiveSpec
INVARIANTS TypeOK EachMessageOnce
PROPERTIES ImplementsChannels EveryRequestEnds
CHECK_DEADLOCK FALSE
