\* Three calls on two connections, with fairness.
CONSTANTS
  a = a
  b = b
  r1 = r1
  r2 = r2
  r3 = r3
  Rows <- TwoRows
  Initial <- OneEach
  Requests <- ThreeRequests
  Calls <- Roles
  Pool = 2
  Nil = Nil
SPECIFICATION LiveSpec
INVARIANTS TypeOK SuccessIsCommitted
PROPERTIES AllOrNothing EveryRequestEnds
CHECK_DEADLOCK FALSE
