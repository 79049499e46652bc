\* An async script that throws after its first statement.
CONSTANTS
  a = a
  b = b
  Rows <- TwoRows
  Initial <- OneEach
  r1 = r1
  r2 = r2
  r3 = r3
  Requests <- OneRequest
  Calls <- AsyncScripts
  Pool = 1
  Nil = Nil
SPECIFICATION Spec
INVARIANT ThrowRollsBack
CHECK_DEADLOCK FALSE
