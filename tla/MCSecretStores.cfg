\* Every backend; two creates, two other calls.
CONSTANTS
  n1 = n1
  r1 = r1
  r2 = r2
  r3 = r3
  r4 = r4
  Schemes = {"memory", "vault", "aws", "gcp"}
  Names = {n1}
  Requests <- FourRequests
  Calls <- Roles
  Nil = Nil
  Gone = Gone
SPECIFICATION Spec
INVARIANTS TypeOK CreateIsExclusive AnswersAreTrue ShellIsUnfinished
PROPERTY DenialsAreJustified
CHECK_DEADLOCK FALSE
