\* Batches of up to three mails, tried four times.
CONSTANTS
  c1 = c1
  m1 = m1
  m2 = m2
  m3 = m3
  malformed = malformed
  unbuildable = unbuildable
  Schemes = {"memory", "smtp"}
  Mails <- FiveMails
  Malformed = {malformed}
  Unbuildable = {unbuildable}
  Clients = {c1}
  Calls <- SomeCalls
  MaxTries = 4
  Nil = Nil
SPECIFICATION Spec
INVARIANTS TypeOK ToldIsSent TwiceOnlyInDoubt
CHECK_DEADLOCK FALSE
