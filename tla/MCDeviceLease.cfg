SPECIFICATION Spec
CONSTANTS
  Clients = {a, b}
  Others = {}
  NoOne = NoOne
  TTL = 4
  Interval = 1
  PostTime = 1
  Poll = 1
  WaitTimeout = 1
  RenewRevives = FALSE
  Deployments = {TRUE, FALSE}
  MaxLate = 1
INVARIANTS HeldIsExclusive ReleaseIsFinal LeaseInv
PROPERTIES OneUserAtATime
SYMMETRY Symmetry
