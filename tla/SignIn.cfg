SPECIFICATION Spec
CONSTANTS
  SignUps = {"s1", "s2"}
  LogIns = {"l1", "l2"}
  LogOuts = {"x1"}
  MaxFailedLogins = 2
  MaxAttempts = 3
  People = {"ann"}
  DemoUser = "ann"
  Calls = {"q1"}
  MaxIssued = 4
INVARIANTS
  LockNeedsFailures
  FailuresAreCounted
  DuplicateNeedsOverlap
  SignedOutStaysOut
PROPERTIES
  QueuedSettles
CHECK_DEADLOCK FALSE
