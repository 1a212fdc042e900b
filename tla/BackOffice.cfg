SPECIFICATION Spec
CONSTANTS
  FirstTemplate = "t0"
  Edits = {"t1", "t2"}
  Generations = {"g1", "g2"}
  Submissions = {"s1", "s2"}
  MaxEvents = 4
  Offers = {"o1", "o2", "x1"}
  Foreign = {"x1"}
  Changes = {"c1"}
  Visits = {"v1"}
  Reports = {"r1"}
  MaxPosts = 2
  Seeds = {"seed1", "seed2"}
  Resets = {"reset1", "reset2"}
  Sims = {"sim1"}
  DemoDeaths = 1
  Starts = 2
  Filters = {"all", "one"}
  MaxWrites = 2
  MaxFaults = 1
INVARIANTS
  TypeOK
  DefaultAccounted
  GeneratedIsBacked
  RowFollowsStripe
  UnknownNeedsChurn
  OutcomeKept
  SucceededIsWhole
  FailedHasReason
  SeedsNeverDouble
  OwnChangeIsShown
CHECK_DEADLOCK FALSE
