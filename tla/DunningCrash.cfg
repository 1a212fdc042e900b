SPECIFICATION FairSpec
CONSTANTS
  Invoices <- OneInvoice
  SeqIds <- OneSequence
  TenantOf <- OneTenant
  Failures <- OneFailure
  FailedInvoice <- FailedOne
  Successes <- None
  PaidInvoice <- NoFunction
  Edits <- None
  Dto <- NoFunction
  StepLists <- OneStep
  InitialSequences <- OneStepDefault
  Ticks <- OneTick
  TickProc <- OneTickProc
  Procs <- MCProcs
  Api = "api"
  Concurrency = 3
  MaxStalls = 1
  Horizon = 1
  MaxFaults = 2
  NoProc = NoProc
  NoInvoice = NoInvoice
INVARIANTS
  AttemptsMatchMessages
  RetryHasJob
PROPERTIES
  OverdueIsPickedUp
  PlannedStepsEnd
CHECK_DEADLOCK FALSE
