SPECIFICATION Spec
CONSTANTS
  Invoices <- OneInvoice
  SeqIds <- OneSequence
  TenantOf <- OneTenant
  Failures <- OneFailure
  FailedInvoice <- FailedOne
  Successes <- None
  PaidInvoice <- NoFunction
  Edits <- None
  Dto <- NoFunction
  StepLists <- OneStep
  InitialSequences <- OneStepDefault
  Ticks <- TwoTicks
  TickProc <- TwoTickProcs
  Procs <- MCProcs
  Api = "api"
  Concurrency = 3
  MaxStalls = 1
  Horizon = 2
  MaxFaults = 0
  NoProc = NoProc
  NoInvoice = NoInvoice
INVARIANTS
  PickedUpOnce
CHECK_DEADLOCK FALSE
