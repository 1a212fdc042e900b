SPECIFICATION Spec
CONSTANTS
  Invoices <- OneInvoice
  SeqIds <- OneSequence
  TenantOf <- OneTenant
  Failures <- OneFailure
  FailedInvoice <- FailedOne
  Successes <- OneSuccess
  PaidInvoice <- PaidOne
  Edits <- None
  Dto <- NoFunction
  StepLists <- OneStep
  InitialSequences <- OneStepDefault
  Ticks <- OneTick
  TickProc <- OneTickProc
  Procs <- MCProcs
  Api = "api"
  Concurrency = 3
  MaxStalls = 1
  Horizon = 1
  MaxFaults = 0
  NoProc = NoProc
  NoInvoice = NoInvoice
PROPERTIES
  NoMessageOnceRecovered
CHECK_DEADLOCK FALSE
