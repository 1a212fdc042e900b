SPECIFICATION PartsSpec
CONSTANTS
  Invoices <- OneInvoice
  SeqIds <- ThreeSequences
  TenantOf <- OneOfTwoTenants
  Failures <- TwoFailures
  FailedInvoice <- FailedTwice
  Successes <- OneSuccess
  PaidInvoice <- PaidOne
  Edits <- TwoEdits
  Dto <- EditDtos
  StepLists <- Lists
  InitialSequences <- TwoDefaults
  Ticks <- TwoTicks
  TickProc <- TwoTicksOfApi
  Procs <- OnlyApi
  Api = "api"
  Concurrency = 3
  MaxStalls = 1
  Horizon = 1
  MaxFaults = 1
  NoProc = NoProc
  NoInvoice = NoInvoice
INVARIANTS
  MessagesNotRepeated
  DoneIsScheduled
  OwnTenantsText
  DefaultKept
  PickUpsAccounted
  DueTimeKept
CHECK_DEADLOCK FALSE
