SPECIFICATION FairSpec
CONSTANTS
  Deliveries <- OneDelivery
  Carries <- OneDeliveryEvent
  Tenants <- MCTenants
  Replays <- OneReplay
  Requester <- OneRequester
  AlertRules <- NoRules
  Procs <- MCProcs
  Api = "api"
  Concurrency = 5
  MaxAttempts = 2
  MaxStalls = 1
  MaxFaults = 2
  PromptHandlers = TRUE
  NoRow = NoRow
  NoProc = NoProc
INVARIANTS
  DlqOnlyExhausted
  FailedIsDeadLettered
  UnsettledIsOwned
PROPERTIES
  JobsEnd
CHECK_DEADLOCK FALSE
