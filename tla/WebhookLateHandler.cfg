SPECIFICATION Spec
CONSTANTS
  Deliveries <- OneDelivery
  Carries <- OneDeliveryEvent
  Tenants <- MCTenants
  Replays <- NoReplays
  Requester <- NoRequester
  AlertRules <- NoRules
  Procs <- MCProcs
  Api = "api"
  Concurrency = 5
  MaxAttempts = 3
  MaxStalls = 1
  MaxFaults = 0
  PromptHandlers = FALSE
  NoRow = NoRow
  NoProc = NoProc
INVARIANTS
  StillRetrying
CHECK_DEADLOCK FALSE
