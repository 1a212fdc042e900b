SPECIFICATION Spec
CONSTANTS
  Deliveries <- ClashingDeliveries
  Carries <- ClashingCarries
  Tenants <- MCTenants
  Replays <- NoReplays
  Requester <- NoRequester
  AlertRules <- OneRule
  Procs <- MCProcs
  Api = "api"
  Concurrency = 5
  MaxAttempts = 1
  MaxStalls = 1
  MaxFaults = 1
  PromptHandlers = TRUE
  NoRow = NoRow
  NoProc = NoProc
INVARIANTS
  IngestedOnce
  AckedIsStored
  AlertsFollowProcessing
CHECK_DEADLOCK FALSE
