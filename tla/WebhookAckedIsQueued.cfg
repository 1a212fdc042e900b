SPECIFICATION FairSpec
CONSTANTS
  Deliveries <- TwoDeliveries
  Carries <- OneEvent
  Tenants <- MCTenants
  Replays <- NoReplays
  Requester <- NoRequester
  AlertRules <- NoRules
  Procs <- MCProcs
  Api = "api"
  Concurrency = 5
  MaxAttempts = 3
  MaxStalls = 1
  MaxFaults = 1
  PromptHandlers = TRUE
  NoRow = NoRow
  NoProc = NoProc
PROPERTIES
  AckedIsQueued
CHECK_DEADLOCK FALSE
