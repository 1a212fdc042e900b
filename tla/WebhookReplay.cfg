SPECIFICATION FairSpec
CONSTANTS
  Deliveries <- OneDelivery
  Carries <- OneDeliveryEvent
  Tenants <- MCTenants
  Replays <- TwoReplays
  Requester <- TwoRequesters
  AlertRules <- NoRules
  Procs <- MCProcs
  Api = "api"
  Concurrency = 1
  MaxAttempts = 2
  MaxStalls = 1
  MaxFaults = 0
  PromptHandlers = TRUE
  NoRow = NoRow
  NoProc = NoProc
PROPERTIES
  ProcessingMeansLiveJob
  ImplementsLedger
  EveryEventSettles
CHECK_DEADLOCK FALSE
