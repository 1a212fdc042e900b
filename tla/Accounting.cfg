SPECIFICATION Spec
CONSTANTS
  Tenants <- TwoTenants
  Flows <- OneFlow
  Disconnects <- OneDisconnect
  ActorTenant <- OfAcme
  Seeded <- SeededKey
  Runs <- TwoRuns
  RunTenant <- ManualAndNightly
  Nightly = "nightly"
  Charges <- OneCharge
  ChargeTenant <- ChargeOfAcme
  NoCharge = "no charge"
  Succeeded <- OneCharge
  PageLimit = 1
  MaxToken = 3
  SyncFaults = 1
INVARIANTS
  EntriesAccounted
  StoredTokenAccepted
  ConnectedIsActive
PROPERTIES
  NightlyTakesAll
  SyncedIsLasting
CHECK_DEADLOCK FALSE
