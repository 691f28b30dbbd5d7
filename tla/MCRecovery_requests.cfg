CONSTANTS
  w = w
  p = p
  api = api
  worker = worker
  NoTask = NoTask
  NoItem = NoItem
  Tasks = {w, p}
  Hosts = {api, poller, worker}
  poller = poller
  HostOf <- MCHostOf
  Worker = w
  Poller = {p}
  ApiHost = api
  AIActions = {}
  UPIRail = FALSE
  OverCap = FALSE
  AmountsMatch = TRUE
  SyntheticVerdict = "SUCCESS"
  MaxVersion = 0
  LiveExpiry = FALSE
  RedisFails = FALSE
  MaxKeyLosses = 0
  MaxRestarts = 1
  MaxAttempts = 2
  InitStates = {"UNCERTAIN"}
  RowWriters = {"verify_payment"}
  Items = {"verify_payment"}
  Rulings = {"RECONCILED"}
  DbFails = TRUE
  ProviderFails = TRUE
  MaxCases = 1
  MaxRequests = 1
  MaxRaises = 1
SPECIFICATION RecoverySpec
INVARIANTS RecoveryTypeOK EscalationHasCase RulingOvertakesFew
 
CHECK_DEADLOCK FALSE
