CONSTANTS
  w = w
  p = p
  api = api
  worker = worker
  NoTask = NoTask
  NoItem = NoItem
  Tasks = {w, p}
  Hosts = {api, poller, worker}
  poller = poller
  HostOf <- MCHostOf
  Worker = w
  Poller = {p}
  ApiHost = api
  AIActions = {}
  UPIRail = TRUE
  OverCap = FALSE
  AmountsMatch = TRUE
  SyntheticVerdict = "SUCCESS"
  MaxVersion = 0
  LiveExpiry = FALSE
  RedisFails = FALSE
  MaxKeyLosses = 2
  MaxRestarts = 1
  MaxAttempts = 2
  InitStates = {"PENDING_RAIL", "UNCERTAIN"}
  RowWriters = {"webhook", "report_failure"}
  Items = {"webhook", "report_failure"}
  Rulings = {}
  DbFails = TRUE
  ProviderFails = TRUE
  MaxCases = 1
  MaxRequests = 1
  MaxRaises = 1
SPECIFICATION FairRecoverySpec
PROPERTIES UncertainIsPursued
CHECK_DEADLOCK FALSE
