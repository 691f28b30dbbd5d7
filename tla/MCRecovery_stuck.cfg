CONSTANTS
  w = w
  p = p
  api = api
  worker = worker
  NoTask = NoTask
  NoItem = NoItem
  Tasks = {w, p}
  Hosts = {api, poller, worker}
  poller = poller
  HostOf <- MCHostOf
  Worker = w
  Poller = {p}
  ApiHost = api
  AIActions = {}
  UPIRail = TRUE
  OverCap = FALSE
  AmountsMatch = TRUE
  SyntheticVerdict = "SUCCESS"
  MaxVersion = 1
  LiveExpiry = FALSE
  RedisFails = FALSE
  MaxKeyLosses = 1
  MaxRestarts = 0
  MaxAttempts = 2
  InitStates = {"CREATED"}
  RowWriters = {"verify_payment"}
  Items = {"verify_payment"}
  Rulings = {}
  DbFails = FALSE
  ProviderFails = FALSE
  MaxCases = 1
  MaxRequests = 1
  MaxRaises = 0
SPECIFICATION FairRecoverySpec
PROPERTIES AuthorizedIsReconciled
CHECK_DEADLOCK FALSE
