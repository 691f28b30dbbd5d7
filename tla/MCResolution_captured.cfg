CONSTANTS
  t1 = t1
  t2 = t2
  api = api
  worker = worker
  NoTask = NoTask
  Hosts = {api, worker}
  HostOf <- MCHostOf
  AIActions = {"CAPTURE"}
  UPIRail = FALSE
  OverCap = FALSE
  AmountsMatch = TRUE
  SyntheticVerdict = "SUCCESS"
  InitStates = {"CREATED", "PENDING_RAIL", "UNCERTAIN"}
  RowWriters = {}
  DbFails = FALSE
  ProviderFails = FALSE
  MaxVersion = 1
  MaxCases = 1
  LiveExpiry = FALSE
  RedisFails = FALSE
  MaxKeyLosses = 1
  MaxRestarts = 0
  Tasks = {t1}
SPECIFICATION ResolutionSpec
PROPERTIES FailedIsUnpaid
CHECK_DEADLOCK FALSE
