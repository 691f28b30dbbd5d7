CONSTANTS
  t1 = t1
  t2 = t2
  api = api
  worker = worker
  NoTask = NoTask
  Hosts = {api, worker}
  HostOf <- MCHostOf
  AIActions <- MCButNoAction
  UPIRail = FALSE
  OverCap = TRUE
  AmountsMatch = TRUE
  SyntheticVerdict = "SUCCESS"
  InitStates = {"CREATED", "UNCERTAIN"}
  RowWriters = {"report_failure", "webhook", "verify_payment"}
  DbFails = TRUE
  ProviderFails = TRUE
  MaxVersion = 1
  MaxCases = 1
  LiveExpiry = FALSE
  RedisFails = FALSE
  MaxKeyLosses = 1
  MaxRestarts = 1
  Tasks = {t1, t2}
SPECIFICATION ResolutionSpec
SYMMETRY MCSwap
INVARIANTS CapturedIsBacked RefundWithinCap
CHECK_DEADLOCK FALSE
