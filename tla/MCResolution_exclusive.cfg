CONSTANTS
  t1 = t1
  t2 = t2
  api = api
  worker = worker
  NoTask = NoTask
  Hosts = {api, worker}
  HostOf <- MCHostOf
  AIActions <- ActionTypes
  UPIRail = TRUE
  OverCap = FALSE
  AmountsMatch = TRUE
  SyntheticVerdict = "SUCCESS"
  InitStates = {"CREATED", "PENDING_RAIL", "UNCERTAIN"}
  RowWriters = {}
  DbFails = TRUE
  ProviderFails = TRUE
  MaxVersion = 2
  MaxCases = 1
  LiveExpiry = FALSE
  RedisFails = FALSE
  MaxKeyLosses = 1
  MaxRestarts = 1
  Tasks = {t1, t2}
SPECIFICATION ResolutionSpec
SYMMETRY MCSwap
INVARIANTS ResolutionTypeOK MutualExclusion SnapshotFresh AuditTrailComplete LedgerNeverAhead CapturesOnce MoneyIsReconstructable
PROPERTIES ImplementsLifecycle
CHECK_DEADLOCK FALSE
