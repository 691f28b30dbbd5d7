CONSTANTS
  t1 = t1
  t2 = t2
  t3 = t3
  api = api
  worker = worker
  NoTask = NoTask
  Tasks = {t1, t2, t3}
  Hosts = {api, worker}
  HostOf <- MCHostOf
  LiveExpiry = TRUE
  RedisFails = TRUE
  MaxKeyLosses = 2
  MaxRestarts = 2
SPECIFICATION LockSpec
INVARIANTS OverlapBound
SYMMETRY MCSymmetry
CHECK_DEADLOCK FALSE
