CONSTANTS
  w1 = w1
  w2 = w2
  NoItem = NoItem
  Items = {1, 2}
  Workers = {w1, w2}
  MaxAttempts = 2
  DbFails = TRUE
  LiveLapse = TRUE
  MaxCrashes = 1
SPECIFICATION WorkerSpec
INVARIANTS ClaimsDistinct DeadOnlyWhenExhausted
SYMMETRY MCWorkerSymmetry
CHECK_DEADLOCK TRUE
