CONSTANTS
  w1 = w1
  w2 = w2
  NoItem = NoItem
  Items = {1, 2}
  Workers = {w1, w2}
  MaxAttempts = 3
  DbFails = TRUE
  LiveLapse = FALSE
  MaxCrashes = 2
SPECIFICATION FairWorkerSpec
INVARIANTS WorkerTypeOK HolderIsCurrent
PROPERTIES SettledIsFinal ImplementsTaskQueue SettlesOrExhausts
CHECK_DEADLOCK TRUE
