CONSTANTS
  r1 = r1
  r2 = r2
  Runs = {r1, r2}
  NoRun = NoRun
  NScenarios = 2
  SeedStates = {"CREATED"}
  DbFails = TRUE
  MaxCrashes = 1
SPECIFICATION FairLabSpec
INVARIANTS
  LabTypeOK
  OneRunAtATime
  ReportedIsRecorded
  CompletedIsWhole
  TasksAreSettled
PROPERTIES RunsEnd
CHECK_DEADLOCK FALSE
