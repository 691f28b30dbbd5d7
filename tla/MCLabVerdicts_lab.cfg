CONSTANTS
  Selections <- AskedFor
  Requested = {0, 7, 30}
  AIItems <- WrittenItems
  MaxAIItems = 2
  MaxFaults = 2
SPECIFICATION LabVerdictsSpec
INVARIANTS
  LabVerdictsTypeOK
  RiskIsOfAFailure
  ForgedMovesNothing
  PaidIsSettled
  OnlyKnownScenariosFail
CHECK_DEADLOCK FALSE
