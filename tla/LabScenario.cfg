CONSTANTS
  None = None
  Scenario <- Scenarios
  OtherFaults <- SomeFaults
  MaxOthers = 1
  MaxRuns = 2
  MaxFaults = 2
SPECIFICATION Spec
INVARIANTS TypeOK ResultTruthful
CHECK_DEADLOCK FALSE
