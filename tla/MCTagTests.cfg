CONSTANTS
  Kinds <- MCKinds
  Ptrs <- MCPtrs
  Values <- MCValues
  Causes <- MCCauses
  Success = "success"
SPECIFICATION FairTests
INVARIANTS HarnessRuns ExpectationsAgree SuccessMeansConforming
PROPERTIES PassMeansExpected ResumesWhereItRan ConformingSucceeds
CHECK_DEADLOCK FALSE
