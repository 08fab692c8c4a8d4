SPECIFICATION Spec
CONSTANTS
  Arm64 = "arm64"
  MaxSlices = 3
  Limit = 100
  CaveSize = 3
  Inputs <- MCFatInputs
INVARIANT CaveFilled
CHECK_DEADLOCK FALSE
