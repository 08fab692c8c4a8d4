SPECIFICATION Spec
CONSTANTS
  MainName = 5
  ScriptName <- MCScriptName
  Inputs <- MCInputs
INVARIANTS FilenamesCount
CHECK_DEADLOCK FALSE
