SPECIFICATION Spec
CONSTANTS
  MainName = 5
  ScriptName <- MCScriptName
  Inputs <- MCInputs
INVARIANTS TypeOK PluginsAsAsked LeavesNothing
CHECK_DEADLOCK FALSE
