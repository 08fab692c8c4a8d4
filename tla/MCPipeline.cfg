SPECIFICATION FairSpec
CONSTANTS
  TextEnd = 12
  Inputs <- MCInputs
INVARIANTS TypeOK CallsHandlers PatchesApplied FailsCleanly
PROPERTIES OverwrittenIsKept InstallsHooks Terminates
CHECK_DEADLOCK FALSE
