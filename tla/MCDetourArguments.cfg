SPECIFICATION Spec
CONSTANTS
  EntrySp = 64
  Hooks <- PlainHooks
INVARIANTS ResumesWithArguments
CHECK_DEADLOCK FALSE
