SPECIFICATION Spec
CONSTANTS
  EntrySp = 64
  Hooks <- MCHooks
INVARIANTS TypeOK HandlersInOrder ArgumentsDelivered SavedIsRestored
CHECK_DEADLOCK FALSE
