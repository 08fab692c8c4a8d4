SPECIFICATION Spec
CONSTANTS
  EntrySp = 64
  Hooks <- SwapHooks
INVARIANTS ArgumentsCopied
CHECK_DEADLOCK FALSE
