SPECIFICATION Spec
CONSTANTS
  Reach26 = 1024
  Reach19 = 512
  Reach14 = 128
  Reach21 = 512
  ReachPages = 4096
  PageSize = 64
  Plugins <- MCPlugins
  Bases = {4096}
INVARIANTS TypeOK PartsFit
CHECK_DEADLOCK FALSE
