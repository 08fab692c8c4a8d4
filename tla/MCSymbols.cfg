SPECIFICATION SymbolsSpec
CONSTANTS
  Reach26 = 64
  Reach19 = 32
  Reach14 = 16
  Reach21 = 32
  ReachPages = 128
  PageSize = 32
  Wide = 2800
  Inputs <- MCInputs
  HighBits = 1000
  MaxMethods = 3
  StubStep = 4
INVARIANTS TypeOK CallsArrive DataArrives PatchesArrive LookupTypeOK HooksTheNamed MethodsAreFound CallsTheNamed
CHECK_DEADLOCK FALSE
