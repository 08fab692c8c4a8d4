SPECIFICATION Spec
CONSTANTS
  Reach26 = 200
  Reach19 = 120
  Reach14 = 80
  Reach21 = 120
  ReachPages = 192
  PageSize = 64
  Sources = {384}
  Destinations = {240, 560, 242}
  Instructions <- MCInstructions
  MaxItems = 3
INVARIANTS TypeOK NeverDiverges NeverMissized FitsReservation BranchesPreserved
CHECK_DEADLOCK FALSE
