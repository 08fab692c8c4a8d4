SPECIFICATION Spec
CONSTANTS
  Page <- MCPage
  SegmentCommand = 1
  SectionCommand = 1
  SignatureCommand = 1
  MaxBase = 3
  MaxName = 5
  Hash <- MCHash
  Lower <- MCLower
  Words <- MCWords
  Inputs <- MCLinked
INVARIANT FixupsLoaded
CHECK_DEADLOCK FALSE
