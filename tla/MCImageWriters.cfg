SPECIFICATION WritersSpec
CONSTANTS
  Page <- MCPage
  SegmentCommand = 1
  SectionCommand = 1
  SignatureCommand = 1
  MaxBase = 3
  MaxName = 5
  Hash <- MCHash
  Lower <- MCLower
  Words <- MCWords
  Inputs <- MCInputs
  SmallPage = 4
  ProgramEntry = 1
  SectionEntry = 2
  MaxEntries = 7
  NullName = "null"
  TableName = "shstrtab"
  Arm64 = "arm64"
  MaxSlices = 3
  Limit = 28
  CaveSize = 3
INVARIANTS TypeOK Distinct Follows FixupsFollow NothingOverlaps FoundByName ElfTypeOK ElfLoadable ElfFoundByName FatTypeOK SlicesKept
CHECK_DEADLOCK FALSE
