SPECIFICATION Spec
CONSTANTS
  Bits = {0}
  Words = 6
  SectorWords = 3
  BufWords = 3
  WordBytes = 2
  Written = {1, 2, 3}
  Data <- MCData
  Cmd <- Codes
  Count <- MCCount
  BitsOf <- MCBitsOf
  HalfPage = 2
  Spare = 1
  PagesPerBlock = 2
  Blocks = 2
  RowBase = 2
  IDs <- MCIDs
  Image <- MCImage
  NandBytes = {15}
  MaxCommits = 1
  MaxData = 2
  MaxReads = 2
INVARIANTS
  TypeOK
  
  NandReadExact
PROPERTIES
  LockedUnchanged
  OnlyEraseSets
  BufferExact
  ReadyAgain
  NandCommitExact
