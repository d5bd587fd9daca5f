SPECIFICATION FairSpec
CONSTANTS
  DataSize = 3
  MaxBlock = 4
  ReadWords = 2
  RollBack = 1
  MaxIndex = 9
INVARIANT TypeOK
INVARIANT CursorBehindWriter
INVARIANT WordsNotStale
PROPERTY OverrunPasses
