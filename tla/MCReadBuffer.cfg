CONSTANTS
  OptionSize = 0
  DefaultReadBufSize = 2
  MaxReadBufSize = 5
  StreamLen = 8
SPECIFICATION RBSpec
INVARIANTS
  RBTypeOK
  WindowIsStream
  ReaderHasRoom
  GivesUpOnlyWhenFull
PROPERTY
  GrowsOnlyWhenFull
