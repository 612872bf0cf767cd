CONSTANTS
  OptionSize = 4
  DefaultReadBufSize = 4
  MaxReadBufSize = 12
  StreamLen = 60
  Text <- MCText
  YencMaxPartSize = 9
  YencMinBufferSize = 2
  SizeMargin = 4
  IntMax = 20
  PoolCaps = {0, 9}
  Streams <- NoYendStream
SPECIFICATION Spec
INVARIANTS
  NeverPanics
CHECK_DEADLOCK FALSE
