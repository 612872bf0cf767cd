CONSTANTS
  OptionSize = 4
  DefaultReadBufSize = 4
  MaxReadBufSize = 12
  StreamLen = 60
  Text <- MCText
  YencMaxPartSize = 9
  YencMinBufferSize = 2
  SizeMargin = 4
  IntMax = 20
  PoolCaps = {0, 9}
  Streams <- EndWithDataStream
SPECIFICATION Spec
INVARIANTS
  AnswersAreDue
CHECK_DEADLOCK FALSE
