CONSTANTS
  OptionSize = 4
  DefaultReadBufSize = 4
  MaxReadBufSize = 18
  StreamLen = 60
  Text <- MCText
  YencMaxPartSize = 9
  YencMinBufferSize = 2
  SizeMargin = 4
  IntMax = 20
  PoolCaps = {0, 9}
  Streams <- MCStreams
SPECIFICATION Spec
INVARIANTS
  TypeOK
  AnswersAreDue
  ResponsesKeptApart
  WaitsOnlyForItsResponse
  NeverPanics
  DataFits
  AllocatedOnce
PROPERTIES
  BodyIsRead
  CallsReturn
  RBSpec
CHECK_DEADLOCK FALSE
