CONSTANTS
  Width = 4
  AheadAVX2 = 4
  AheadNEON = 6
  CrcBits = 16
  Poly <- CRC16
  Quarters <- QuartersOf
  Kernels = {"AVX2", "NEON"}
  MaxCalls = 2
  Specials = 3
  Fill = 120
  Inputs <- MCInputs
  Trace <- MCTrace
SPECIFICATION Spec
INVARIANTS
  TypeOK
  UnreadIsLineEnd
  CrcIsOfData
PROPERTY
  ImplementsReader
CHECK_DEADLOCK FALSE
