CONSTANTS
  LineLength = 8
  Batch = 4
  Raw = FALSE
  Kernels = {"generic", "AVX2", "NEON"}
  PartSizes <- MCPartSizes
  Pieces <- MCPieces
  MaxPiece = 6
  MaxData = 18
  MaxWrites = 3
  WriterFails = TRUE
  Slack = 6
  Vector = 2
  MinLine = 3
  ShortSrc = 2
SPECIFICATION Spec
INVARIANTS
  TypeOK
  IntactUnlessReported
  NoBlankUnlessFlushed
  SingleWriteFits
  BufferSuffices
  SameUnlessLineEnd
