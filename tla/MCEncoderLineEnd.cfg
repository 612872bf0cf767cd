CONSTANTS
  LineLength = 8
  Batch = 4
  Raw = FALSE
  Kernels = {"AVX2"}
  PartSizes <- MCPartSizes
  Pieces <- MCPieces
  MaxPiece = 6
  MaxData = 18
  MaxWrites = 3
  WriterFails = FALSE
  Slack = 6
  Vector = 2
  MinLine = 3
  ShortSrc = 2
SPECIFICATION Spec
INVARIANTS
  SameAsPortable
