CONSTANTS
  LineLength = 3
  Batch = 4
  Raw = TRUE
  Kernels = {"generic"}
  PartSizes <- NoSizes
  Pieces <- AnyPiecesAnywhere
  MaxPiece = 2
  MaxData = 6
  MaxWrites = 3
  WriterFails = FALSE
  Slack = 2
  Vector = 2
  MinLine = 3
  ShortSrc = 2
SPECIFICATION Spec
INVARIANTS
  LinesFit
