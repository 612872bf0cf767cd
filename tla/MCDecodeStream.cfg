CONSTANTS
  MaxLen = 4
  MaxTail = 4
  Other = 20
  Inputs <- MCInputs
  Trace <- MCTrace
SPECIFICATION Spec
INVARIANTS
  TypeOK
  StaysInBounds
  SameAsReference
  StopsAtTheEnd
  UnreadIsLineEnd
PROPERTY
  DecodesAll
CHECK_DEADLOCK FALSE
