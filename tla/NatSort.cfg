CONSTANTS
  Byte = {45, 48, 49, 97}
  MaxLen = 3
  MaxInt = 100

SPECIFICATION Spec

INVARIANTS
  StrictOrder
  NaturalOrder

CHECK_DEADLOCK FALSE
