SPECIFICATION Spec
CONSTANTS
  Byte = {0, 1}
  bufferSize = 4
  MaxSize = 5
CHECK_DEADLOCK FALSE
INVARIANTS
  TypeOK
  PositionsAgree
PROPERTIES
  ImplementsFifo
