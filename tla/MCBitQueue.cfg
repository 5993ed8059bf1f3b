SPECIFICATION ListSpec
CONSTANTS
  BitSize = 50
  Elem <- MCElem
  MaxLen = 6
INVARIANTS ExactQueue
CHECK_DEADLOCK FALSE
