SPECIFICATION BlockSpec
CONSTANTS
  Registers = {0, 1, 7}
  Words = 3
  Value <- MCValue
INVARIANT
  BlockTypeOK
PROPERTY
  BlocksReturn
CHECK_DEADLOCK FALSE
