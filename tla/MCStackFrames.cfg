SPECIFICATION Spec
CONSTANTS
  Registers = {0, 1, 7}
  Value = {0, 1}
  Words = 4
  Locals = {1}
INVARIANT
  TypeOK
  FramesIntact
CHECK_DEADLOCK FALSE
