SPECIFICATION Spec
CONSTANTS
  RAM_BASE = 24
  FLASH_SIZE = 20
  RAM_SIZE = 16
  Segments <- MCSegments
  MaxSegments = 2
  Layouts <- MCLayouts
  Calls <- MCCalls
  MaxValue = 99
  Base = 10
  BufferSize = 2
  Nibble = 16
  Nibbles = 2
INVARIANT
  TypeOK
  MemoryIsTheImage
  MainFindsItsData
  BufferHoldsEveryNumber
  PrintsTheFormat
PROPERTY
  BootEnds
  RegularCallsAdvance
CHECK_DEADLOCK FALSE
