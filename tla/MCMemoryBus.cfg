SPECIFICATION Spec
CONSTANTS
  ByteMax = 1
  AddressSpan = 32
  FlashSize = 5
  Flash <- MCFlash
  RAM_BASE = 9
  RamSize = 5
  UART_DR = 18
  SCS_BASE = 24
  SCS_LAST = 27
  SCBRegisters = {24}
  Bases <- MCBases
  Offsets <- MCOffsets
  Immediates = {0, 1}
INVARIANT
  TypeOK
PROPERTY
  KeepsWhatIsStored
CHECK_DEADLOCK FALSE
