SPECIFICATION Spec
CONSTANTS
  ReloadModulus = 16777216
  RamSize = 512
  FlashSize = 110
  MaxIter = 12
  Uninit = Uninit
  Images <- MCImages
PROPERTY FrameBelowActiveSP
CHECK_DEADLOCK FALSE
