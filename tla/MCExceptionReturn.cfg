SPECIFICATION Spec
CONSTANTS
  RamSize = 108
  Uninit = Uninit
  InitialSP = 108
  PspBound = 40
  Code <- MCCode
  FlashFrames <- MCFlashFrames
INVARIANTS TypeOK ModeMatchesActive MainStackNeverClimbs
