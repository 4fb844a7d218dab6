SPECIFICATION FairSpec
CONSTANTS
  ReloadModulus = 16777216
  RamSize = 512
  FlashSize = 110
  MaxIter = 12
  Uninit = Uninit
  Images <- MCImages
INVARIANTS
  TypeOK
  RequestsServedAtOnce
  ExceptionChain
  MainStackAccounting
  ReturnAddressIsValid
  SvcReturnsPastSvc
  InstructionMatchesPC
PROPERTIES
  OneTickEntryPerIteration
  RunEnds
CHECK_DEADLOCK FALSE
