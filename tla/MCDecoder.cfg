SPECIFICATION Spec
CONSTANTS
  Uninit = Uninit
  Offsets <- MCOffsets
  Instructions <- MCInstructions
INVARIANTS
  TypeOK
  EveryHalfwordHasAClass
  DecodingIsMemoryless
  BranchesReachTheirTargets
CHECK_DEADLOCK FALSE
