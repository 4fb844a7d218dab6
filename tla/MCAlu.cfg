SPECIFICATION Spec
CONSTANTS
  Regs = {0, 1}
  Width = 3
  Half = 4
  ByteSpan = 8
  Immediates <- MCImmediates
  BitAnd <- MCBitAnd
  BitOr <- MCBitOr
  BitXor <- MCBitXor
INVARIANTS
  TypeOK
  CompareDecides
  LongCompareDecides
