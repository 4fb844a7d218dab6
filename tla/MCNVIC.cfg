SPECIFICATION NVICFairSpec
CONSTANT IRQs <- MCIRQs
INVARIANTS NVICTypeOK NoSpuriousInterrupt
PROPERTIES ImplementsLevelInterrupts HeldLineIsServed
