SPECIFICATION Spec
CONSTANTS
  Ops <- AllOps
  ByteBits = 2
  MaxRing = 4
INVARIANTS
  TypeOK
  ScansCrossBlocks
  AdvancesCrossBlocks
  RepetitionsCountRight
  DeletionKeepsTheRest
