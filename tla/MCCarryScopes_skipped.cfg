SPECIFICATION Spec
CONSTANTS
  MaxRing = 4
  Programs <- SkippedPrograms
INVARIANTS
  SkippedScopesHoldNoCarry
