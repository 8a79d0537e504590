SPECIFICATION Spec
CONSTANTS
  MaxRing = 4
  Programs <- SupportedPrograms
INVARIANTS
  TypeOK
  SkippedScopesHoldNoCarry
  SummariesAreExact
  CarriesInWhatWasCarriedOut
