\* One thread or two, up to two files: safety, refinement and termination.
SPECIFICATION Spec
CONSTANTS
  a = a
  b = b
  Name = {a, b}
  MaxLines = 2
  Commands <- PromisedCommands
INVARIANTS TypeOK ClaimsDiffer SearchedOnce SlotsNotShared EveryFileSearched
PROPERTY DriverImplementsSpec
CHECK_DEADLOCK FALSE
