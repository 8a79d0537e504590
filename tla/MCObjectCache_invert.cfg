SPECIFICATION Spec
CONSTANTS
  Run = {r1, r2}
  Regex = {ab}
  Named = {}
  Invert = {TRUE, FALSE}
  Chunks = 2
INVARIANTS
  RunsItsProgram
CHECK_DEADLOCK FALSE
