SPECIFICATION Spec
CONSTANTS
  Run = {r1, r2, r3}
  Regex = {ab, ncd, nef}
  Named = {ncd, nef}
  Invert = {FALSE}
  Chunks = 2
SYMMETRY RunSymmetry
INVARIANTS
  TypeOK
  RunsItsProgram
  NoForeignCode
  CacheSettles
CHECK_DEADLOCK FALSE
