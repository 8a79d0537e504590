SPECIFICATION Spec
CONSTANTS
  Chars = {"x", "lf", "vt", "cr", "nel", "ls", "aring", "u1028"}
  MaxChars = 4
  LFOnly = FALSE
INVARIANTS
  TypeOK
  OutputIsSelectedLines
  EveryLineOffered
  LineNumbersRight
CHECK_DEADLOCK FALSE
