\* The documented command "icgrep -f regexpf f", without and with threads.
SPECIFICATION Spec
CONSTANTS
  a = a
  b = b
  Name = {a, b}
  MaxLines = 1
  Commands <- FromRegexFile
INVARIANTS PrintedAsPromised
CHECK_DEADLOCK FALSE
