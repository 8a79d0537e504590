\* Four expressions whose lines are not those found.
SPECIFICATION Spec
CONSTANTS
  Lines <- MCLines
  Breaks <- MCBreaks
  Width <- MCWidth
  Commands <- WrongCommands
INVARIANTS LinesFoundMatch
CHECK_DEADLOCK FALSE
