\* Every expression of the families, with and without Unicode line breaks.
SPECIFICATION Spec
CONSTANTS
  Lines <- MCLines
  Breaks <- MCBreaks
  Width <- MCWidth
  Commands <- MCCommands
INVARIANTS TypeOK PassesKeepTheLines NoLineMissed NoLineAdded
CHECK_DEADLOCK FALSE
