\* Two code points to a quad, four quads.
SPECIFICATION Spec
CONSTANTS
  QUAD_BITS = 2
  UNICODE_QUAD_COUNT = 4
  IntervalLists <- MCIntervalLists
INVARIANTS TypeOK StaysVerified RepresentsMembers IntervalsAreExact
CHECK_DEADLOCK FALSE
