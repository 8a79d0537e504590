SPECIFICATION Spec
CONSTANTS
  BlockSize = 4
  ScanWordSize = 2
  SegmentSize = 2
  MaxShort = 5
  LongSizes = {7, 8, 9, 12, 16, 17, 21}
  Period = 3
  Files <- MCFiles
INVARIANTS
  TypeOK
  ICGrepReadsItsBlock
  ScanReadsItsBlock
  CarriesKnowTheLine
PROPERTIES
  PipelineImplementsSearch
CHECK_DEADLOCK FALSE
