SPECIFICATION Spec
CONSTANTS
  Key = {k1}
  Value = {empty, v1}
  Empty = empty
  DeletableKey = {}
  MaxSegmentSize = 2
  RunMergeEvery = 100
  ReadAllSegments = TRUE
  SegmentsToRead = 0
  ClockRestarts = FALSE
  MaxFileId = 4
  MaxTime = 2
INVARIANT ReadsLatest
CHECK_DEADLOCK FALSE
