SPECIFICATION SessionSpec
CONSTANTS
  Key = {k1, k2}
  Value = {empty, v1}
  Empty = empty
  DeletableKey = {k1, k2}
  MaxSegmentSize = 2
  RunMergeEvery = 100
  ReadAllSegments = TRUE
  SegmentsToRead = 0
  ClockRestarts = FALSE
  MaxFileId = 3
  MaxTime = 1
INVARIANT ReadsLatest
