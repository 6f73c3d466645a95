SPECIFICATION Spec
CONSTANTS
  Key = {k1, k2}
  Value = {empty, v1}
  Empty = empty
  DeletableKey = {}
  MaxSegmentSize = 1
  RunMergeEvery = 3
  ReadAllSegments = FALSE
  SegmentsToRead = 2
  ClockRestarts = FALSE
  MaxFileId = 6
  MaxTime = 1
PROPERTY ImplementsMap
SYMMETRY KeySymmetry
CHECK_DEADLOCK FALSE
