SPECIFICATION Spec
CONSTANTS
  Key = {k1, k2}
  Value = {empty}
  Empty = empty
  DeletableKey = {k2}
  MaxSegmentSize = 1
  RunMergeEvery = 1
  ReadAllSegments = TRUE
  SegmentsToRead = 0
  ClockRestarts = FALSE
  MaxFileId = 5
  MaxTime = 2
INVARIANTS TypeOK PointersSound KeptKeysReadable MergeKeepsNewest MergeCompacts IInv
PROPERTIES AppendOnly ImplementsMap
CHECK_DEADLOCK FALSE
