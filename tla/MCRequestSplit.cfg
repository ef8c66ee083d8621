SPECIFICATION SplitSpec
INVARIANTS LimitsHold NeverStalls SegmentationIndependent
PROPERTY FeedReturns
CONSTANTS
  Streams <- MCStreams
  MaxRequestLine = 2
  MaxHeaderBytes = 12
  MaxHeaderCount = 3
  MaxBodyBytes = 3
  MaxChunkLine = 2
  MinBuffer = 4
  SizeMod = 8
  MaxBytes = 30
  MaxSegment = 4
CHECK_DEADLOCK FALSE
