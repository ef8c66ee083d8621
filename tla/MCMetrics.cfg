SPECIFICATION MetricsSpec
CONSTANTS
  Writers = {w1, w2}
  Buckets = 3
  Tick = 2
  Durations = {0, 2, 3, 6}
  MaxEvents = 2
  MaxScrapes = 1
  Word = 16
SYMMETRY Interchangeable
INVARIANTS PageIsCurrent GaugeSane BucketBounds
CHECK_DEADLOCK FALSE
