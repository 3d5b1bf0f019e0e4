SPECIFICATION Spec
CONSTANTS
  MaxTime = 5
  Sizes = {1, 5}
  MaxSpans = 2
  MaxBytes = 4
  MaxAge = 2
  SegmentLife = 2
  SegmentBytes = 3
CHECK_DEADLOCK FALSE
INVARIANTS MemorySound ExpiredStaysGone RestartComplete
