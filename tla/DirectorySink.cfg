\* Two writers, any call may fail, the clock may repeat or step back, and the
\* process may die or the power fail at any step.
CONSTANTS
  MaxBytes = 2
  MaxFiles = 1
  BufferSize = 2
  Sizes = {1, 3}
  Writers = 2
  ClosesSink = TRUE
  Faults = TRUE
  RecordBound = 3
  TimeBound = 3
  RunBound = 2
SPECIFICATION Spec
INVARIANTS LogInOrder Segments DurableSegments
PROPERTY SegmentsSurvive
CHECK_DEADLOCK FALSE
