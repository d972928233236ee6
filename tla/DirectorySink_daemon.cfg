\* A rotation fails and a second writer of the daemon goes on.
CONSTANTS
  MaxBytes = 2
  MaxFiles = 2
  BufferSize = 2
  Sizes = {1, 3}
  Writers = 2
  ClosesSink = TRUE
  Faults = TRUE
  RecordBound = 3
  TimeBound = 2
  RunBound = 1
SPECIFICATION Spec
INVARIANT WriterOptional
CHECK_DEADLOCK FALSE
