\* Two inputs of the daemon share the sink, and the collector is unreliable.
CONSTANTS
  BatchRecords = 2
  BatchBytes = 3
  Retries = 1
  Sizes = {1, 2}
  Writers = {a, b}
  Daemon = TRUE
  RecordBound = 4
  a = a
  b = b
SPECIFICATION FairSpec
INVARIANTS Accounted Redelivery Caps
PROPERTY CallsEnd
CHECK_DEADLOCK FALSE
