\* One writer and a collector that may do anything.
CONSTANTS
  BatchRecords = 3
  BatchBytes = 3
  Retries = 0
  Sizes = {1, 2}
  Writers = {a}
  Daemon = FALSE
  RecordBound = 3
  a = a
SPECIFICATION Spec
INVARIANT PayloadWithinBytes
CHECK_DEADLOCK FALSE
