\* Every policy, more framers than records fit, every line length that matters.
CONSTANTS
  Producers = {p1, p2, p3}
  MaxRecords = 2
  MaxBytes = 3
  Sizes = {1, 3}
  PushBound = 3
  FlushTicks = TRUE
SPECIFICATION FairSpec
INVARIANTS TypeOK NoStrandedProducer RingOrder Conservation NoLostWakeup CleanFinish
PROPERTIES PipelineServes ImplementsBoundedFifo
CHECK_DEADLOCK FALSE
