\* Every stream of up to three bytes, cut by reads in every way, with idle flushes;
\* and a followed file, rotated and truncated between any two system calls.
CONSTANTS
  MaxFragmentBytes = 1
  PartialFlush = TRUE
  ChannelSize = 1
  ChunkSize = 3
  StreamBound = 3
  StartAtEnd = TRUE
  ReadSize = 2
  Truncates = TRUE
  LateWrites = TRUE
  Faults = TRUE
  InodeBound = 2
  ByteBound = 3
SPECIFICATION StreamFairSpec
INVARIANTS OneOwner ChunkingInvisible RecordsJoin PendingBounded
INVARIANTS NoRepeats NothingSkipped NoDescriptorLeft
PROPERTIES GoroutinesGoOn FollowerGoesOn
CHECK_DEADLOCK FALSE
