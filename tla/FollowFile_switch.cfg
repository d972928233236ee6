\* The application writes to the file the path names, and reopens after a rename.
CONSTANTS
  StartAtEnd = FALSE
  ReadSize = 2
  Truncates = FALSE
  LateWrites = FALSE
  Faults = FALSE
  InodeBound = 2
  ByteBound = 2
SPECIFICATION FollowFairSpec
PROPERTY DrainedBeforeSwitch
CHECK_DEADLOCK FALSE
