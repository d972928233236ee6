\* One command with its descendant, or two inputs of any kinds.
CONSTANTS
  Codes = {"3"}
  PipeCapacity = 1
  Capacity = 2
  OutputBound = 3
  InputCount = 2
SPECIFICATION RunnerFairSpec
INVARIANTS OutputDelivered SinkErrorReported ChildHandled NoErrorSwallowed SinkClosedLast
PROPERTIES RunEnds ShutdownCompletes
