SPECIFICATION Spec
CONSTANTS
  Codes = {"0", "3"}
  PipeCapacity = 1
  Capacity = 1
  OutputBound = 1
INVARIANT ExitCodePropagated
