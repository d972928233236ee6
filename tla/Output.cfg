\* Files of up to five lines; three records of at most five bytes in all.
CONSTANTS
  Unset = Unset
  LineBound = 5
  InputBound = 2
  RecordBound = 3
  ByteBound = 5
SPECIFICATION Spec
INVARIANTS AcceptedConfig StripsStream OutputsAgree
CHECK_DEADLOCK FALSE
