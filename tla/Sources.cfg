\* Two connections for one or two places; datagrams of one and of two fragments.
CONSTANTS
  QueueCap = 1
  MaxFragmentBytes = 2
  DatagramLengths = {0, 3, 4}
  MessageLengths = {4}
  EntryBound = 2
  Conns = {c1, c2}
  ConnectionLimits = {1, 2}
  LineBound = 1
  OutCap = 1
  ErrCap = 1
  ErrLimit = 1
  ErrBound = 3
SPECIFICATION FairSpec
INVARIANTS NothingLost FragmentsRejoin ConnectionTable
PROPERTIES ImplementsSource SourceEnds
CHECK_DEADLOCK FALSE
