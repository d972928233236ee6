SPECIFICATION DaemonSpec
CONSTANT InputCount = 2
INVARIANT StopReachesAll
