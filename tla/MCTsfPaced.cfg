\* Two rates, hence two bucket depths, resets, and sleeps left to the watchdog; three
\* nodes, so that the ring may hold more than the limit allows on the wire at once.
CONSTANTS
  UNIT_TIME <- MCUnit
  MSEC <- MCMsec
  U32 = 1024
  Times = {3}
  Rates = {4, 6}
  Skb = {"half", "unit"}
  PktLen <- MCPktLen
  MaxTime <- MCMaxTime
  L2T <- MCL2T
  HZ = 2
  Gso = {"pair"}
  Segments <- MCSegments
  TestLen = 8
  Failures <- MCNoFailures
  Resets = TRUE
SPECIFICATION PacedSpec
VIEW MCView
INVARIANTS
  TypeOK
  LocalsFresh
  WireRate
PROPERTIES
  BucketIsFilledByTime
\* A dereferenced NULL, a lock never released or tsf_destroy stops the system.
CHECK_DEADLOCK FALSE
