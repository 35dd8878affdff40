\* A short sleep is spun for and the ring is not polled again.
CONSTANTS
  UNIT_TIME <- MCUnit
  MSEC <- MCMsec
  U32 = 1024
  Times = {3}
  Rates = {4}
  Skb = {"half", "unit"}
  PktLen <- MCPktLen
  MaxTime <- MCMaxTime
  L2T <- MCL2T
  HZ = 2
  Gso = {"pair"}
  Segments <- MCSegments
  TestLen = 8
  Failures <- MCNoFailures
  Resets = FALSE
SPECIFICATION FairSpec
PROPERTIES
  RingPolledAgain
\* A dereferenced NULL, a lock never released or tsf_destroy stops the system.
CHECK_DEADLOCK FALSE
