\* A packet finds the inner queue empty.
CONSTANTS
  UNIT_TIME <- MCUnit
  MSEC <- MCMsec
  U32 = 1024
  Times = {2}
  Rates = {4}
  Skb = {"half", "unit"}
  PktLen <- MCPktLen
  MaxTime <- MCMaxTime
  L2T <- MCL2T
  HZ = 2
  Gso = {"pair"}
  Segments <- MCSegments
  TestLen = 2
  Failures <- MCNoFailures
  Resets = FALSE
SPECIFICATION Spec
INVARIANTS
  LoopDequeuesSkb
\* A dereferenced NULL, a lock never released or tsf_destroy stops the system.
CHECK_DEADLOCK FALSE
