\* Failures and test traffic, under the fairness of the kernel; no packet has to
\* arrive.
CONSTANTS
  UNIT_TIME = 1
  MSEC <- MCMsec
  U32 = 1024
  Times = {3}
  Rates = {2}
  Skb = {"half"}
  PktLen <- MCPktLen
  MaxTime = 1
  L2T <- MCL2T
  HZ = 1
  Gso = {"pair"}
  Segments <- MCSegments
  TestLen = 2
  Failures <- MCFailures
  Resets = TRUE
SPECIFICATION FairSpec
PROPERTIES
  SleepingRingWakes
\* A dereferenced NULL, a lock never released or tsf_destroy stops the system.
CHECK_DEADLOCK FALSE
