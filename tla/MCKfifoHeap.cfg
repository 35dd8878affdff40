\* Rings of two and four nodes, two rates and failures of kmalloc, reconfigured while in use;
\* packets from half a node to two and a half, under a caller that keeps polling.
CONSTANTS
  UNIT_TIME <- MCUnit
  MSEC <- MCMsec
  U32 = 1024
  Times = {2, 4}
  Rates = {4, 8}
  Skb = {"half", "unit", "jumbo"}
  PktLen <- MCPktLen
  MaxTime <- MCMaxTime
  L2T <- MCL2T
  NULL = NULL
SPECIFICATION HeapSpec
INVARIANTS
  TypeOK
  WindowHoldsAll
  EmptyNodesPristine
  CountersAgree
  SleepIsEarned
  RateLimit
  Spacing
  DelayBound
  ListsRepresent
PROPERTIES
  ReaderLeavesNoDebt
  RingIsFifo
