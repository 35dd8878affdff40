\* One run is enough for a figure that is no retransmission number.
CONSTANTS
  Tests <- MCTests
  MaxRuns = 1
  TwoDigit = 1
  TestTime = 2
  IperfLimit = 3
  ToolLimit = 4
  SleepTime = 6
  MaxDelay = 1
SPECIFICATION BenchSpec
INVARIANT RetrIsRetransmissions
CHECK_DEADLOCK FALSE
