\* Interrupts at every command, and tools that fail, hang or go on beside the
\* next run.  The last run ends: nothing is left to do.
CONSTANTS
  Tests <- MCTests
  MaxRuns = 2
  TwoDigit = 1
  TestTime = 2
  IperfLimit = 3
  ToolLimit = 4
  SleepTime = 6
  MaxDelay = 1
SPECIFICATION BenchSpec
INVARIANTS
  BenchTypeOK
  OwnResults
  ResultsComplete
  ParsedFaithfully
CHECK_DEADLOCK FALSE
