\* What a dropped segment leaves behind.
CONSTANTS
  Second = 1
  MaxRuns = 1
  MaxSeq = 2
  MaxTime = 0
  MaxRecords = 2
  MaxEvents = 0
  MaxSpoiled = 0
  Cap = 1
SPECIFICATION Spec
INVARIANTS DropIsRecordedTwice
CHECK_DEADLOCK FALSE
