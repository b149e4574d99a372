\* Two runs, crashes and recoveries, a ring of one and a spoiled segment.
CONSTANTS
  Second = 1
  MaxRuns = 2
  MaxSeq = 1
  MaxTime = 2
  MaxRecords = 2
  MaxEvents = 0
  MaxSpoiled = 1
  Cap = 1
SPECIFICATION Spec
INVARIANTS OneSegmentPerIdentity DownTimeIsUncovered RetentionKeepsTheNewest
PROPERTIES ExactIsNeverRetracted StoreIsKept
CHECK_DEADLOCK FALSE
