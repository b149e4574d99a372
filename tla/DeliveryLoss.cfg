\* One run under every loss: inbound, reclaimed, spoiled, torn; a fair shipper.
CONSTANTS
  Second = 1
  MaxRuns = 1
  MaxSeq = 2
  MaxTime = 2
  MaxRecords = 2
  MaxEvents = 2
  MaxSpoiled = 1
  Cap = 1
SPECIFICATION FairSpec
INVARIANTS TypeOK ExactAbsenceIsMeasured EveryGapHasACause
PROPERTIES HolesClose
CHECK_DEADLOCK FALSE
