\* Two segments in a ring of one, with any one fault.
CONSTANTS
  MaxSeq = 1
  MaxHour = 2
  MaxFaults = 1
  Cap = 1
  Lookback = 1
SPECIFICATION Spec
INVARIANTS TypeOK CopySurvives OneBatchPerSegment NothingBehindTheWatermark
PROPERTIES StoreIsImplemented
CHECK_DEADLOCK FALSE
