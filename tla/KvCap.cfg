\* A queue of two to flood, two publisher restarts, a limit below the shapes.
CONSTANTS
  ListShapes = {"stored", "removed"}
  MapShapes = {"map"}
  HexLimit = 2
  MaxMsgs = 4
  Duration = 1
  QueueLimit = 2
  MaxPublished = 5
  MaxRestarts = 2
SPECIFICATION FairSpec
INVARIANTS TypeOK GapsAreLosses ListShapesAreKept FileIsBounded
PROPERTIES Reports
CHECK_DEADLOCK FALSE
