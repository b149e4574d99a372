\* Two shapes of map-shaped events beyond the limit.
CONSTANTS
  ListShapes = {"stored"}
  MapShapes = {"map_stored", "map_removed"}
  HexLimit = 1
  MaxMsgs = 3
  Duration = 1
  QueueLimit = 3
  MaxPublished = 3
  MaxRestarts = 0
SPECIFICATION Spec
INVARIANTS VarietyIsKept
CHECK_DEADLOCK FALSE
