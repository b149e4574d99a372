\* Two kinds, two fields of two values, three releases of two minors; conditionals in allOf,
\* where the schema has its own.
CONSTANTS
  Kinds = {store, evict}
  Fields = {a, b}
  Values = {0, 1}
  Conditional = "allOf"
  MaxMajor = 2
  MaxMinor = 1
  MaxReleases = 3
  MaxEdits = 2
SYMMETRY Symmetry
SPECIFICATION Spec
INVARIANTS TypeOK OldSegmentsStayValid OldReadersAccept VersionNamesOneContract
CHECK_DEADLOCK FALSE
