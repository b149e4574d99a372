\* Two releases; conditionals directly in the definition.
CONSTANTS
  Kinds = {store, evict}
  Fields = {a, b}
  Values = {0, 1}
  Conditional = "direct"
  MaxMajor = 2
  MaxMinor = 1
  MaxReleases = 2
  MaxEdits = 2
SYMMETRY Symmetry
SPECIFICATION Spec
INVARIANTS ConstraintsNeedAMajor
CHECK_DEADLOCK FALSE
