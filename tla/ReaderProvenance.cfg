\* The provenance the corpus expects of a header.
CONSTANTS
  Second = 500
  Allowance = 25
SPECIFICATION Spec
INVARIANTS ProvenanceIsNotTheContracts
