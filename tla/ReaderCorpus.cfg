\* Every fixture of the corpus, in units of 2 ms: fine enough for the 50 ms skew
\* allowance, coarse enough for a displacement of thirty days.
CONSTANTS
  Second = 500
  Allowance = 25
SPECIFICATION Spec
INVARIANTS TypeOK CorpusVerdicts
