\* Three workers on a budget of five; every request may fail or kill its worker.
CONSTANTS
  Workers = {w1, w2, w3}
  Requests = 5
SPECIFICATION FairSpec
INVARIANTS TypeOK NumbersAreDistinct BudgetIsKept ResetFollowsAllTraffic SummaryIsTrue
PROPERTIES Termination
CHECK_DEADLOCK FALSE
