SPECIFICATION FairLogSpec
CONSTANTS
  N = 4
  MaxParents = 2
  Dates = {1, 2}
INVARIANTS ShowsHistory NewestFirst
PROPERTY Ends
CHECK_DEADLOCK FALSE
