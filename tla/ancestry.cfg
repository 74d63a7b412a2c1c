SPECIFICATION FairSpec
CONSTANTS
  N = 4
  MaxParents = 2
INVARIANT AnswerIsAncestry
PROPERTY Terminates
CHECK_DEADLOCK FALSE
