SPECIFICATION FormatSpec
CONSTANTS
  None = None
  Words <- AllWords
  Line <- Lines
  Message <- Messages
  Commits <- CommitSet
  MaxLines = 4
  MaxTime = 12
  Trees <- TreeSet
  IdLength = 2
INVARIANT PrintsTheObject
CHECK_DEADLOCK FALSE
