SPECIFICATION FormatSpec
CONSTANTS
  None = None
  Words <- AllWords
  Line <- Lines
  Message <- Messages
  Commits <- CommitSet
  MaxLines = 5
  MaxTime = 12
  Trees <- TreeSet
  IdLength = 2
INVARIANTS ReadsWhatIsThere WrittenReadsBack TreesInIndexOrder
CHECK_DEADLOCK FALSE
