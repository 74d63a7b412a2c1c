SPECIFICATION RulesSpec
CONSTANTS
  Name <- BracketNames
  Glob <- BracketGlobs
  Starred <- BracketStars
  Dir <- BracketDirs
  File <- BracketFiles
  Line <- BracketLines
  MaxRules = 1
CHECK_DEADLOCK FALSE
INVARIANT RulesAsWritten
