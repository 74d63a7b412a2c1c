\* Lines that the code reads otherwise than they are written: a directory's
\* own name in its .gitignore (1), and all directories (2).
SPECIFICATION RulesSpec
CONSTANTS
  Name <- Names
  Glob <- Globs
  Starred <- Stars
  Dir <- Dirs
  File <- Files
\* 1
  Line <- OwnName
\* 2
\*  Line <- AllFolders
  MaxRules = 1
INVARIANT RulesAsWritten
CHECK_DEADLOCK FALSE
