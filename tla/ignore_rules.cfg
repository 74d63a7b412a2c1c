SPECIFICATION RulesSpec
CONSTANTS
  Name <- Names
  Glob <- Globs
  Starred <- Stars
  Dir <- Dirs
  File <- Files
  Line <- Lines
  MaxRules = 2
CHECK_DEADLOCK FALSE
INVARIANTS PlainRulesAsWritten IgnoredAllTheWayDown
PROPERTY RulesStayBelow
