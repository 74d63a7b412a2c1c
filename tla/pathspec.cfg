SPECIFICATION PathspecSpec
CONSTANTS
  Char <- Characters
  FilePath <- FilePaths
  Pattern <- Patterns
  MaxArgs = 2
INVARIANTS StagesWhatIsAsked AllOrNothing
CHECK_DEADLOCK FALSE
