SPECIFICATION Spec
CONSTANTS
  Path <- Paths
  Branch = {1, 2}
  Version <- PlainAndScript
  MaxSteps = 5
INVARIANT StagedCommits
CHECK_DEADLOCK FALSE
