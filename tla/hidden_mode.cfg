SPECIFICATION CloneSpec
CONSTANTS
  Path <- Paths
  Branch = {1, 2}
  Version <- EitherMode
  MaxSteps = 2
INVARIANT StagedChangesShow
CHECK_DEADLOCK FALSE
