\* What a change-over between two trees does not do; each case is shown when
\* its line is the one that is not a comment.
SPECIFICATION CloneSpec
CONSTANTS
  Path <- Paths
  Branch = {1, 2}
  Version <- PlainAndScript
  MaxSteps = 2
\* 1: succeed in a clean work tree
PROPERTY CleanCheckoutSucceeds
\* 2: keep what the user edited
\* PROPERTY EditsSurvive
\* 3: load the index of the new commit
\* PROPERTY CheckoutLoadsIndex
CHECK_DEADLOCK FALSE
