SPECIFICATION CloneSpec
CONSTANTS
  Path <- Paths
  Branch = {1, 2}
  Version <- PlainAndScripts
  MaxSteps = 3
INVARIANTS TreesAreTrees MergeLoadsIndex
PROPERTIES CheckoutIsExact AgreementUntouched
CHECK_DEADLOCK FALSE
