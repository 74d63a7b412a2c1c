SPECIFICATION CloneSpec
CONSTANTS
  Path <- Paths
  Branch = {1, 2}
  Version <- Scripts
  MaxSteps = 1
PROPERTY CheckoutSetsModes
CHECK_DEADLOCK FALSE
