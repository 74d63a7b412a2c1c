SPECIFICATION Spec
CONSTANTS
  NameLength = {1, 2, 3, 9, 10, 4094, 4095}
  MaxEntries = 3
INVARIANT NamesReadBack
CHECK_DEADLOCK FALSE
