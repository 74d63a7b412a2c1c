SPECIFICATION Spec
CONSTANTS
  NameLength = {1, 2, 3, 9, 10, 4093, 4094}
  MaxEntries = 3
INVARIANTS InStep NamesReadBack
CHECK_DEADLOCK FALSE
