SPECIFICATION Spec
CONSTANT Size <- SmallSizes
INVARIANTS TypeOK SizeReadBack ReadsWhatIsStored
CHECK_DEADLOCK FALSE
