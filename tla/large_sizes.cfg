\* Objects of two gigabytes and more, packed (1) or loose (2).
SPECIFICATION Spec
CONSTANT Size <- AllSizes
\* 1
INVARIANT LargeEntriesRead
\* 2
\* INVARIANT LargeObjectsRead
CHECK_DEADLOCK FALSE
