---------------------------- MODULE MCObjectRead ----------------------------
(* Sizes whose bits lie on both sides of every border between two groups.  *)
EXTENDS ObjectRead, FiniteSets

Borders == {0, 3, 4, 10, 11, 17, 18, 24, 25, 30}
SmallSizes == {S \in SUBSET Borders : Cardinality(S) <= 2} \cup {0 .. 30}
AllSizes == SmallSizes \cup {{31}, {0, 31}, {32}, {4, 38}, {60}, {62}}
=============================================================================
