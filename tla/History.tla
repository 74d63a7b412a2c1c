------------------------------- MODULE History -------------------------------
(* The commit graph the walks of merge and log read.  Commits are numbered *)
(* in the order they were written: a commit is named after its content,    *)
(* which names its parents, so parents come first and there is no cycle.   *)
EXTENDS Naturals, SequencesExt

CONSTANT MaxParents  \* bound: parents a commit names, in their order
CONSTANT N           \* how many commits there are

ASSUME SizeAssumption == N \in Nat /\ MaxParents \in Nat

Commit == 1 .. N

VARIABLES
  parents,   \* the parents each commit names; one may be named twice
  unreadable \* commits whose object is missing, torn, or only in a pack

Histories ==
  {f \in [Commit -> BoundedSeq(Commit, MaxParents)] : \A c \in Commit : \A p \in ToSet(f[c]) : p < c}

Closed(S) == \A c \in S : ToSet(parents[c]) \subseteq S

(* The smallest set with c that is closed under parents.                   *)
Ancestors(c) == {d \in Commit : \A S \in SUBSET Commit : c \in S /\ Closed(S) => d \in S}
=============================================================================
