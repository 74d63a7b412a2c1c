---------------------------- MODULE AncestryWalk ----------------------------
(***************************************************************************)
(* GitCommit::has_ancestor, which decides whether merge may fast-forward:  *)
(* a depth-first walk from tip through every parent, with a stack that may *)
(* hold a commit several times and a set of the commits already taken.     *)
(***************************************************************************)
EXTENDS History

VARIABLES
  tip,      \* the commit asked
  target,   \* the commit it may descend from
  pending,  \* the stack, its top last
  visited,  \* the ids taken from it
  answer    \* "running", "yes", "no", or "error" for an exception

graph == <<parents, unreadable>>
vars == <<graph, tip, target, pending, visited, answer>>

TypeOK ==
  /\ parents \in [Commit -> Seq(Commit)]
  /\ unreadable \subseteq Commit
  /\ tip \in Commit /\ target \in Commit
  /\ pending \in Seq(Commit)
  /\ visited \subseteq Commit
  /\ answer \in {"running", "yes", "no", "error"}

(* Both commits have been read before they are compared.                   *)
Init ==
  /\ parents \in Histories
  /\ unreadable \in SUBSET Commit
  /\ tip \in Commit \ unreadable /\ target \in Commit \ unreadable
  /\ pending = parents[tip]
  /\ visited = {tip}
  /\ answer = IF tip = target THEN "yes" ELSE "running"

Running == answer = "running"
Top == Last(pending)

(* Mutant: a commit met again stays on the stack.                          *)
SkipNothing ==
  /\ Running /\ pending # <<>>
  /\ Top \in visited
  /\ UNCHANGED vars

(* A commit met again is dropped.                                          *)
Skip ==
  /\ Running /\ pending # <<>>
  /\ Top \in visited
  /\ pending' = Front(pending)
  /\ UNCHANGED <<graph, tip, target, visited, answer>>

(* The id is compared before the commit is read.                           *)
Found ==
  /\ Running /\ pending # <<>>
  /\ Top \notin visited
  /\ Top = target
  /\ pending' = Front(pending)
  /\ visited' = visited \cup {Top}
  /\ answer' = "yes"
  /\ UNCHANGED <<graph, tip, target>>

(* Mutant: only the first parent of a merge is followed.                   *)
ExpandFirst ==
  /\ Running /\ pending # <<>>
  /\ Top \notin visited \cup unreadable
  /\ Top # target
  /\ pending' = Front(pending) \o SelectSeq(parents[Top], LAMBDA c : c = Head(parents[Top]))
  /\ visited' = visited \cup {Top}
  /\ UNCHANGED <<graph, tip, target, answer>>

Expand ==
  /\ Running /\ pending # <<>>
  /\ Top \notin visited \cup unreadable
  /\ Top # target
  /\ pending' = Front(pending) \o parents[Top]
  /\ visited' = visited \cup {Top}
  /\ UNCHANGED <<graph, tip, target, answer>>

(* GitCommit::read throws.                                                 *)
ReadFails ==
  /\ Running /\ pending # <<>>
  /\ Top \in unreadable \ visited
  /\ Top # target
  /\ pending' = Front(pending)
  /\ visited' = visited \cup {Top}
  /\ answer' = "error"
  /\ UNCHANGED <<graph, tip, target>>

Exhausted ==
  /\ Running /\ pending = <<>>
  /\ answer' = "no"
  /\ UNCHANGED <<graph, tip, target, pending, visited>>

Next == Skip \/ Found \/ Expand \/ ReadFails \/ Exhausted

Spec == Init /\ [][Next]_vars
FairSpec == Spec /\ WF_vars(Next)

-----------------------------------------------------------------------------
(* The answer is the graph's: yes exactly for an ancestor, whatever the    *)
(* merges in between and however often a commit is reached                 *)
(* (commit.cpp:191-214, commit_t.cpp:35-42); an exception only when an     *)
(* ancestor cannot be read.                                                *)
AnswerIsAncestry ==
  /\ answer = "yes" => target \in Ancestors(tip)
  /\ answer = "no" => target \notin Ancestors(tip)
  /\ answer = "error" => Ancestors(tip) \cap unreadable # {}

(* What the walk knows: everything taken or waiting is an ancestor, the    *)
(* parents of what was taken are taken or waiting, and target was not yet  *)
(* among them.                                                             *)
WalkInv ==
  /\ visited \cup ToSet(pending) \subseteq Ancestors(tip)
  /\ tip \in visited
  /\ Running => \A c \in visited : ToSet(parents[c]) \subseteq visited \cup ToSet(pending)
  /\ Running => target \notin visited

(* The walk ends: a commit is expanded once.                               *)
Terminates == <>(answer # "running")
=============================================================================
