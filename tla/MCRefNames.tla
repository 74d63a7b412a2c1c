------------------------------ MODULE MCRefNames ------------------------------
(* Small repositories for RefNames: two commits in a row, main on the      *)
(* first and dev on the second, tag rel on the first.                      *)
EXTENDS RefNames

LowerCase == [n \in Name |->
  CASE n = "HEAD" -> "head" [] n = "Dev" -> "dev" [] n = "C2" -> "c2" [] OTHER -> n]

TwoCommits == [c \in {"c1", "c2"} |-> IF c = "c2" THEN {"c1"} ELSE {}]

(* Sparse ref tables: each entry is <<space, name, id>>.                   *)
Refs(entries) ==
  [s \in Space |-> [n \in Name |->
     IF \E e \in entries : e[1] = s /\ e[2] = n
     THEN (CHOOSE e \in entries : e[1] = s /\ e[2] = n)[3] ELSE None]]

NoRefs == Refs({})
PlainRefs == Refs({<<"heads", "main", "c1">>, <<"heads", "dev", "c2">>, <<"tags", "rel", "c1">>})
OldPacked == Refs({<<"heads", "old", "c1">>})

(* A clone: origin/dev is a file below refs/remotes.                       *)
ClonedRefs == Refs({<<"heads", "main", "c1">>, <<"remotes", "origin/dev", "c2">>})
(* After git pack-refs: dev is a line of packed-refs only.                 *)
MainRef == Refs({<<"heads", "main", "c1">>})
DevPacked == Refs({<<"heads", "dev", "c2">>})
(* A branch of one character.                                              *)
ShortRefs == Refs({<<"heads", "main", "c1">>, <<"heads", "x", "c2">>})
=============================================================================
