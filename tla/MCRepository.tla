---------------------------- MODULE MCRepository ----------------------------
(* Small instances of Repository for TLC.                                  *)
EXTENDS Repository

CONSTANTS
  a,            \* the tracked path
  b1, b2,       \* its two contents
  c1, c2, c3,   \* commit ids
  dev           \* the second branch

(* A repository with history: add and commit, checkout -b dev, add, commit *)
(* and init, for HEAD to be at main again.  main is at c1, dev one commit  *)
(* ahead at c2, and the index is the one dev's last commit was made from   *)
(* (init leaves it).  Or the user wrote the first tree and the first       *)
(* commit with hash-object, without the blob, and named it with            *)
(* checkout -b main; then one command fewer follows, to bound the run.     *)
First == [f \in Path |-> IF f = a THEN b1 ELSE NoBlob]
Second == [f \in Path |-> IF f = a THEN b2 ELSE NoBlob]
Objects == {BlobObject(b1), BlobObject(b2), TreeObject(First), TreeObject(Second),
            CommitObject(c1), CommitObject(c2)}

HistoryInit ==
  /\ objects \in {Objects, Objects \ {BlobObject(b1)}}
  /\ named = IF objects = Objects THEN {} ELSE {BlobObject(b1), TreeObject(First)}
  /\ torn = {}
  /\ info = [c \in CommitId |->
               CASE c = c1 -> [tree |-> First, parents |-> {}]
                 [] c = c2 -> [tree |-> Second, parents |-> {c1}]
                 [] OTHER -> Unused]
  /\ last = [r \in Ref |-> CASE r = Main -> c1 [] r = dev -> c2 [] OTHER -> Missing]
  /\ refs = [r \in RefFile |-> IF r = HEAD THEN Main ELSE last[r]]
  /\ index = Second
  /\ cmd = [p \in Proc |-> "none"]
  /\ pc = [p \in Proc |-> "idle"]
  /\ mem = [p \in Proc |-> EmptyTree]
  /\ todo = [p \in Proc |-> {}]
  /\ obj = [p \in Proc |-> NoObject]
  /\ dest = [p \in Proc |-> HEAD]
  /\ val = [p \in Proc |-> Missing]
  /\ started = (IF named = {} THEN 0 ELSE 1) /\ faults = 0

HistorySpec == HistoryInit /\ [][Next]_vars
=============================================================================
