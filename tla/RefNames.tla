------------------------------ MODULE RefNames ------------------------------
(***************************************************************************)
(* What a name on the command line means to gyt: how GitObject::find       *)
(* resolves it, and what checkout, checkout -b, tag, merge and commit make *)
(* of it.  One user, one command at a time, nothing fails; what can go     *)
(* wrong is in the names.  find looks a name up in lower case, checkout    *)
(* classifies the same name again in its own spelling, and packed refs are *)
(* seen only through HEAD.  File names are case sensitive.                 *)
(*                                                                         *)
(* A name is a model value.  What matters of its spelling is in constants: *)
(* its lower-case form, whether it has a slash, and whether it has one or  *)
(* two characters, where the path of an object is not that of a file.      *)
(***************************************************************************)
EXTENDS FiniteSets

CONSTANTS
  Name,       \* the names of refs and ids, in every spelling met
  BranchName, \* those given to checkout -b
  TagName,    \* those given to tag
  Target,     \* those given as an existing commit
  Commit,     \* the names that are ids of commits
  BlobId,     \* the names that are ids of blobs
  HeadWord,   \* "head", which find takes for HEAD
  Lower,      \* the lower-case form of each name
  Nested,     \* new names with a slash: their directory does not exist
  OneLetter,  \* names of one character: object_path is out of range
  FanOut,     \* two-character names of directories below .git/objects
  None,       \* no such ref
  LooseRefs,  \* the ref files at the start
  PackedRefs, \* the lines of packed-refs, which gyt only reads
  History     \* the commits at the start and their parents

Space == {"heads", "tags", "remotes"}
Value == Commit \cup BlobId \cup FanOut
RefTable == [Space -> [Name -> Value \cup {None}]]

ASSUME NamesAssumption ==
  /\ BranchName \cup TagName \cup Target \cup {HeadWord} \cup Value \subseteq Name
  /\ Nested \subseteq Name /\ OneLetter \subseteq Name
  /\ Lower \in [Name -> Name] /\ \A v \in Value : Lower[v] = v
  /\ Commit \cap (BlobId \cup FanOut) = {} /\ OneLetter \cap Value = {}
  /\ None \notin Value \cup Name
  /\ (BranchName \cup TagName) \cap (Commit \cup BlobId) = {}
  /\ LooseRefs \in RefTable /\ PackedRefs \in RefTable
  /\ DOMAIN History \subseteq Commit
  /\ \A c \in DOMAIN History : History[c] \subseteq DOMAIN History

VARIABLES
  loose,    \* the ref files
  head,     \* HEAD: a ref file's space and name, or "detached" and an id
  parents,  \* the stored commits and their parents
  shown     \* the commit the work tree was last changed over to

vars == <<loose, head, parents, shown>>

Stored == DOMAIN parents

TypeOK ==
  /\ loose \in RefTable
  /\ head \in [space : {"heads", "tags"}, name : Name] \cup [space : {"detached"}, name : Value]
  /\ Stored \subseteq Commit
  /\ \A c \in Stored : parents[c] \subseteq Value
  /\ shown \in Stored \cup {None}

(* has_loose_object: the path exists, be it a file or a fan-out directory. *)
LooseObject(n) == n \in Stored \cup BlobId \cup FanOut

(* resolve_ref(HEAD): packed refs are the fallback here.                   *)
HeadId ==
  IF head.space = "detached" THEN head.name
  ELSE IF loose[head.space][head.name] # None THEN loose[head.space][head.name]
  ELSE PackedRefs[head.space][head.name]

(* GitObject::find: HEAD, a branch, a tag, a remote branch, an object.     *)
Find(name) ==
  LET n == Lower[name] IN
  IF n = HeadWord THEN HeadId
  ELSE IF loose["heads"][n] # None THEN loose["heads"][n]
  ELSE IF loose["tags"][n] # None THEN loose["tags"][n]
  ELSE IF loose["remotes"][n] # None THEN loose["remotes"][n]
  ELSE IF LooseObject(n) THEN n ELSE None

(* has_ancestor: the smallest set with c that is closed under parents.     *)
Ancestors(c) ==
  {d \in Stored : \A S \in SUBSET Stored :
     c \in S /\ (\A x \in S : parents[x] \cap Stored \subseteq S) => d \in S}

(* create_file below refs/: a missing directory makes it fail.             *)
WriteRef(space, n, v) ==
  loose' = IF n \in Nested THEN loose ELSE [loose EXCEPT ![space][n] = v]

(* update_current_ref; it throws when the file cannot be written.          *)
UpdateCurrentRef(c) ==
  IF head.space = "detached"
  THEN head' = [head EXCEPT !.name = c] /\ UNCHANGED loose
  ELSE WriteRef(head.space, head.name, c) /\ UNCHANGED head

(* Mutant: tags are not looked for.                                        *)
CheckoutAsBranch(n) ==
  /\ Find(n) \in Stored /\ HeadId \in Stored
  /\ shown' = Find(n)
  /\ head' = IF LooseObject(n) THEN [space |-> "detached", name |-> n]
             ELSE [space |-> "heads", name |-> n]
  /\ UNCHANGED <<loose, parents>>

(* checkout of an existing name.  The work tree changes first; then the    *)
(* name is classified as typed, and one character aborts the process.      *)
Checkout(n) ==
  /\ Find(n) \in Stored /\ HeadId \in Stored
  /\ shown' = Find(n)
  /\ head' = IF n \in OneLetter THEN head
             ELSE IF LooseObject(n) THEN [space |-> "detached", name |-> n]
             ELSE IF loose["tags"][n] # None THEN [space |-> "tags", name |-> n]
             ELSE [space |-> "heads", name |-> n]
  /\ UNCHANGED <<loose, parents>>

(* Mutant: the start point need not exist.                                 *)
CreateBranchAnywhere(n, start) ==
  /\ loose["heads"][n] = None
  /\ WriteRef("heads", n, Find(start))
  /\ head' = [space |-> "heads", name |-> n]
  /\ UNCHANGED <<parents, shown>>

(* checkout -b n start: the branch file, unchecked, and then HEAD.         *)
CreateBranch(n, start) ==
  /\ loose["heads"][n] = None
  /\ Find(start) # None
  /\ WriteRef("heads", n, Find(start))
  /\ head' = [space |-> "heads", name |-> n]
  /\ UNCHANGED <<parents, shown>>

(* Mutant: the target need not be an object.                               *)
CreateTagUnchecked(n, target) ==
  /\ target # None
  /\ loose["tags"][n] = None
  /\ WriteRef("tags", n, target)
  /\ UNCHANGED <<head, parents, shown>>

(* tag n [target]: the target as typed, or HEAD, must be a loose object.   *)
CreateTag(n, target) ==
  /\ LooseObject(target)
  /\ loose["tags"][n] = None
  /\ WriteRef("tags", n, target)
  /\ UNCHANGED <<head, parents, shown>>

(* Mutant: an unborn HEAD is a parent like any other.                      *)
NewCommitOnHead(c) ==
  /\ c \notin Stored
  /\ HeadId = None => head.space = "heads"
  /\ parents' = [x \in Stored \cup {c} |-> IF x # c THEN parents[x] ELSE {HeadId}]
  /\ UpdateCurrentRef(c)
  /\ UNCHANGED shown

(* commit: a new commit on top of what HEAD names, or a root on a branch   *)
(* that does not exist.                                                    *)
NewCommit(c) ==
  /\ c \notin Stored
  /\ HeadId = None => head.space = "heads"
  /\ parents' = [x \in Stored \cup {c} |->
                   IF x # c THEN parents[x] ELSE {HeadId} \ {None}]
  /\ UpdateCurrentRef(c)
  /\ UNCHANGED shown

(* Mutant: no question of ancestry.                                        *)
MoveAnywhere(n) ==
  /\ Find(n) \in Stored /\ HeadId \in Stored
  /\ shown' = Find(n)
  /\ UpdateCurrentRef(Find(n))
  /\ UNCHANGED parents

(* merge: only to a descendant; the work tree changes before the ref.      *)
FastForward(n) ==
  /\ Find(n) \in Stored /\ HeadId \in Stored
  /\ HeadId \in Ancestors(Find(n))
  /\ shown' = Find(n)
  /\ UpdateCurrentRef(Find(n))
  /\ UNCHANGED parents

(* HEAD is on a branch, which may be packed, or not have a commit yet.     *)
Init ==
  /\ loose = LooseRefs
  /\ head \in [space : {"heads"}, name : BranchName \cup {n \in Name : PackedRefs["heads"][n] # None}]
  /\ parents = History
  /\ HeadId \in Stored \cup {None}
  /\ shown = HeadId

Next ==
  \/ \E n \in Target : Checkout(n) \/ FastForward(n)
  \/ \E n \in BranchName, start \in Target \cup {HeadWord} : CreateBranch(n, start)
  \/ \E n \in TagName, target \in Target \cup {HeadId} : CreateTag(n, target)
  \/ \E c \in Commit : NewCommit(c)

Spec == Init /\ [][Next]_vars

-----------------------------------------------------------------------------
(* Whatever command changes the work tree over to a commit leaves HEAD     *)
(* resolving to that commit (checkout.cpp:33-45, merge.cpp:22-29): the two *)
(* readings of the name agree.                                             *)
HeadFollowsWorkTree == [][shown' # shown => HeadId' = shown']_vars

(* A branch, loose or packed, only moves to a descendant of where it was:  *)
(* checkout -b refuses a name that is taken (checkout.cpp:23-26).          *)
Tip(n) == IF loose["heads"][n] # None THEN loose["heads"][n] ELSE PackedRefs["heads"][n]
BranchesOnlyAdvance ==
  [][\A n \in Name : Tip(n) # None => Tip(n) \in (Ancestors(Tip(n)))']_vars

(* Once HEAD resolves it goes on resolving: when it ends up naming a ref   *)
(* that does not exist, the next commit silently starts a new history      *)
(* (commands/commit.cpp:28-37).                                            *)
HeadResolves == [][HeadId # None => HeadId' # None]_vars

(* Branches and tags point at commits.                                     *)
RefsNameCommits ==
  \A s \in {"heads", "tags"}, n \in Name : loose[s][n] \in Stored \cup {None}
=============================================================================
