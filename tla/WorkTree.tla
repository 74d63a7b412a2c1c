------------------------------- MODULE WorkTree -------------------------------
(***************************************************************************)
(* The work tree, the index and the trees of the branches: what add,       *)
(* commit, checkout and merge do to files and directories when a user      *)
(* edits in between.  Commands run one at a time and find every object;    *)
(* one that changes the work tree over makes one system call per step and  *)
(* may throw or be killed between two of them.                             *)
(*                                                                         *)
(* A path is a sequence of names, a name a number: its place in the order  *)
(* names are visited in.  A tree, like the disk, says for every path       *)
(* whether nothing, a directory or a file is there.  A file's mode is      *)
(* whether it is executable.  Symbolic links, submodules and ignored files *)
(* are left out.                                                           *)
(***************************************************************************)
EXTENDS Naturals, Sequences

CONSTANTS
  Path,       \* the paths entries can have
  Version,    \* the files users write: content and mode
  Branch,     \* the branches
  MaxSteps    \* bound: how many edits and commands a behaviour has

Absent == [kind |-> "none"]
Folder == [kind |-> "dir"]
File(b, x) == [kind |-> "file", blob |-> b, exec |-> x]
IsFile(e) == e.kind = "file"

ASSUME PathAssumption ==
  /\ Path \subseteq Seq(Nat)
  /\ \A p \in Path : p # <<>> /\ \A i \in 1 .. Len(p) : SubSeq(p, 1, i) \in Path
  /\ \A v \in Version : v.exec \in BOOLEAN /\ v = File(v.blob, v.exec)
  /\ MaxSteps \in Nat

VARIABLES
  work,    \* what is on disk
  index,   \* the staged file of each path
  tip,     \* the tree of each branch's commit
  on,      \* the branch HEAD names
  job,     \* the command that changes the work tree over, and its target
  todo,    \* the calls it has yet to make
  outcome, \* the last command that ended, and how
  attempt, \* the target of a change-over begun on a clean work tree, which
           \* nobody has touched since except by trying again
  steps    \* edits and commands so far

vars == <<work, index, tip, on, job, todo, outcome, attempt, steps>>

(* Directory p is above path q.                                            *)
Above(p, q) == Len(p) < Len(q) /\ \A i \in 1 .. Len(p) : p[i] = q[i]

(* A file's content and mode part when the modes of two commits meet.      *)
AnyFile == {File(v.blob, x) : v \in Version, x \in BOOLEAN}
Entry == {Absent, Folder} \cup AnyFile
IsTree(t) == \A p, q \in Path : Above(p, q) /\ t[q] # Absent => t[p] = Folder

Idle == [command |-> "none"]
TypeOK ==
  /\ work \in [Path -> Entry] /\ IsTree(work)
  /\ index \in [Path -> AnyFile \cup {Absent}]
  /\ tip \in [Branch -> [Path -> Entry]]
  /\ on \in Branch
  /\ job \in {Idle} \cup [command : {"checkout", "merge", "advance"}, to : Branch]
  /\ todo \subseteq Path \X {"remove", "create", "mode"}
  /\ outcome \in {"none", "add", "commit", "checkout", "merge", "advance"} \X {"ok", "threw", "killed"}
  /\ attempt \subseteq Branch
  /\ steps \in 0 .. MaxSteps

-----------------------------------------------------------------------------
(***************************************************************************)
(* instantiate_tree: the calls that lead from tree curr to tree new.       *)
(***************************************************************************)
SameMode(e, c) == e.kind = c.kind /\ (IsFile(e) => e.exec = c.exec)

(* Mutant: entries with the same id are written again.                     *)
SameFolder(e, c) == e = Folder /\ c = Folder
(* Two subdirectories never replace one another: they are descended into.  *)
SameId(e, c) == e.kind = c.kind /\ (IsFile(e) => e.blob = c.blob)

(* Mutant: the second loop, over what the new tree lacks, is missing.      *)
RemovesReplaced(e, c) == e # Absent /\ c # Absent /\ ~SameId(e, c)
Removes(e, c) == c # Absent /\ (e = Absent \/ ~SameId(e, c))
Creates(e, c) == e # Absent /\ (c = Absent \/ ~SameId(e, c))
(* A directory's mode is set too; that does not show here.                 *)
SetsMode(e, c) == IsFile(e) /\ ~SameMode(e, c)

(* The recursion reaches the entries of the new tree's directories.        *)
Visited(new, p) == \A a \in Path : Above(a, p) => new[a] = Folder
Wanted(new, curr, p, c) ==
  /\ Visited(new, p)
  /\ \/ c = "remove" /\ Removes(new[p], curr[p])
     \/ c = "create" /\ Creates(new[p], curr[p])
     \/ c = "mode" /\ SetsMode(new[p], curr[p])
Calls(new, curr) == {x \in Path \X {"remove", "create", "mode"} : Wanted(new, curr, x[1], x[2])}

(* The order of the calls: a directory before what is in it; in a          *)
(* directory first the entries of the new tree, by name, then those that   *)
(* it lacks.                                                               *)
Before(new, x, y) ==
  LET p == x[1]
      q == y[1]
      Kept(r, i) == new[SubSeq(r, 1, i)] # Absent
  IN \/ p = q /\ <<x[2], y[2]>> \in {<<"remove", "create">>, <<"remove", "mode">>, <<"create", "mode">>}
     \/ Above(p, q)
     \/ \E i \in 1 .. Len(p) :
          /\ i <= Len(q) /\ \A j \in 1 .. i - 1 : p[j] = q[j]
          /\ p[i] # q[i]
          /\ \/ Kept(p, i) /\ ~Kept(q, i)
             \/ (Kept(p, i) <=> Kept(q, i)) /\ p[i] < q[i]

(***************************************************************************)
(* The file system: when a call throws, and what is on disk after it.      *)
(***************************************************************************)
FileAbove(p) == \E a \in Path : Above(a, p) /\ IsFile(work[a])
Holds(p) == \E q \in Path : Above(p, q) /\ work[q] # Absent
OnDirectory(p) == \A a \in Path : Above(a, p) => work[a] = Folder

(* fs::remove takes files and empty directories, fs::remove_all anything;  *)
(* nothing there is fine.                                                  *)
RemoveThrows(p, c) == FileAbove(p) \/ (IsFile(c) /\ Holds(p))
Removed(p) == [q \in Path |-> IF q = p \/ Above(p, q) THEN Absent ELSE work[q]]

(* create_file: the result is ignored, a file in place keeps its mode.     *)
(* Reading a tree as a blob throws.                                        *)
CreateThrows(p, e, c) == e = Folder /\ (IsFile(c) \/ IsFile(work[p]) \/ FileAbove(p))
FileCreated(p, e) ==
  IF work[p] = Folder \/ ~OnDirectory(p) THEN work
  ELSE [work EXCEPT ![p] = File(e.blob, work[p] # Absent /\ work[p].exec)]
DirectoriesCreated(p) == [q \in Path |-> IF q = p \/ Above(q, p) THEN Folder ELSE work[q]]

(* fs::permissions throws when nothing is there.                           *)
ModeSet(p, e) ==
  IF IsFile(work[p]) THEN [work EXCEPT ![p] = File(work[p].blob, e.exec)] ELSE work

(***************************************************************************)
(* The index and trees.                                                    *)
(***************************************************************************)
StagedBelow(p) == \E q \in Path : Above(p, q) /\ index[q] # Absent

(* write_tree refuses a path that is both a file and a directory.          *)
Collision == \E p \in Path : index[p] # Absent /\ StagedBelow(p)
WriteTree ==
  [p \in Path |-> IF index[p] # Absent THEN index[p] ELSE IF StagedBelow(p) THEN Folder ELSE Absent]

FromTree(t) == [p \in Path |-> IF IsFile(t[p]) THEN t[p] ELSE Absent]

-----------------------------------------------------------------------------
(***************************************************************************)
(* The user, between commands, and the commands.                           *)
(***************************************************************************)
Count == job = Idle /\ steps < MaxSteps /\ steps' = steps + 1

(* An entry is put at p: directories are made, and a file that is in the   *)
(* way of one, or a directory's content, goes.                             *)
Placed(p, e) ==
  [q \in Path |-> IF q = p THEN e ELSE IF Above(q, p) THEN Folder
                  ELSE IF Above(p, q) THEN Absent ELSE work[q]]

(* A user writes or removes a file.                                        *)
Edit(p, f) ==
  /\ Count
  /\ f = Absent => IsFile(work[p])
  /\ work' = Placed(p, f)
  /\ attempt' = {}
  /\ UNCHANGED <<index, tip, on, job, todo, outcome>>

(* A user removes an empty directory, or puts one anywhere.                *)
EditDirectory(p) ==
  /\ Count
  /\ work' = Placed(p, IF work[p] = Folder /\ ~Holds(p) THEN Absent ELSE Folder)
  /\ attempt' = {}
  /\ UNCHANGED <<index, tip, on, job, todo, outcome>>

(* add: the files a pathspec matches; other entries stay, colliding or     *)
(* not, and a file that is gone is never matched.                          *)
Add(S) ==
  /\ Count
  /\ \A p \in S : IsFile(work[p])
  /\ index' = [p \in Path |-> IF p \in S THEN work[p] ELSE index[p]]
  /\ outcome' = <<"add", "ok">>
  /\ UNCHANGED <<work, tip, on, job, todo, attempt>>

(* Mutant: write_tree does not look for collisions.                        *)
CommitAnyway ==
  /\ Count
  /\ tip' = [tip EXCEPT ![on] = WriteTree]
  /\ outcome' = <<"commit", "ok">>
  /\ attempt' = {}
  /\ UNCHANGED <<work, index, on, job, todo>>

Commit ==
  /\ Count
  /\ tip' = IF Collision THEN tip ELSE [tip EXCEPT ![on] = WriteTree]
  /\ outcome' = <<"commit", IF Collision THEN "threw" ELSE "ok">>
  /\ attempt' = {}
  /\ UNCHANGED <<work, index, on, job, todo>>

(* checkout of a branch, or a merge that fast-forwards to it, starts: the  *)
(* two commits' trees are read.                                            *)
Begin(command, b) ==
  /\ Count
  /\ job' = [command |-> command, to |-> b]
  /\ todo' = Calls(tip[b], tip[on])
  /\ attempt' = IF work = tip[on] \/ b \in attempt THEN {b} ELSE {}
  /\ outcome' = <<"none", "ok">>
  /\ UNCHANGED <<work, index, tip, on>>

(* The next call instantiate_tree makes is call c for path p.              *)
IsNext(p, c) ==
  /\ <<p, c>> \in todo
  /\ \A y \in todo \ {<<p, c>>} : Before(tip[job.to], <<p, c>>, y)

Returns(p, c) ==
  /\ todo' = todo \ {<<p, c>>}
  /\ UNCHANGED <<index, tip, on, job, outcome, attempt, steps>>

Remove(p) ==
  /\ IsNext(p, "remove")
  /\ ~RemoveThrows(p, tip[on][p])
  /\ work' = Removed(p)
  /\ Returns(p, "remove")

Create(p) ==
  LET e == tip[job.to][p] IN
  /\ IsNext(p, "create")
  /\ ~CreateThrows(p, e, tip[on][p])
  /\ work' = IF e = Folder THEN DirectoriesCreated(p) ELSE FileCreated(p, e)
  /\ Returns(p, "create")

SetMode(p) ==
  /\ IsNext(p, "mode")
  /\ work[p] # Absent
  /\ work' = ModeSet(p, tip[job.to][p])
  /\ Returns(p, "mode")

Ends(how) ==
  /\ job' = Idle
  /\ todo' = {}
  /\ outcome' = <<IF job.command = "advance" THEN "merge" ELSE job.command, how>>

(* A call throws: the command ends where it is.                            *)
Throw ==
  /\ \E p \in Path :
       \/ IsNext(p, "remove") /\ RemoveThrows(p, tip[on][p])
       \/ IsNext(p, "create") /\ CreateThrows(p, tip[job.to][p], tip[on][p])
       \/ IsNext(p, "mode") /\ work[p] = Absent
  /\ Ends("threw")
  /\ UNCHANGED <<work, index, tip, on, attempt, steps>>

(* The process is killed between two steps.                                *)
Interrupt ==
  /\ job # Idle
  /\ Ends("killed")
  /\ UNCHANGED <<work, index, tip, on, attempt, steps>>

(* checkout: HEAD follows when nothing threw.                              *)
FinishCheckout ==
  /\ job.command = "checkout" /\ todo = {}
  /\ on' = job.to
  /\ Ends("ok")
  /\ attempt' = {}
  /\ UNCHANGED <<work, index, tip, steps>>

(* Mutant: the index stays as it was.                                      *)
MergeKeepsIndex ==
  /\ job.command = "merge" /\ todo = {}
  /\ job' = [job EXCEPT !.command = "advance"]
  /\ UNCHANGED <<work, index, tip, on, todo, outcome, attempt, steps>>

(* merge: the target's tree becomes the index, then the branch moves.      *)
LoadIndex ==
  /\ job.command = "merge" /\ todo = {}
  /\ index' = FromTree(tip[job.to])
  /\ job' = [job EXCEPT !.command = "advance"]
  /\ UNCHANGED <<work, tip, on, todo, outcome, attempt, steps>>

FinishMerge ==
  /\ job.command = "advance"
  /\ tip' = [tip EXCEPT ![on] = tip[job.to]]
  /\ Ends("ok")
  /\ attempt' = {}
  /\ UNCHANGED <<work, index, on, steps>>

Init ==
  /\ work = [p \in Path |-> Absent]
  /\ index = [p \in Path |-> Absent]
  /\ tip = [b \in Branch |-> [p \in Path |-> Absent]]
  /\ on \in Branch
  /\ job = Idle /\ todo = {}
  /\ outcome = <<"none", "ok">>
  /\ attempt = {}
  /\ steps = 0

Next ==
  \/ \E p \in Path, f \in Version \cup {Absent} : Edit(p, f)
  \/ \E p \in Path : EditDirectory(p) \/ Remove(p) \/ Create(p) \/ SetMode(p)
  \/ \E S \in SUBSET Path : Add(S)
  \/ Commit
  \/ \E b \in Branch : Begin("checkout", b) \/ Begin("merge", b)
  \/ Throw \/ Interrupt \/ FinishCheckout \/ LoadIndex \/ FinishMerge

Spec == Init /\ [][Next]_vars

-----------------------------------------------------------------------------
Succeeds == job # Idle /\ job' = Idle /\ outcome'[2] = "ok"

(* Begun on a work tree that is exactly HEAD's, a change-over that ends    *)
(* well, at once or after others like it threw or were killed half-way,    *)
(* leaves exactly the target's files, modes and directories, whatever      *)
(* became of each name: an entry added or removed, a directory that is a   *)
(* file now (tree.cpp:91-164).  Only an executable whose content changed   *)
(* may have lost its bit: tree.cpp:133 looks at the commits' modes.        *)
LosesBit(e, c) == IsFile(e) /\ IsFile(c) /\ e.exec /\ c.exec /\ e.blob # c.blob
CheckoutIsExact ==
  [][Succeeds /\ attempt # {} =>
       \A p \in Path :
         LET e == tip[job.to][p] IN
         \/ work[p] = e
         \/ LosesBit(e, tip[on][p]) /\ work[p] = File(e.blob, FALSE)]_vars

(* What the two commits agree on - a file with its mode, or that there is  *)
(* nothing - below directories both have, is not touched, edited or        *)
(* untracked, nor is anything below it, by any step of a change-over: only *)
(* entries whose ids differ are read and written (tree.cpp:115).           *)
Agreed(p) ==
  LET new == tip[job.to]
      curr == tip[on]
  IN /\ new[p] = curr[p] /\ new[p] # Folder
     /\ \A a \in Path : Above(a, p) => new[a] = Folder /\ curr[a] = Folder
AgreementUntouched ==
  [][job # Idle =>
       \A p, q \in Path : Agreed(p) /\ (q = p \/ Above(p, q)) => work'[q] = work[q]]_vars

(* Whatever files and directories came and went in the index, the trees    *)
(* write_tree makes of it hold no entry below a file and no directory      *)
(* without a file in it (index.cpp:302-321).                               *)
TreesAreTrees ==
  \A b \in Branch :
    /\ IsTree(tip[b])
    /\ \A p \in Path : tip[b][p] = Folder => \E q \in Path : Above(p, q) /\ IsFile(tip[b][q])

(* After a fast-forward a commit with nothing staged repeats the target's  *)
(* tree: what was staged before is gone and the index never collides, also *)
(* when the work tree took several tries (commands/merge.cpp:26-28).       *)
MergeLoadsIndex == outcome = <<"merge", "ok">> => ~Collision /\ WriteTree = tip[on]

(* It leaves every file's mode as the target has it: "Change the file mode *)
(* if need be" (commands/checkout.md:14).                                  *)
CheckoutSetsModes ==
  [][Succeeds /\ attempt # {} => \A p \in Path : work[p] = tip[job.to][p]]_vars

(* A checkout from a work tree that is exactly HEAD's does not fail:       *)
(* commands/checkout.md:13-18 says how files and directories change over.  *)
CleanCheckoutSucceeds == [][job # Idle /\ attempt # {} => outcome'[2] # "threw"]_vars

(* A checkout keeps no edit from being lost: a changed file makes it "an   *)
(* ERROR" instead (commands/checkout.md:22-23).  A file is edited when it  *)
(* is not HEAD's and no call for it was made yet.                          *)
Edited(p) ==
  /\ IsFile(work[p]) /\ work[p] # tip[on][p]
  /\ \A c \in {"remove", "create", "mode"} :
       <<p, c>> \in Calls(tip[job.to], tip[on]) => <<p, c>> \in todo
EditsSurvive == [][\A p \in Path : job # Idle /\ Edited(p) => work'[p] = work[p]]_vars

(* Where the index held HEAD's files it holds the new HEAD's after a       *)
(* checkout, so that it shows only changes between files and HEAD          *)
(* (index files.md:5).                                                     *)
CheckoutLoadsIndex ==
  [][Succeeds /\ index = FromTree(tip[on]) => index' = FromTree(tip'[on'])]_vars

(* A commit can be made of what add staged from the work tree: "Git turns  *)
(* index files into a new commit" (index files.md:15).                     *)
StagedCommits == outcome # <<"commit", "threw">>

(* build_file_map keeps the ids of entries, and of a tree's files.         *)
Listed(files) == {<<p, files[p].blob>> : p \in {q \in Path : files[q] # Absent}}
NothingStaged == Listed(index) = Listed(FromTree(tip[on]))

(* When status shows nothing staged, a commit would record the tree HEAD   *)
(* has: "Staged changes are compared between the current index and the     *)
(* HEAD commit" (index.cpp:155).                                           *)
StagedChangesShow == NothingStaged /\ ~Collision => WriteTree = tip[on]
=============================================================================
