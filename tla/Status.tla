-------------------------------- MODULE Status --------------------------------
(***************************************************************************)
(* What status says of the work tree, and how far it can be believed:      *)
(* status hashes a file only when its time stamp or size differ from those *)
(* the index keeps, and the index keeps those that add found before it     *)
(* read the file.  A user edits files at any moment, in the middle of an   *)
(* add too; commands run one at a time, and real git may drop or conflict  *)
(* an entry in between.                                                    *)
(*                                                                         *)
(* Paths are those of files, all in one directory; modes, submodules and   *)
(* symbolic links are left out.  WorkTree has the directories and modes.   *)
(***************************************************************************)
EXTENDS Naturals

CONSTANTS
  Path,             \* paths of files
  Blob,             \* contents of files
  Size,             \* the size of each content
  EmptyBlob,        \* the content a file that cannot be read is taken to have
  NoBlob,           \* stands where there is no file
  Conflict,         \* stands for the stages of an unmerged path
  FileClockIsUnix,  \* whether file_clock and stat count from the same epoch
  MaxClock,         \* bound: seconds
  MaxSteps          \* bound: edits and commands

ASSUME StatusAssumption ==
  /\ Size \in [Blob -> Nat]
  /\ EmptyBlob \in Blob /\ NoBlob \notin Blob /\ Conflict \notin Blob \cup {NoBlob}
  /\ FileClockIsUnix \in BOOLEAN
  /\ MaxClock \in Nat \ {0} /\ MaxSteps \in Nat

VARIABLES
  clock,    \* seconds since the epoch
  work,     \* the file at each path, with the second it was written in
  ignored,  \* the paths .gitignore names
  index,    \* the entry of each path, as saved
  born,     \* whether HEAD has a commit
  head,     \* the files of HEAD's tree
  todo,     \* add: the matched files not staged yet
  stating,  \* add: the file it has called stat on
  held,     \* add: what stat returned, and when
  mem,      \* add: the index in memory
  shown,    \* what status just printed
  steps     \* edits and commands so far

files == <<clock, work, ignored>>
repo == <<index, born, head>>
adding == <<todo, stating, held, mem>>
vars == <<files, repo, adding, shown, steps>>

MaybeBlob == Blob \cup {NoBlob}
Tree == [Path -> MaybeBlob]
NoFile == [blob |-> NoBlob, mtime |-> 0]
(* seen, the second in which stat was called, is not in the code.          *)
Entry(b, m, s, t) == [blob |-> b, mtime |-> m, size |-> s, seen |-> t]
NoEntry == Entry(NoBlob, 0, 0, 0)
Unmerged == Entry(Conflict, 0, 0, 0)
NoStat == [mtime |-> 0, size |-> 0, seen |-> 0]

Sections == {"unmerged", "modified", "deleted", "untracked",
             "stagedModified", "stagedAdded", "stagedDeleted"}
Nothing == [kind |-> "none", in |-> [s \in Sections |-> {}]]
Thrown == [kind |-> "threw", in |-> [s \in Sections |-> {}]]

Seconds == 0 .. MaxClock
Stats == [mtime : Seconds, size : Nat, seen : Seconds]
Entries == [blob : Blob, mtime : Seconds, size : Nat, seen : Seconds] \cup {NoEntry, Unmerged}

TypeOK ==
  /\ clock \in Seconds \ {0}
  /\ work \in [Path -> [blob : MaybeBlob, mtime : Seconds]]
  /\ ignored \subseteq Path
  /\ index \in [Path -> Entries] /\ mem \in [Path -> Entries]
  /\ born \in BOOLEAN /\ head \in Tree
  /\ todo \subseteq Path /\ stating \subseteq todo
  /\ held \in Stats
  /\ shown \in [kind : {"none", "threw", "printed"}, in : [Sections -> SUBSET Path]]
  /\ steps \in 0 .. MaxSteps

-----------------------------------------------------------------------------
(***************************************************************************)
(* scan_status, section by section.                                        *)
(***************************************************************************)
Exists(p) == work[p] # NoFile
Tracked(p) == index[p] \notin {NoEntry, Unmerged}

(* The walk skips what is ignored, tracked or not, and what is unmerged.   *)
Walked == {p \in Path : Exists(p) /\ p \notin ignored /\ index[p] # Unmerged}

(* The stored time is stat's; the time compared with it is file_clock's,   *)
(* which some standard libraries count from an epoch of their own.         *)
LooksUnchanged(p) ==
  /\ FileClockIsUnix
  /\ work[p].mtime = index[p].mtime
  /\ Size[work[p].blob] = index[p].size
Modified == {p \in Walked : Tracked(p) /\ ~ LooksUnchanged(p) /\ work[p].blob # index[p].blob}
Untracked == {p \in Walked : ~ Tracked(p)}
Deleted == {p \in Path : Tracked(p) /\ ~ Exists(p)}

StagedModified == {p \in Path : Tracked(p) /\ head[p] # NoBlob /\ index[p].blob # head[p]}
StagedAdded == {p \in Path : Tracked(p) /\ head[p] = NoBlob}
StagedDeletedNever == {}  \* mutant: only what the index lists is looked at
StagedDeleted == {p \in Path : head[p] # NoBlob /\ index[p] = NoEntry}

Report ==
  [s \in Sections |->
     CASE s = "unmerged" -> {p \in Path : index[p] = Unmerged}
       [] s = "modified" -> Modified
       [] s = "deleted" -> Deleted
       [] s = "untracked" -> Untracked
       [] s = "stagedModified" -> StagedModified
       [] s = "stagedAdded" -> StagedAdded
       [] s = "stagedDeleted" -> StagedDeleted]

(* "nothing to commit, working tree clean"                                 *)
SaysClean == shown.kind = "printed" /\ \A s \in Sections : shown.in[s] = {}

(* What the index makes of a tree, and a commit of the index.              *)
(* Mutant: the time stamps of the files on disk are filled in.             *)
FromTreeRefreshed(t) ==
  [p \in Path |-> IF t[p] = NoBlob THEN NoEntry
                  ELSE Entry(t[p], work[p].mtime, Size[t[p]], clock)]
FromTreeAll(t) == [p \in Path |-> Entry(t[p], 0, 0, clock)]  \* mutant: entries for nothing
FromTree(t) == [p \in Path |-> IF t[p] = NoBlob THEN NoEntry ELSE Entry(t[p], 0, 0, clock)]
IndexTree == [p \in Path |-> index[p].blob]

-----------------------------------------------------------------------------
(***************************************************************************)
(* The user.                                                               *)
(***************************************************************************)
Count == steps < MaxSteps /\ steps' = steps + 1
Idle == todo = {}

Tick ==
  /\ clock < MaxClock
  /\ clock' = clock + 1
  /\ UNCHANGED <<work, ignored, repo, adding, shown, steps>>

(* A file is written, or removed; shown is about the files before.         *)
Edit(p, b) ==
  /\ Count
  /\ b = NoBlob => Exists(p)
  /\ work' = [work EXCEPT ![p] = IF b = NoBlob THEN NoFile ELSE [blob |-> b, mtime |-> clock]]
  /\ shown' = Nothing
  /\ UNCHANGED <<clock, ignored, repo, adding>>

Ignore(p) ==
  /\ Count
  /\ ignored' = IF p \in ignored THEN ignored \ {p} ELSE ignored \cup {p}
  /\ shown' = Nothing
  /\ UNCHANGED <<clock, work, repo, adding>>

(* git rm --cached, or a merge of real git that leaves a conflict.         *)
OtherGit(p) ==
  /\ Count /\ Idle
  /\ Tracked(p)
  /\ \E e \in {NoEntry, Unmerged} : index' = [index EXCEPT ![p] = e]
  /\ shown' = Nothing
  /\ UNCHANGED <<files, born, head, adding>>

(***************************************************************************)
(* add: the matched files one by one, in any order: stat, then read and    *)
(* hash; the index is saved after the last.                                *)
(***************************************************************************)
AddBegin(S) ==
  /\ Count /\ Idle
  /\ S # {} /\ \A p \in S : Exists(p) /\ p \notin ignored
  /\ todo' = S
  /\ mem' = index
  /\ shown' = Nothing
  /\ UNCHANGED <<files, repo, stating, held>>

AddDone == todo' = {} /\ stating' = {} /\ held' = NoStat /\ mem' = [p \in Path |-> NoEntry]

AddStat(p) ==
  /\ p \in todo /\ stating = {}
  /\ Exists(p)
  /\ stating' = {p}
  /\ held' = [mtime |-> work[p].mtime, size |-> Size[work[p].blob], seen |-> clock]
  /\ UNCHANGED <<files, repo, todo, mem, shown, steps>>

(* Nothing is saved when a matched file is gone.                           *)
AddThrows(p) ==
  /\ p \in todo /\ stating = {}
  /\ ~ Exists(p)
  /\ AddDone
  /\ UNCHANGED <<files, repo, shown, steps>>

ReadFile(p) == IF Exists(p) THEN work[p].blob ELSE EmptyBlob

StagedNow(p) == [mem EXCEPT ![p] = Entry(ReadFile(p), held.mtime, held.size, held.seen)]

AddRead(p) ==
  /\ stating = {p} /\ todo # {p}
  /\ mem' = StagedNow(p)
  /\ todo' = todo \ {p} /\ stating' = {} /\ held' = NoStat
  /\ UNCHANGED <<files, repo, shown, steps>>

AddLast(p) ==
  /\ stating = {p} /\ todo = {p}
  /\ index' = StagedNow(p)
  /\ AddDone
  /\ UNCHANGED <<files, born, head, shown, steps>>

(***************************************************************************)
(* The other commands.  write_tree refuses an unmerged path.               *)
(***************************************************************************)
Commit ==
  /\ Count /\ Idle
  /\ \A p \in Path : index[p] # Unmerged
  /\ head' = IndexTree
  /\ born' = TRUE /\ shown' = Nothing
  /\ UNCHANGED <<files, index, adding>>

(* instantiate_tree writes or removes the files on which the trees differ. *)
ChangeOver(t) ==
  work' = [p \in Path |-> IF t[p] = head[p] THEN work[p]
                          ELSE IF t[p] = NoBlob THEN NoFile
                          ELSE [blob |-> t[p], mtime |-> clock]]

(* checkout of a commit with tree t, or a fast-forward to it, which loads  *)
(* the index too, its stat data zero so that status hashes every file.     *)
Checkout(t) ==
  /\ Count /\ Idle
  /\ born
  /\ ChangeOver(t)
  /\ head' = t
  /\ shown' = Nothing
  /\ UNCHANGED <<clock, ignored, index, born, adding>>

Merge(t) ==
  /\ Count /\ Idle
  /\ born
  /\ ChangeOver(t)
  /\ index' = FromTree(t)
  /\ head' = t
  /\ shown' = Nothing
  /\ UNCHANGED <<clock, ignored, born, adding>>

(* Without a commit, GitCommit::read("HEAD") throws after the walk.        *)
Status ==
  /\ Idle /\ shown = Nothing
  /\ shown' = IF born THEN [kind |-> "printed", in |-> Report] ELSE Thrown
  /\ UNCHANGED <<files, repo, adding, steps>>

Init ==
  /\ clock = 1
  /\ work = [p \in Path |-> NoFile]
  /\ ignored = {}
  /\ index = [p \in Path |-> NoEntry]
  /\ born = FALSE /\ head = [p \in Path |-> NoBlob]
  /\ todo = {} /\ stating = {} /\ held = NoStat /\ mem = [p \in Path |-> NoEntry]
  /\ shown = Nothing
  /\ steps = 0

Next ==
  \/ Tick \/ Commit \/ Status
  \/ \E p \in Path : Ignore(p) \/ OtherGit(p) \/ AddStat(p) \/ AddThrows(p) \/ AddRead(p) \/ AddLast(p)
  \/ \E p \in Path, b \in MaybeBlob : Edit(p, b)
  \/ \E S \in SUBSET Path : AddBegin(S)
  \/ \E t \in Tree : Checkout(t) \/ Merge(t)

Spec == Init /\ [][Next]_vars

-----------------------------------------------------------------------------
(* An entry is settled when its stat was called in a later second than the *)
(* file had been written in.                                               *)
Settled(e) == e.seen > e.mtime

(* Entry e says which content p has as long as p keeps its time stamp.     *)
Trustworthy(e, p) ==
  Settled(e) /\ Exists(p) /\ work[p].mtime = e.mtime => work[p].blob = e.blob

(* Why: no stamp lies in the future, so an edit after stat cannot leave    *)
(* the stamp of a settled entry in place; and what status printed is what  *)
(* it would print again.                                                   *)
StampsArePast ==
  /\ held.seen <= clock
  /\ \A p \in Path :
       /\ work[p].mtime <= clock
       /\ work[p].blob = NoBlob <=> work[p].mtime = 0
       /\ index[p].seen <= clock /\ mem[p].seen <= clock
IInv ==
  /\ TypeOK /\ StampsArePast
  /\ \A p \in Path : Trustworthy(index[p], p) /\ Trustworthy(mem[p], p)
  /\ ~ Idle => shown = Nothing
  /\ shown.kind = "printed" => shown.in = Report

(* status is right about every file whose entry is settled, whatever was   *)
(* edited, and whenever: between stat and read of an add, after a merge    *)
(* that zeroed the stat data, back to what it was before.  Where the       *)
(* clocks have different epochs it is right about every file               *)
(* (index.cpp:200-213, index_entry.cpp:43-69).                             *)
SettledFilesAreWatched ==
  shown.kind = "printed" =>
    \A p \in Walked :
      Tracked(p) /\ (Settled(index[p]) \/ ~ FileClockIsUnix) =>
        (p \in shown.in["modified"] <=> work[p].blob # index[p].blob)

(* "nothing to commit, working tree clean" is true: a commit would repeat  *)
(* HEAD's tree, and every file is HEAD's, but for ignored files and those  *)
(* written in the second they were staged in (status_formatter.cpp:30-33). *)
CleanMeansCommitted ==
  SaysClean =>
    /\ IndexTree = head
    /\ \A p \in Path :
         work[p].blob # head[p] =>
           \/ p \in ignored /\ Exists(p)
           \/ FileClockIsUnix /\ Tracked(p) /\ ~ Settled(index[p])

(* "Unstaged changes are compared between the current index and the        *)
(* current working directory" (index.cpp:158).                             *)
EveryEditShows ==
  shown.kind = "printed" =>
    \A p \in Walked : Tracked(p) /\ work[p].blob # index[p].blob => p \in shown.in["modified"]
=============================================================================
