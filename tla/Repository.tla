----------------------------- MODULE Repository -----------------------------
(***************************************************************************)
(* The repository protocol of gyt: what the mutating commands do to the    *)
(* files under .git, one file operation at a time.                         *)
(*                                                                         *)
(* Every command is a process of its own; nothing locks the repository, so *)
(* the file operations of several processes interleave freely.  A file is  *)
(* written by create_file: opening it truncates it, the content reaches it *)
(* when the stream is closed.  Between the two, and for ever if the        *)
(* process dies or the disk is full, the file exists and is empty.         *)
(*                                                                         *)
(* Abstracted: a blob, a commit id and a path are model values, a tree is  *)
(* one level deep, packed refs and packs are never written by gyt and are  *)
(* left out, and so is the work tree (the content `add' finds in a file is *)
(* any blob).  A HEAD line "ref: ..." is taken to be shorter than an id.   *)
(* A user's own commit may be anything that hash-object stores, a tree of  *)
(* the user's making anything but malformed.                               *)
(***************************************************************************)
EXTENDS Naturals, FiniteSets

CONSTANTS
  Proc,         \* the processes, each running one gyt command at a time
  Path,         \* tracked file names
  Blob,         \* file contents
  NoBlob,       \* "no entry for this path" in a tree or an index
  CommitId,     \* ids of commits
  Unused,       \* an id no commit has taken yet
  Malformed,    \* what is stored as a commit and is none
  Branch,       \* the files below refs/heads
  Tag,          \* the files below refs/tags
  Junk,         \* the file below refs/heads that a garbled HEAD names
  Main,         \* the branch a new repository starts on
  HEAD,         \* the file .git/HEAD
  Missing,      \* the file does not exist
  Empty,        \* the file exists and is empty
  Commands,     \* the commands a run lets users start
  Types,        \* the types of object it lets them give to hash-object
  MaxCommands,  \* bound: how many commands are started
  MaxFaults     \* bound: how many crashes and failed writes happen

Tree == [Path -> Blob \cup {NoBlob}]
EmptyTree == [f \in Path |-> NoBlob]

BlobObject(b) == <<"blob", b>>
TreeObject(t) == <<"tree", t>>
CommitObject(c) == <<"commit", c>>
Object == ({"blob"} \X Blob) \cup ({"tree"} \X Tree) \cup ({"commit"} \X CommitId)

CommitData == [tree : Tree, parents : SUBSET CommitId]

(* The sets of objects that one object, or one file, can refer to.         *)
BlobObjects(t) == {BlobObject(t[f]) : f \in {g \in Path : t[g] # NoBlob}}
CommitLinks(d) ==
  IF d = Malformed THEN {} ELSE {TreeObject(d.tree)} \cup {CommitObject(c) : c \in d.parents}
Links ==
  {BlobObjects(t) : t \in Tree} \cup {CommitLinks(d) : d \in CommitData}
    \cup {{CommitObject(c)} : c \in CommitId} \cup {{}}

Ref == Branch \cup Tag \cup {Junk}
RefFile == Ref \cup {HEAD}

ASSUME NameAssumption ==
  /\ Main \in Branch
  /\ Branch \cap Tag = {} /\ Junk \notin Branch \cup Tag /\ HEAD \notin Ref
  /\ Ref \cap CommitId = {} /\ HEAD \notin CommitId /\ "index" \notin RefFile
  /\ {Missing, Empty} \cap (CommitId \cup RefFile \cup Tree) = {}
  /\ Missing # Empty
  /\ NoBlob \notin Blob
  /\ Unused \notin CommitData \cup {Malformed} /\ Unused \notin Links /\ Malformed \notin CommitData

VARIABLES
  objects,   \* the object files that exist
  torn,      \* those of them that are empty
  info,      \* what each commit id stands for
  named,     \* history: the objects that users' own trees and commits name
  refs,      \* content of HEAD and of every ref file
  index,     \* content of .git/index
  last,      \* history: the last id written to each ref
  cmd,       \* the command a process runs
  pc,        \* its next file operation
  mem,       \* the GitIndex it holds in memory
  todo,      \* the matched paths `add' has still to stage
  obj,       \* the object it is writing
  dest,      \* the ref file it is writing
  val,       \* the content for that file, or the commit in hand
  started,   \* commands started so far
  faults     \* faults so far

store == <<objects, torn, info, named>>
files == <<refs, last>>
locals == <<cmd, mem, todo, obj, dest, val>>
counts == <<started, faults>>
vars == <<store, files, index, locals, pc, counts>>

Command == {"none", "add", "hash", "commit", "tag", "branch", "switch", "merge", "init"}
Label == {"idle", "stage", "indexFill", "objCheck", "objOpen", "objFill",
          "parent", "mergeHead", "advance", "refOpen", "refFill"}
NoObject == <<"none", NoBlob>>

TypeOK ==
  /\ objects \subseteq Object
  /\ torn \subseteq objects
  /\ info \in [CommitId -> CommitData \cup {Unused, Malformed}]
  /\ named \subseteq Object
  /\ refs \in [RefFile -> CommitId \cup Ref \cup {Missing, Empty}]
  /\ index \in Tree \cup {Missing, Empty}
  /\ last \in [Ref -> CommitId \cup {Missing}]
  /\ cmd \in [Proc -> Command]
  /\ pc \in [Proc -> Label]
  /\ mem \in [Proc -> Tree]
  /\ todo \in [Proc -> SUBSET Path]
  /\ obj \in [Proc -> Object \cup {NoObject}]
  /\ dest \in [Proc -> RefFile]
  /\ val \in [Proc -> CommitId \cup Ref \cup {Missing}]
  /\ started \in Nat
  /\ faults \in Nat

(***************************************************************************)
(* Reading the files.                                                      *)
(***************************************************************************)

(* GitIndex::read: no file is an empty index; an empty file is an error.   *)
IndexReadable == index # Empty
IndexTreeAsFound == index  \* mutant: no empty index for a missing file
IndexTree == IF index = Missing THEN EmptyTree ELSE index

(* resolve_ref on HEAD: one symbolic step, then the content of that file.  *)
HeadId == IF refs[HEAD] \in Ref THEN refs[refs[HEAD]] ELSE refs[HEAD]

(* GitObject::find: what a ref file holds is taken as it is; a bare id     *)
(* must be a loose object.                                                 *)
Resolvable == {c \in CommitId : CommitObject(c) \in objects \/ \E r \in RefFile : refs[r] = c}

(* read_git_object_data: the file exists and inflates.                     *)
Intact(o) == o \in objects \ torn
CommitReadable(c) == Intact(CommitObject(c)) /\ info[c] \in CommitData
Readable(c) == CommitReadable(c) /\ Intact(TreeObject(info[c].tree))

(* instantiate_tree reads the blobs of the entries that differ.            *)
CanInstantiate(new, old) ==
  \A f \in Path : new[f] \notin {old[f], NoBlob} => Intact(BlobObject(new[f]))

(* What has_ancestor looks at, from c on, which it has read: the parents   *)
(* of what it looked at before, but of nothing beyond what it looks for.   *)
GoesOn(c, sought, S) ==
  \A e \in S \ {sought} : e = c \/ CommitReadable(e) => info[e].parents \subseteq S
LooksAt(c, sought) ==
  {d \in CommitId : \A S \in SUBSET CommitId : c \in S /\ GoesOn(c, sought, S) => d \in S}

(***************************************************************************)
(* Steps every command is made of.                                         *)
(***************************************************************************)
Go(p, from, to) == pc[p] = from /\ pc' = [pc EXCEPT ![p] = to]

(* The command ends: returns, or throws to main, or its process dies.      *)
Finish(p) ==
  /\ pc' = [pc EXCEPT ![p] = "idle"]
  /\ cmd' = [cmd EXCEPT ![p] = "none"]
  /\ mem' = [mem EXCEPT ![p] = EmptyTree]
  /\ todo' = [todo EXCEPT ![p] = {}]
  /\ obj' = [obj EXCEPT ![p] = NoObject]
  /\ dest' = [dest EXCEPT ![p] = HEAD]
  /\ val' = [val EXCEPT ![p] = Missing]

Start(p, c) ==
  /\ c \in Commands
  /\ started < MaxCommands
  /\ started' = started + 1
  /\ cmd' = [cmd EXCEPT ![p] = c]
  /\ UNCHANGED faults

Fault ==
  /\ faults < MaxFaults
  /\ faults' = faults + 1
  /\ UNCHANGED started

(***************************************************************************)
(* GitObject::write.  An object that exists is not written again; the      *)
(* check and the open are two system calls.                                *)
(***************************************************************************)
AfterObject(p) ==
  CASE cmd[p] = "hash" -> Finish(p)
    [] cmd[p] # "hash" /\ obj[p][1] = "blob"   -> Go(p, pc[p], "stage") /\ UNCHANGED locals
    [] cmd[p] # "hash" /\ obj[p][1] = "tree"   -> Go(p, pc[p], "parent") /\ UNCHANGED locals
    [] cmd[p] # "hash" /\ obj[p][1] = "commit" -> Go(p, pc[p], "advance") /\ UNCHANGED locals

ObjectExists(p) ==
  /\ pc[p] = "objCheck"
  /\ obj[p] \in objects
  /\ AfterObject(p)
  /\ UNCHANGED <<store, files, index, counts>>

(* Mutant: written again whether it exists or not.                         *)
ObjectRewritten(p) ==
  /\ Go(p, "objCheck", "objOpen")
  /\ UNCHANGED <<store, files, index, locals, counts>>

ObjectAbsent(p) ==
  /\ Go(p, "objCheck", "objOpen")
  /\ obj[p] \notin objects
  /\ UNCHANGED <<store, files, index, locals, counts>>

ObjectOpen(p) ==
  /\ Go(p, "objOpen", "objFill")
  /\ objects' = objects \cup {obj[p]}
  /\ torn' = torn \cup {obj[p]}
  /\ UNCHANGED <<info, named, files, index, locals, counts>>

(* Mutant: create_file's result is ignored.                                *)
ObjectOpenFailsUnnoticed(p) ==
  /\ pc[p] = "objOpen"
  /\ Fault
  /\ AfterObject(p)
  /\ UNCHANGED <<store, files, index>>

(* create_file returns false: "Failed to write object" is thrown.          *)
ObjectOpenFails(p) ==
  /\ pc[p] = "objOpen"
  /\ Fault
  /\ Finish(p)
  /\ UNCHANGED <<store, files, index>>

ObjectFill(p) ==
  /\ pc[p] = "objFill"
  /\ torn' = torn \ {obj[p]}
  /\ AfterObject(p)
  /\ UNCHANGED <<objects, info, named, files, index, counts>>

(* The stream fails after it was opened; create_file still returns true.   *)
ObjectFillLost(p) ==
  /\ pc[p] = "objFill"
  /\ Fault
  /\ AfterObject(p)
  /\ UNCHANGED <<store, files, index>>

(***************************************************************************)
(* create_file on HEAD or on a ref: update_current_ref, update_head, and   *)
(* the calls in tag and checkout -b.                                       *)
(***************************************************************************)

(* checkout -b goes on to point HEAD at the branch it has just written.    *)
AfterRef(p) ==
  IF cmd[p] = "branch" /\ dest[p] # HEAD
  THEN /\ pc' = [pc EXCEPT ![p] = "refOpen"]
       /\ val' = [val EXCEPT ![p] = dest[p]]
       /\ dest' = [dest EXCEPT ![p] = HEAD]
       /\ UNCHANGED <<cmd, mem, todo, obj>>
  ELSE Finish(p)

RefOpen(p) ==
  /\ Go(p, "refOpen", "refFill")
  /\ refs' = [refs EXCEPT ![dest[p]] = Empty]
  /\ UNCHANGED <<store, last, index, locals, counts>>

(* update_current_ref throws; the other callers ignore the result.         *)
RefOpenFails(p) ==
  /\ pc[p] = "refOpen"
  /\ Fault
  /\ IF cmd[p] \in {"commit", "merge"} THEN Finish(p) ELSE AfterRef(p)
  /\ UNCHANGED <<store, files, index>>

(* A second writer that opened the file before the first one filled it     *)
(* writes over the start of what is there: what is longer shows through.   *)
Overlaid(old, new) ==
  IF new \in CommitId \/ old \in {Empty, new} THEN {new}
  ELSE IF old \in CommitId THEN {Junk} ELSE {new, Junk}

RefFill(p) ==
  /\ pc[p] = "refFill"
  /\ \E v \in Overlaid(refs[dest[p]], val[p]) : refs' = [refs EXCEPT ![dest[p]] = v]
  /\ last' = IF dest[p] \in Ref THEN [last EXCEPT ![dest[p]] = val[p]] ELSE last
  /\ AfterRef(p)
  /\ UNCHANGED <<store, index, counts>>

RefFillLost(p) ==
  /\ pc[p] = "refFill"
  /\ Fault
  /\ AfterRef(p)
  /\ UNCHANGED <<store, files, index>>

(***************************************************************************)
(* GitIndex::save.  Its caller never learns whether the write succeeded.   *)
(* A second writer's bytes need no overlay: entries past the header's      *)
(* count are ignored, so the last writer's index is what a reader sees.    *)
(***************************************************************************)
AfterIndex(p) ==
  IF cmd[p] = "merge"
  THEN Go(p, pc[p], "advance") /\ UNCHANGED locals
  ELSE Finish(p)

IndexOpen(p) ==
  /\ Go(p, "stage", "indexFill")
  /\ todo[p] = {}
  /\ index' = Empty
  /\ UNCHANGED <<store, files, locals, counts>>

IndexOpenFails(p) ==
  /\ pc[p] = "stage" /\ todo[p] = {}
  /\ Fault
  /\ AfterIndex(p)
  /\ UNCHANGED <<store, files, index>>

IndexFill(p) ==
  /\ pc[p] = "indexFill"
  /\ index' = mem[p]
  /\ AfterIndex(p)
  /\ UNCHANGED <<store, files, counts>>

IndexFillLost(p) ==
  /\ pc[p] = "indexFill"
  /\ Fault
  /\ AfterIndex(p)
  /\ UNCHANGED <<store, files, index>>

(***************************************************************************)
(* add and hash-object.                                                    *)
(***************************************************************************)

(* The matches are complete before the index is read; an unmatched         *)
(* pathspec or an unreadable index ends the command with nothing done.     *)
StartAdd(p) ==
  /\ Go(p, "idle", "stage")
  /\ Start(p, "add")
  /\ IndexReadable
  /\ mem' = [mem EXCEPT ![p] = IndexTree]
  /\ \E S \in SUBSET Path \ {{}} : todo' = [todo EXCEPT ![p] = S]
  /\ UNCHANGED <<store, files, index, obj, dest, val>>

(* create_index_entry and add_file, in the set's order, which is any.      *)
StageFile(p) ==
  /\ Go(p, "stage", "objCheck")
  /\ \E f \in todo[p], b \in Blob :
       /\ todo' = [todo EXCEPT ![p] = @ \ {f}]
       /\ mem' = [mem EXCEPT ![p] = [@ EXCEPT ![f] = b]]
       /\ obj' = [obj EXCEPT ![p] = BlobObject(b)]
  /\ UNCHANGED <<store, files, index, cmd, dest, val, counts>>

(* A commit's id is that of its content: it can name commits only whose    *)
(* ids were found before its own.                                          *)
Names(c, data) ==
  /\ info[c] \in {Unused, data}
  /\ info' = [info EXCEPT ![c] = data]
Written ==
  {Malformed} \cup
    [tree : Tree, parents : SUBSET {c \in CommitId : info[c] # Unused}]

(* GitObject::write stores what it is given as a blob, a tree or a commit, *)
(* and looks for nothing that the tree or the commit names.                *)
StartHash(p) ==
  /\ Go(p, "idle", "objCheck")
  /\ Start(p, "hash")
  /\ \/ \E b \in Blob :
          /\ "blob" \in Types
          /\ obj' = [obj EXCEPT ![p] = BlobObject(b)]
          /\ UNCHANGED <<info, named>>
     \/ \E t \in Tree :
          /\ "tree" \in Types
          /\ obj' = [obj EXCEPT ![p] = TreeObject(t)]
          /\ named' = named \cup BlobObjects(t)
          /\ UNCHANGED info
     \/ \E c \in CommitId, data \in Written :
          /\ "commit" \in Types
          /\ obj' = [obj EXCEPT ![p] = CommitObject(c)]
          /\ Names(c, data)
          /\ named' = named \cup CommitLinks(data)
  /\ UNCHANGED <<objects, torn, files, index, mem, todo, dest, val>>

(* Without -w it only prints the id.                                       *)
HashOnly(p) ==
  /\ pc[p] = "idle"
  /\ "hash" \in Commands /\ "commit" \in Types
  /\ started < MaxCommands /\ started' = started + 1
  /\ \E c \in CommitId, data \in Written : Names(c, data)
  /\ UNCHANGED <<objects, torn, named, files, index, locals, pc, faults>>

(***************************************************************************)
(* commit.                                                                 *)
(***************************************************************************)

(* Mutant: the tree is named and not written.                              *)
StartCommitTreeUnwritten(p) ==
  /\ Go(p, "idle", "parent")
  /\ Start(p, "commit")
  /\ IndexReadable
  /\ mem' = [mem EXCEPT ![p] = IndexTree]
  /\ UNCHANGED <<store, files, index, todo, obj, dest, val>>

(* GitIndex::read().write_tree() starts.                                   *)
StartCommit(p) ==
  /\ Go(p, "idle", "objCheck")
  /\ Start(p, "commit")
  /\ IndexReadable
  /\ mem' = [mem EXCEPT ![p] = IndexTree]
  /\ obj' = [obj EXCEPT ![p] = TreeObject(IndexTree)]
  /\ UNCHANGED <<store, files, index, todo, dest, val>>

(* Only a missing branch file is an unborn HEAD; an empty or otherwise     *)
(* unresolvable HEAD is an error.                                          *)
UnbornOrUnreadable == refs[HEAD] \in Branch \cup {Junk} /\ HeadId \notin CommitId  \* mutant
Unborn == refs[HEAD] \in Branch \cup {Junk} /\ HeadId = Missing
Parents == IF Unborn THEN {} ELSE {HeadId}

(* The id is one that nobody has used, or the one another process got for  *)
(* the same content in the same second.                                    *)
MakeCommit(p) ==
  /\ Go(p, "parent", "objCheck")
  /\ Parents \subseteq CommitId
  /\ \E c \in CommitId :
       /\ Names(c, [tree |-> mem[p], parents |-> Parents])
       /\ obj' = [obj EXCEPT ![p] = CommitObject(c)]
       /\ val' = [val EXCEPT ![p] = c]
  /\ UNCHANGED <<objects, torn, named, files, index, cmd, mem, todo, dest, counts>>

(* HEAD cannot be resolved, or no valid name and email are configured.     *)
CommitRefused(p) ==
  /\ pc[p] = "parent"
  /\ Finish(p)
  /\ UNCHANGED <<store, files, index, counts>>

(* update_current_ref reads HEAD again to find the file to write.          *)
CurrentRef(p) ==
  /\ Go(p, "advance", "refOpen")
  /\ dest' = [dest EXCEPT ![p] = IF refs[HEAD] \in Ref THEN refs[HEAD] ELSE HEAD]
  /\ UNCHANGED <<store, files, index, cmd, mem, todo, obj, val, counts>>

(***************************************************************************)
(* tag, checkout -b, checkout, init: their checks, then the ref write.     *)
(***************************************************************************)
StartRef(p, c, file, content) ==
  /\ Go(p, "idle", "refOpen")
  /\ Start(p, c)
  /\ dest' = [dest EXCEPT ![p] = file]
  /\ val' = [val EXCEPT ![p] = content]
  /\ UNCHANGED <<store, files, index, mem, todo, obj>>

(* Mutants: tag takes any id, checkout -b any name.                        *)
StartTagUnchecked(p) ==
  \E t \in Tag, c \in CommitId : refs[t] = Missing /\ StartRef(p, "tag", t, c)
StartBranchUnchecked(p) ==
  \E b \in Branch, c \in Resolvable : StartRef(p, "branch", b, c)

StartTag(p) ==
  \E t \in Tag, c \in CommitId :
    /\ CommitObject(c) \in objects
    /\ refs[t] = Missing
    /\ StartRef(p, "tag", t, c)

StartBranch(p) ==
  \E b \in Branch, c \in Resolvable :
    /\ refs[b] = Missing
    /\ StartRef(p, "branch", b, c)

(* The target and HEAD are read and the work tree is changed over before   *)
(* HEAD is written; whatever cannot be read ends the command before that.  *)
StartSwitch(p) ==
  \E target \in Branch \cup Tag \cup Resolvable :
    LET c == IF target \in Ref THEN refs[target] ELSE target IN
    /\ c \in CommitId /\ Readable(c)
    /\ HeadId \in CommitId /\ Readable(HeadId)
    /\ CanInstantiate(info[c].tree, info[HeadId].tree)
    /\ StartRef(p, "switch", HEAD, target)

(* init on an existing repository writes HEAD again.                       *)
StartInit(p) == StartRef(p, "init", HEAD, Main)

(***************************************************************************)
(* merge.                                                                  *)
(***************************************************************************)
StartMerge(p) ==
  /\ Go(p, "idle", "mergeHead")
  /\ Start(p, "merge")
  /\ \E c \in Resolvable : Readable(c) /\ val' = [val EXCEPT ![p] = c]
  /\ UNCHANGED <<store, files, index, mem, todo, obj, dest>>

CanFastForward(c) ==
  /\ HeadId \in CommitId /\ Readable(HeadId)
  /\ HeadId \in LooksAt(c, HeadId)
  /\ CanInstantiate(info[c].tree, info[HeadId].tree)

(* has_ancestor throws if it comes upon a commit that cannot be read       *)
(* before it finds HEAD's; which comes first is AncestryWalk's subject.    *)
MayThrow(c) == \E d \in LooksAt(c, HeadId) \ {HeadId, c} : ~ CommitReadable(d)

(* Mutant: the index is saved as it was.                                   *)
FastForwardOldIndex(p) ==
  /\ Go(p, "mergeHead", "stage")
  /\ CanFastForward(val[p]) /\ IndexReadable
  /\ mem' = [mem EXCEPT ![p] = IndexTree]
  /\ UNCHANGED <<store, files, index, cmd, todo, obj, dest, val, counts>>

(* The index in memory becomes that of the target's tree.                  *)
FastForward(p) ==
  /\ Go(p, "mergeHead", "stage")
  /\ CanFastForward(val[p])
  /\ mem' = [mem EXCEPT ![p] = info[val[p]].tree]
  /\ UNCHANGED <<store, files, index, cmd, todo, obj, dest, val, counts>>

(* Mutant: the index is opened for writing before merge decides.           *)
MergeRefusedTooLate(p) ==
  /\ pc[p] = "mergeHead"
  /\ ~ CanFastForward(val[p])
  /\ index' = Empty
  /\ Finish(p)
  /\ UNCHANGED <<store, files, counts>>

MergeRefused(p) ==
  /\ pc[p] = "mergeHead"
  /\ ~ CanFastForward(val[p]) \/ MayThrow(val[p])
  /\ Finish(p)
  /\ UNCHANGED <<store, files, index, counts>>

(***************************************************************************)
(* A process may die anywhere; users start commands when they like.        *)
(***************************************************************************)
Crash(p) ==
  /\ pc[p] # "idle"
  /\ Fault
  /\ Finish(p)
  /\ UNCHANGED <<store, files, index>>

Begin(p) ==
  \/ StartAdd(p) \/ StartHash(p) \/ HashOnly(p) \/ StartCommit(p) \/ StartMerge(p)
  \/ StartTag(p) \/ StartBranch(p) \/ StartSwitch(p) \/ StartInit(p)

Step(p) ==
  \/ StageFile(p)
  \/ ObjectExists(p) \/ ObjectAbsent(p) \/ ObjectOpen(p) \/ ObjectFill(p)
  \/ IndexOpen(p) \/ IndexFill(p)
  \/ MakeCommit(p) \/ CommitRefused(p)
  \/ FastForward(p) \/ MergeRefused(p)
  \/ CurrentRef(p) \/ RefOpen(p) \/ RefFill(p)

Fail(p) ==
  \/ ObjectOpenFails(p) \/ ObjectFillLost(p)
  \/ IndexOpenFails(p) \/ IndexFillLost(p)
  \/ RefOpenFails(p) \/ RefFillLost(p)
  \/ Crash(p)

(* `gyt init' in an empty directory.                                       *)
Init ==
  /\ objects = {} /\ torn = {}
  /\ info = [c \in CommitId |-> Unused] /\ named = {}
  /\ refs = [r \in RefFile |-> IF r = HEAD THEN Main ELSE Missing]
  /\ index = Missing
  /\ last = [r \in Ref |-> Missing]
  /\ cmd = [p \in Proc |-> "none"]
  /\ pc = [p \in Proc |-> "idle"]
  /\ mem = [p \in Proc |-> EmptyTree]
  /\ todo = [p \in Proc |-> {}]
  /\ obj = [p \in Proc |-> NoObject]
  /\ dest = [p \in Proc |-> HEAD]
  /\ val = [p \in Proc |-> Missing]
  /\ started = 0 /\ faults = 0

Next == \E p \in Proc : Begin(p) \/ Step(p) \/ Fail(p)

Spec == Init /\ [][Next]_vars

(* The operating system keeps running a process that has not ended.        *)
FairSpec == Spec /\ \A p \in Proc : WF_vars(Step(p))

-----------------------------------------------------------------------------
(***************************************************************************)
(* Properties.                                                             *)
(***************************************************************************)

(* What an object's content refers to: a tree to its blobs, a commit to    *)
(* its tree and its parents.                                               *)
References(o) ==
  CASE o[1] = "blob"   -> {}
    [] o[1] = "tree"   -> BlobObjects(o[2])
    [] o[1] = "commit" -> IF info[o[2]] = Unused
                          THEN Unused
                          ELSE CommitLinks(info[o[2]])

(* What a root file points at.                                             *)
RootFile == RefFile \cup {"index"}
PointsAt(r) ==
  IF r = "index" THEN IF index \in Tree THEN BlobObjects(index) ELSE {}
  ELSE IF refs[r] \in CommitId THEN {CommitObject(refs[r])} ELSE {}

(* No command makes a reference to an object that is not stored: what is   *)
(* missing from the store, a user's own tree or commit names.  add writes  *)
(* blobs before the index, commit writes the tree, then the commit, then   *)
(* the ref (index.cpp:267-354, commands/commit.cpp:24-67), whatever other  *)
(* processes do and whichever of them die.  A missing blob that a user     *)
(* names may get into the index, by a merge, and from there into trees;    *)
(* but HEAD and the refs hold only ids of stored commits.                  *)
WrittenBeforeReferenced ==
  /\ \A o \in objects : References(o) # Unused /\ References(o) \subseteq objects \cup named
  /\ \A r \in RefFile : PointsAt(r) \subseteq objects
  /\ PointsAt("index") \subseteq objects \cup named

(* Each file operation is a step of the abstract object graph or changes   *)
(* nothing in it.                                                          *)
Graph == INSTANCE ObjectGraph WITH
  Node <- Object, Root <- RootFile, Draft <- {"index"}, Links <- Links, NoContent <- Unused,
  stored <- objects, onTrust <- named,
  refersTo <- [o \in Object |-> References(o)],
  roots <- [r \in RootFile |-> PointsAt(r)]
ImplementsObjectGraph == Graph!Spec

(* What makes WrittenBeforeReferenced inductive: what a process holds in   *)
(* memory, and the object it is writing, refer only to what is stored or   *)
(* named by users, and to that object.                                     *)
WritingObject == {"objCheck", "objOpen", "objFill"}
HeldClosed(p) ==
  /\ pc[p] \in WritingObject =>
       /\ obj[p] \in Object
       /\ References(obj[p]) # Unused
       /\ References(obj[p]) \subseteq objects \cup named
       /\ cmd[p] # "hash" =>
            /\ obj[p][1] = "tree" => obj[p] = TreeObject(mem[p])
            /\ obj[p][1] = "commit" => val[p] \in CommitId /\ obj[p] = CommitObject(val[p])
            /\ BlobObjects(mem[p]) \subseteq objects \cup named \cup {obj[p]}
  /\ pc[p] = "objFill" => obj[p] \in objects
  /\ cmd[p] = "hash" => pc[p] \in WritingObject
  /\ pc[p] \in {"stage", "indexFill"} => BlobObjects(mem[p]) \subseteq objects \cup named
  /\ pc[p] = "parent" => TreeObject(mem[p]) \in objects
  /\ val[p] \in CommitId =>
       \/ CommitObject(val[p]) \in objects
       \/ pc[p] \in WritingObject /\ obj[p] = CommitObject(val[p])
  /\ cmd[p] = "merge" =>
       /\ pc[p] \notin WritingObject \cup {"parent"} /\ val[p] \in CommitId
       /\ info[val[p]] \in CommitData /\ TreeObject(info[val[p]].tree) \in objects
  /\ pc[p] = "mergeHead" => cmd[p] = "merge"
  /\ cmd[p] = "merge" \/ pc[p] = "idle" => todo[p] = {}
  /\ pc[p] = "advance" => val[p] \in CommitId
  /\ pc[p] \in {"refOpen", "refFill"} => val[p] # Missing /\ (dest[p] \in Ref => val[p] \in CommitId)

IInv == TypeOK /\ WrittenBeforeReferenced /\ \A p \in Proc : HeldClosed(p)

(* While nothing fails, an empty file is one that some process has open:   *)
(* whoever runs gyt when no other gyt runs finds every file readable, so   *)
(* truncating in place (create_file, util.cpp) is a window, not a state.   *)
EmptyOnlyWhileWriting ==
  faults = 0 =>
    /\ \A o \in torn : \E p \in Proc : pc[p] = "objFill" /\ obj[p] = o
    /\ \A r \in RefFile : refs[r] = Empty => \E p \in Proc : pc[p] = "refFill" /\ dest[p] = r
    /\ index = Empty => \E p \in Proc : pc[p] = "indexFill"

(* An object that can be read stays readable: has_loose_object keeps every *)
(* later write of the same object from truncating it (object.cpp:67).      *)
IntactStaysIntact == [][objects \ torn \subseteq objects' \ torn']_vars

(* Once a commit command has ended, what its branch names can be read:     *)
(* the commit, its tree and the tree's blobs.  "Written loose objects are  *)
(* complete zlib streams" (compression_t.cpp:35).                          *)
Whole(c) == Readable(c) /\ \A o \in BlobObjects(info[c].tree) : Intact(o)
PublishedReadable ==
  (\A p \in Proc : pc[p] = "idle") =>
    \A b \in Branch : refs[b] \in CommitId => Whole(refs[b])

(* The smallest set with c that is closed under parents.                   *)
ClosedUnderParents(S) == \A d \in S : info[d] \in CommitData => info[d].parents \subseteq S
Ancestors(c) ==
  {d \in CommitId : \A S \in SUBSET CommitId : c \in S /\ ClosedUnderParents(S) => d \in S}

(* A branch only moves to a descendant of where it was: update_current_ref *)
(* advances it, tag and checkout -b refuse an existing name, and a branch  *)
(* file left empty by a fault is never mistaken for an unborn branch.      *)
BranchesAdvance ==
  [][\A b \in Branch :
       last[b] # Missing /\ last'[b] # last[b] =>
         last[b] \in Ancestors(last'[b])]_vars

(* The commit command leaves out the parent only on a branch that never    *)
(* had a commit: "Only a missing branch reference represents an unborn     *)
(* HEAD" (commands/commit.cpp:31), although a crash may have emptied it.   *)
RootsOnlyOnNewBranches ==
  [][\A p \in Proc :
       pc[p] = "parent" /\ pc'[p] = "objCheck" =>
         \/ info'[val'[p]].parents # {}
         \/ refs[HEAD] \in Branch /\ last[refs[HEAD]] = Missing]_vars

(* A tag keeps the id it was made with: the tag command refuses a name     *)
(* that is taken (commands/tag.cpp:22).                                    *)
TagsFixed ==
  [][\A t \in Tag : last[t] # Missing => last'[t] = last[t]]_vars

(* When a fast-forward merge moves the branch, the index has become the    *)
(* target's tree already (commands/merge.cpp:26): the next commit records  *)
(* the merged content and not what the index held before.                  *)
IndexFollowsFastForward ==
  faults = 0 =>
    \A p \in Proc : cmd[p] = "merge" /\ pc[p] \in {"advance", "refOpen", "refFill"} =>
      index = info[val[p]].tree

(* Every truncation window closes: a ref, the index or an object that is   *)
(* empty is readable again later, unless a fault ends the command that is  *)
(* writing it (util.cpp:70-93).                                            *)
WindowsClose ==
  /\ \A r \in RefFile : faults = 0 /\ refs[r] = Empty ~> refs[r] # Empty \/ faults > 0
  /\ faults = 0 /\ index = Empty ~> index # Empty \/ faults > 0
  /\ faults = 0 /\ torn # {} ~> torn = {} \/ faults > 0
=============================================================================
