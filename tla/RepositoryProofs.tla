-------------------------- MODULE RepositoryProofs --------------------------
(***************************************************************************)
(* Proofs about Repository for any number of processes, paths, blobs,      *)
(* commits and refs, any number of commands and any number of faults.      *)
(*                                                                         *)
(* The first part holds for any number of processes, the last for one.     *)
(*                                                                         *)
(* IInv is inductive: a step either leaves the store and the files alone,  *)
(* or adds one object whose references are stored, names one new commit,   *)
(* or puts in one root file what the process holds, which is stored.       *)
(***************************************************************************)
EXTENDS Repository, TLAPS

(* The two halves of TypeOK: what is on disk, what is in a process.        *)
DiskTypes ==
  /\ objects \subseteq Object
  /\ torn \subseteq objects
  /\ info \in [CommitId -> CommitData \cup {Unused, Malformed}]
  /\ named \subseteq Object
  /\ refs \in [RefFile -> CommitId \cup Ref \cup {Missing, Empty}]
  /\ index \in Tree \cup {Missing, Empty}
  /\ last \in [Ref -> CommitId \cup {Missing}]

ProcessTypes ==
  /\ cmd \in [Proc -> Command]
  /\ pc \in [Proc -> Label]
  /\ mem \in [Proc -> Tree]
  /\ todo \in [Proc -> SUBSET Path]
  /\ obj \in [Proc -> Object \cup {NoObject}]
  /\ dest \in [Proc -> RefFile]
  /\ val \in [Proc -> CommitId \cup Ref \cup {Missing}]
  /\ started \in Nat
  /\ faults \in Nat

Same(q) ==
  /\ cmd'[q] = cmd[q] /\ pc'[q] = pc[q] /\ mem'[q] = mem[q] /\ todo'[q] = todo[q]
  /\ obj'[q] = obj[q] /\ dest'[q] = dest[q] /\ val'[q] = val[q]

OthersSame(p) == \A q \in Proc \ {p} : Same(q)

(* An id keeps its content, and what users name is not forgotten.          *)
InfoGrows ==
  /\ \A c \in CommitId : info[c] # Unused => info'[c] = info[c]
  /\ named \subseteq named'

(* EmptyTree is a tree, and it refers to nothing.                          *)
LEMMA EmptyTreeType == EmptyTree \in Tree /\ BlobObjects(EmptyTree) = {}
  BY NameAssumption DEF EmptyTree, Tree, BlobObjects

(* The objects named by constructors have the shape they are built with.   *)
LEMMA Constructors ==
  /\ \A b \in Blob : BlobObject(b) \in Object /\ BlobObject(b)[1] = "blob"
  /\ \A t \in Tree : TreeObject(t) \in Object /\ TreeObject(t)[1] = "tree" /\ TreeObject(t)[2] = t
  /\ \A c \in CommitId :
       CommitObject(c) \in Object /\ CommitObject(c)[1] = "commit" /\ CommitObject(c)[2] = c
  BY DEF BlobObject, TreeObject, CommitObject, Object

LEMMA Kinds ==
  ASSUME NEW o \in Object
  PROVE  /\ o[1] \in {"blob", "tree", "commit"}
         /\ o[1] = "blob" => o[2] \in Blob
         /\ o[1] = "tree" => o[2] \in Tree /\ o = TreeObject(o[2])
         /\ o[1] = "commit" => o[2] \in CommitId /\ o = CommitObject(o[2])
  BY DEF TreeObject, CommitObject, Object

(* What a tree, a commit or the index refers to is a set of objects.       *)
LEMMA LinksAreObjects ==
  /\ \A t \in Tree : BlobObjects(t) \subseteq Object
  /\ \A d \in CommitData \cup {Malformed} : CommitLinks(d) \subseteq Object
  <1>1. \A t \in Tree : BlobObjects(t) \subseteq Object
    BY Constructors DEF BlobObjects, Tree
  <1>2. \A d \in CommitData \cup {Malformed} : CommitLinks(d) \subseteq Object
    BY Constructors DEF CommitLinks, CommitData
  <1> QED BY <1>1, <1>2

(* Naming a commit changes no references that exist.                       *)
LEMMA ReferencesGrow ==
  ASSUME DiskTypes, InfoGrows, NEW o \in Object, References(o) # Unused
  PROVE  References(o)' = References(o)
  BY Kinds DEF References, InfoGrows

LEMMA StayClosed ==
  ASSUME DiskTypes, InfoGrows, objects \subseteq objects', NEW q, HeldClosed(q), Same(q)
  PROVE  HeldClosed(q)'
  <1>1. \A o \in Object : References(o) # Unused => References(o)' = References(o)
    BY ReferencesGrow
  <1>2. \A c \in CommitId : info[c] \in CommitData => info'[c] = info[c]
    BY NameAssumption DEF InfoGrows
  <1> QED BY <1>1, <1>2 DEF HeldClosed, Same, WritingObject, InfoGrows

(***************************************************************************)
(* The ways a step can change the disk.                                    *)
(***************************************************************************)

LEMMA DiskUnchanged ==
  ASSUME DiskTypes, WrittenBeforeReferenced, UNCHANGED <<objects, info, named, refs, index>>
  PROVE  WrittenBeforeReferenced'
  BY DEF DiskTypes, WrittenBeforeReferenced, References, PointsAt

LEMMA ObjectAdded ==
  ASSUME DiskTypes, WrittenBeforeReferenced, UNCHANGED <<info, named, refs, index>>,
         NEW o \in Object, References(o) # Unused, References(o) \subseteq objects \cup named,
         objects' = objects \cup {o}
  PROVE  WrittenBeforeReferenced'
  <1>1. \A n \in Object : References(n)' = References(n)
    BY DEF References
  <1>2. \A r \in RootFile : PointsAt(r)' = PointsAt(r)
    BY DEF PointsAt
  <1> QED BY <1>1, <1>2 DEF DiskTypes, WrittenBeforeReferenced, RootFile

LEMMA InfoExtended ==
  ASSUME DiskTypes, WrittenBeforeReferenced, UNCHANGED <<objects, refs, index>>, InfoGrows
  PROVE  WrittenBeforeReferenced'
  <1>1. \A n \in objects : References(n)' = References(n)
    BY ReferencesGrow DEF DiskTypes, WrittenBeforeReferenced
  <1>2. \A r \in RootFile : PointsAt(r)' = PointsAt(r)
    BY DEF PointsAt
  <1> QED BY <1>1, <1>2 DEF WrittenBeforeReferenced, InfoGrows, RootFile

LEMMA RefChanged ==
  ASSUME DiskTypes, WrittenBeforeReferenced, UNCHANGED <<objects, info, named, index>>,
         NEW r \in RefFile, NEW v, refs' = [refs EXCEPT ![r] = v],
         v \in CommitId => CommitObject(v) \in objects
  PROVE  WrittenBeforeReferenced'
  <1>1. \A n \in Object : References(n)' = References(n)
    BY DEF References
  <1>2. \A x \in RefFile : PointsAt(x)' \subseteq objects
    BY NameAssumption DEF PointsAt, DiskTypes, WrittenBeforeReferenced
  <1>3. PointsAt("index")' = PointsAt("index")
    BY DEF PointsAt
  <1> QED BY <1>1, <1>2, <1>3 DEF DiskTypes, WrittenBeforeReferenced

LEMMA IndexChanged ==
  ASSUME DiskTypes, WrittenBeforeReferenced, UNCHANGED <<objects, info, named, refs>>,
         index' \in Tree => BlobObjects(index') \subseteq objects \cup named
  PROVE  WrittenBeforeReferenced'
  <1>1. \A n \in Object : References(n)' = References(n)
    BY DEF References
  <1>2. \A x \in RefFile : PointsAt(x)' = PointsAt(x)
    BY NameAssumption DEF PointsAt
  <1>3. PointsAt("index")' \subseteq objects \cup named
    BY DEF PointsAt
  <1> QED BY <1>1, <1>2, <1>3 DEF DiskTypes, WrittenBeforeReferenced

(***************************************************************************)
(* The ways a step can change its process.                                 *)
(***************************************************************************)

LEMMA Finished ==
  ASSUME ProcessTypes, NEW p \in Proc, Finish(p), started' \in Nat, faults' \in Nat
  PROVE  ProcessTypes' /\ OthersSame(p) /\ HeldClosed(p)'
  <1>1. ProcessTypes'
    BY EmptyTreeType DEF ProcessTypes, Finish, NoObject, RefFile, Command, Label
  <1>2. OthersSame(p)
    BY DEF ProcessTypes, Finish, OthersSame, Same
  <1>3. HeldClosed(p)'
    BY NameAssumption DEF ProcessTypes, Finish, HeldClosed, WritingObject
  <1> QED BY <1>1, <1>2, <1>3

LEMMA TypesSplit == TypeOK <=> DiskTypes /\ ProcessTypes
  BY DEF TypeOK, DiskTypes, ProcessTypes

LEMMA Assemble ==
  ASSUME IInv, NEW p \in Proc, DiskTypes', ProcessTypes', WrittenBeforeReferenced',
         OthersSame(p), HeldClosed(p)', InfoGrows, objects \subseteq objects'
  PROVE  IInv'
  <1>1. \A q \in Proc : HeldClosed(q)'
    BY StayClosed, TypesSplit DEF IInv, OthersSame
  <1>2. TypeOK'
    BY DEF TypeOK, DiskTypes, ProcessTypes
  <1> QED BY <1>1, <1>2 DEF IInv

(* After an object is written, the process goes on with what refers to it. *)
LEMMA ObjectDone ==
  ASSUME IInv, NEW p \in Proc, pc[p] \in WritingObject, obj[p] \in objects, AfterObject(p),
         UNCHANGED <<objects, info, named>>, started' \in Nat, faults' \in Nat
  PROVE  ProcessTypes' /\ OthersSame(p) /\ HeldClosed(p)'
  <1> USE DEF WritingObject
  <1>0. ProcessTypes /\ DiskTypes /\ HeldClosed(p) /\ obj[p] \in Object
    BY TypesSplit DEF IInv, HeldClosed
  <1>1. CASE Finish(p)
    BY <1>0, <1>1, Finished
  <1>2. ASSUME NEW next \in {"stage", "parent", "advance"}, Go(p, pc[p], next), UNCHANGED locals,
               cmd[p] # "hash",
               next = "stage" => obj[p][1] = "blob",
               next = "parent" => obj[p][1] = "tree",
               next = "advance" => obj[p][1] = "commit"
        PROVE  ProcessTypes' /\ OthersSame(p) /\ HeldClosed(p)'
    <2>1. ProcessTypes'
      BY <1>0, <1>2 DEF ProcessTypes, Go, locals, Label
    <2>2. OthersSame(p)
      BY <1>0, <1>2 DEF ProcessTypes, Go, locals, OthersSame, Same
    <2>3. HeldClosed(p)'
      BY <1>0, <1>2 DEF ProcessTypes, Go, locals, HeldClosed
    <2> QED BY <2>1, <2>2, <2>3
  <1>3. \/ Finish(p)
        \/ /\ cmd[p] # "hash" /\ UNCHANGED locals
           /\ \/ obj[p][1] = "blob" /\ Go(p, pc[p], "stage")
              \/ obj[p][1] = "tree" /\ Go(p, pc[p], "parent")
              \/ obj[p][1] = "commit" /\ Go(p, pc[p], "advance")
    BY <1>0, Kinds DEF AfterObject
  <1> QED BY <1>1, <1>2, <1>3

(* After a ref is written, checkout -b writes HEAD; any other command ends.*)
LEMMA RefDone ==
  ASSUME IInv, NEW p \in Proc, pc[p] \in {"refOpen", "refFill"}, AfterRef(p),
         UNCHANGED <<objects, info, named>>, started' \in Nat, faults' \in Nat
  PROVE  ProcessTypes' /\ OthersSame(p) /\ HeldClosed(p)'
  <1>0. ProcessTypes /\ DiskTypes /\ HeldClosed(p)
    BY TypesSplit DEF IInv
  <1>1. CASE Finish(p)
    BY <1>0, <1>1, Finished
  <1>2. CASE ~ Finish(p)
    <2>0. /\ cmd[p] = "branch" /\ dest[p] \in Ref
          /\ pc' = [pc EXCEPT ![p] = "refOpen"]
          /\ val' = [val EXCEPT ![p] = dest[p]]
          /\ dest' = [dest EXCEPT ![p] = HEAD]
          /\ UNCHANGED <<cmd, mem, todo, obj>>
      BY <1>0, <1>2 DEF AfterRef, ProcessTypes, RefFile
    <2>1. ProcessTypes'
      BY <1>0, <2>0 DEF ProcessTypes, Label, RefFile
    <2>2. OthersSame(p)
      BY <1>0, <2>0 DEF ProcessTypes, OthersSame, Same
    <2>3. HeldClosed(p)'
      BY <1>0, <2>0, NameAssumption DEF ProcessTypes, HeldClosed, WritingObject, RefFile
    <2> QED BY <2>1, <2>2, <2>3
  <1> QED BY <1>1, <1>2

(* After the index is written, merge moves the branch; add ends.           *)
LEMMA IndexDone ==
  ASSUME IInv, NEW p \in Proc, pc[p] \in {"stage", "indexFill"}, AfterIndex(p),
         UNCHANGED <<objects, info, named>>, started' \in Nat, faults' \in Nat
  PROVE  ProcessTypes' /\ OthersSame(p) /\ HeldClosed(p)'
  <1>0. ProcessTypes /\ DiskTypes /\ HeldClosed(p)
    BY TypesSplit DEF IInv
  <1>1. CASE Finish(p)
    BY <1>0, <1>1, Finished
  <1>2. CASE ~ Finish(p)
    <2>0. cmd[p] = "merge" /\ Go(p, pc[p], "advance") /\ UNCHANGED locals
      BY <1>2 DEF AfterIndex
    <2>1. ProcessTypes'
      BY <1>0, <2>0 DEF ProcessTypes, Go, locals, Label
    <2>2. OthersSame(p)
      BY <1>0, <2>0 DEF ProcessTypes, Go, locals, OthersSame, Same
    <2>3. HeldClosed(p)'
      BY <1>0, <2>0 DEF ProcessTypes, Go, locals, HeldClosed, WritingObject
    <2> QED BY <2>1, <2>2, <2>3
  <1> QED BY <1>1, <1>2

(***************************************************************************)
(* The steps of GitObject::write.                                          *)
(***************************************************************************)
LEMMA ObjectSteps ==
  ASSUME IInv, NEW p \in Proc,
         \/ ObjectExists(p) \/ ObjectAbsent(p) \/ ObjectOpen(p) \/ ObjectOpenFails(p)
         \/ ObjectFill(p) \/ ObjectFillLost(p)
  PROVE  IInv'
  <1> USE DEF WritingObject
  <1>0. ProcessTypes /\ DiskTypes /\ WrittenBeforeReferenced /\ HeldClosed(p)
    BY TypesSplit DEF IInv
  <1>1. CASE ObjectExists(p)
    <2>1. ProcessTypes' /\ OthersSame(p) /\ HeldClosed(p)'
      BY <1>0, <1>1, ObjectDone DEF ObjectExists, store, counts, ProcessTypes
    <2>2. DiskTypes' /\ WrittenBeforeReferenced' /\ InfoGrows
      BY <1>0, <1>1, DiskUnchanged DEF ObjectExists, store, files, DiskTypes, InfoGrows
    <2> QED BY <2>1, <2>2, <1>1, Assemble DEF ObjectExists, store
  <1>2. CASE ObjectAbsent(p)
    <2>1. ProcessTypes' /\ OthersSame(p) /\ HeldClosed(p)'
      BY <1>0, <1>2 DEF ObjectAbsent, Go, locals, store, counts, ProcessTypes, Label, OthersSame, Same,
                        HeldClosed, References
    <2>2. DiskTypes' /\ WrittenBeforeReferenced' /\ InfoGrows
      BY <1>0, <1>2, DiskUnchanged DEF ObjectAbsent, store, files, DiskTypes, InfoGrows
    <2> QED BY <2>1, <2>2, <1>2, Assemble DEF ObjectAbsent, store
  <1>3. CASE ObjectOpen(p)
    <2>0. obj[p] \in Object /\ References(obj[p]) # Unused /\ References(obj[p]) \subseteq objects \cup named
      BY <1>0, <1>3 DEF ObjectOpen, Go, HeldClosed
    <2>1. ProcessTypes' /\ OthersSame(p) /\ HeldClosed(p)'
      BY <1>0, <1>3, <2>0 DEF ObjectOpen, Go, locals, counts, ProcessTypes, Label, OthersSame, Same,
                        HeldClosed, References
    <2>2. WrittenBeforeReferenced'
      BY <1>0, <1>3, <2>0, ObjectAdded DEF ObjectOpen, files
    <2>3. DiskTypes' /\ InfoGrows
      BY <1>0, <1>3, <2>0 DEF ObjectOpen, files, DiskTypes, InfoGrows
    <2> QED BY <2>1, <2>2, <2>3, <1>3, Assemble DEF ObjectOpen
  <1>4. CASE ObjectOpenFails(p)
    <2>1. ProcessTypes' /\ OthersSame(p) /\ HeldClosed(p)'
      BY <1>0, <1>4, Finished DEF ObjectOpenFails, Fault, ProcessTypes
    <2>2. DiskTypes' /\ WrittenBeforeReferenced' /\ InfoGrows
      BY <1>0, <1>4, DiskUnchanged DEF ObjectOpenFails, store, files, DiskTypes, InfoGrows
    <2> QED BY <2>1, <2>2, <1>4, Assemble DEF ObjectOpenFails, store
  <1>5. CASE ObjectFill(p)
    <2>1. ProcessTypes' /\ OthersSame(p) /\ HeldClosed(p)'
      BY <1>0, <1>5, ObjectDone DEF ObjectFill, counts, ProcessTypes, HeldClosed
    <2>2. WrittenBeforeReferenced'
      BY <1>0, <1>5, DiskUnchanged DEF ObjectFill, files
    <2>3. DiskTypes' /\ InfoGrows
      BY <1>0, <1>5 DEF ObjectFill, files, DiskTypes, InfoGrows
    <2> QED BY <2>1, <2>2, <2>3, <1>5, Assemble DEF ObjectFill
  <1>6. CASE ObjectFillLost(p)
    <2>1. ProcessTypes' /\ OthersSame(p) /\ HeldClosed(p)'
      BY <1>0, <1>6, ObjectDone DEF ObjectFillLost, Fault, store, ProcessTypes, HeldClosed
    <2>2. DiskTypes' /\ WrittenBeforeReferenced' /\ InfoGrows
      BY <1>0, <1>6, DiskUnchanged DEF ObjectFillLost, store, files, DiskTypes, InfoGrows
    <2> QED BY <2>1, <2>2, <1>6, Assemble DEF ObjectFillLost, store
  <1> QED BY <1>1, <1>2, <1>3, <1>4, <1>5, <1>6

(***************************************************************************)
(* The steps that write HEAD or a ref.                                     *)
(***************************************************************************)
LEMMA RefSteps ==
  ASSUME IInv, NEW p \in Proc,
         \/ CurrentRef(p) \/ RefOpen(p) \/ RefOpenFails(p) \/ RefFill(p) \/ RefFillLost(p)
  PROVE  IInv'
  <1>0. ProcessTypes /\ DiskTypes /\ WrittenBeforeReferenced /\ HeldClosed(p)
    BY TypesSplit DEF IInv
  <1>1. CASE CurrentRef(p)
    <2>1. ProcessTypes' /\ OthersSame(p) /\ HeldClosed(p)'
      BY <1>0, <1>1, NameAssumption
         DEF CurrentRef, Go, store, counts, ProcessTypes, Label, RefFile, OthersSame, Same, HeldClosed,
             WritingObject
    <2>2. DiskTypes' /\ WrittenBeforeReferenced' /\ InfoGrows
      BY <1>0, <1>1, DiskUnchanged DEF CurrentRef, store, files, DiskTypes, InfoGrows
    <2> QED BY <2>1, <2>2, <1>1, Assemble DEF CurrentRef, store
  <1>2. CASE RefOpen(p)
    <2>1. ProcessTypes' /\ OthersSame(p) /\ HeldClosed(p)'
      BY <1>0, <1>2 DEF RefOpen, Go, locals, store, counts, ProcessTypes, Label, OthersSame, Same,
                        HeldClosed, WritingObject
    <2>2. WrittenBeforeReferenced'
      <3>1. dest[p] \in RefFile /\ Empty \notin CommitId
        BY <1>0, NameAssumption DEF ProcessTypes
      <3>2. UNCHANGED <<objects, info, named, index>> /\ refs' = [refs EXCEPT ![dest[p]] = Empty]
        BY <1>2 DEF RefOpen, store
      <3> QED BY <1>0, <3>1, <3>2, RefChanged
    <2>3. DiskTypes' /\ InfoGrows
      BY <1>0, <1>2 DEF RefOpen, store, DiskTypes, InfoGrows
    <2> QED BY <2>1, <2>2, <2>3, <1>2, Assemble DEF RefOpen, store
  <1>3. CASE RefOpenFails(p)
    <2>0. Finish(p) \/ AfterRef(p)
      BY <1>3 DEF RefOpenFails
    <2>1. started' \in Nat /\ faults' \in Nat /\ UNCHANGED <<objects, info, named>> /\ pc[p] = "refOpen"
      BY <1>0, <1>3 DEF RefOpenFails, Fault, store, ProcessTypes
    <2>2. ProcessTypes' /\ OthersSame(p) /\ HeldClosed(p)'
      BY <1>0, <2>0, <2>1, Finished, RefDone
    <2>3. DiskTypes' /\ WrittenBeforeReferenced' /\ InfoGrows
      BY <1>0, <1>3, DiskUnchanged DEF RefOpenFails, store, files, DiskTypes, InfoGrows
    <2> QED BY <2>1, <2>2, <2>3, Assemble
  <1>4. CASE RefFill(p)
    <2>1. PICK v \in Overlaid(refs[dest[p]], val[p]) : refs' = [refs EXCEPT ![dest[p]] = v]
      BY <1>4 DEF RefFill
    <2>2. v \in {val[p], Junk}
      BY <2>1 DEF Overlaid
    <2>3. dest[p] \in RefFile /\ val[p] \in CommitId \cup Ref
      BY <1>0, <1>4 DEF RefFill, ProcessTypes, HeldClosed
    <2>4. ProcessTypes' /\ OthersSame(p) /\ HeldClosed(p)'
      BY <1>0, <1>4, RefDone DEF RefFill, store, counts, ProcessTypes
    <2>5. v \in CommitId => CommitObject(v) \in objects
      BY <1>0, <1>4, <2>2, NameAssumption DEF RefFill, HeldClosed, WritingObject, Ref
    <2>6. WrittenBeforeReferenced'
      BY <1>0, <1>4, <2>1, <2>3, <2>5, RefChanged DEF RefFill, store
    <2>7. refs' \in [RefFile -> CommitId \cup Ref \cup {Missing, Empty}]
      BY <1>0, <2>1, <2>2, <2>3 DEF DiskTypes, Ref
    <2>8. last' \in [Ref -> CommitId \cup {Missing}]
      BY <1>0, <1>4 DEF RefFill, DiskTypes, ProcessTypes, HeldClosed
    <2>9. DiskTypes' /\ InfoGrows
      BY <1>0, <1>4, <2>7, <2>8 DEF RefFill, store, DiskTypes, InfoGrows
    <2> QED BY <2>4, <2>6, <2>9, <1>4, Assemble DEF RefFill, store
  <1>5. CASE RefFillLost(p)
    <2>1. ProcessTypes' /\ OthersSame(p) /\ HeldClosed(p)'
      BY <1>0, <1>5, RefDone DEF RefFillLost, Fault, store, ProcessTypes
    <2>2. DiskTypes' /\ WrittenBeforeReferenced' /\ InfoGrows
      BY <1>0, <1>5, DiskUnchanged DEF RefFillLost, store, files, DiskTypes, InfoGrows
    <2> QED BY <2>1, <2>2, <1>5, Assemble DEF RefFillLost, store
  <1> QED BY <1>1, <1>2, <1>3, <1>4, <1>5

(***************************************************************************)
(* The steps of GitIndex::save.                                            *)
(***************************************************************************)
LEMMA IndexSteps ==
  ASSUME IInv, NEW p \in Proc,
         IndexOpen(p) \/ IndexOpenFails(p) \/ IndexFill(p) \/ IndexFillLost(p)
  PROVE  IInv'
  <1>0. ProcessTypes /\ DiskTypes /\ WrittenBeforeReferenced /\ HeldClosed(p)
    BY TypesSplit DEF IInv
  <1>1. CASE IndexOpen(p)
    <2>1. ProcessTypes' /\ OthersSame(p) /\ HeldClosed(p)'
      BY <1>0, <1>1 DEF IndexOpen, Go, locals, store, counts, ProcessTypes, Label, OthersSame, Same,
                        HeldClosed, WritingObject
    <2>2. WrittenBeforeReferenced'
      BY <1>0, <1>1, IndexChanged, NameAssumption DEF IndexOpen, store, files
    <2>3. DiskTypes' /\ InfoGrows
      BY <1>0, <1>1 DEF IndexOpen, store, files, DiskTypes, InfoGrows
    <2> QED BY <2>1, <2>2, <2>3, <1>1, Assemble DEF IndexOpen, store
  <1>2. CASE IndexOpenFails(p) \/ IndexFillLost(p)
    <2>1. ProcessTypes' /\ OthersSame(p) /\ HeldClosed(p)'
      BY <1>0, <1>2, IndexDone DEF IndexOpenFails, IndexFillLost, Fault, store, ProcessTypes
    <2>2. DiskTypes' /\ WrittenBeforeReferenced' /\ InfoGrows
      BY <1>0, <1>2, DiskUnchanged DEF IndexOpenFails, IndexFillLost, store, files, DiskTypes, InfoGrows
    <2> QED BY <2>1, <2>2, <1>2, Assemble DEF IndexOpenFails, IndexFillLost, store
  <1>3. CASE IndexFill(p)
    <2>1. ProcessTypes' /\ OthersSame(p) /\ HeldClosed(p)'
      BY <1>0, <1>3, IndexDone DEF IndexFill, store, counts, ProcessTypes
    <2>2. WrittenBeforeReferenced'
      BY <1>0, <1>3, IndexChanged DEF IndexFill, store, files, HeldClosed
    <2>3. DiskTypes' /\ InfoGrows
      BY <1>0, <1>3 DEF IndexFill, store, files, DiskTypes, ProcessTypes, InfoGrows
    <2> QED BY <2>1, <2>2, <2>3, <1>3, Assemble DEF IndexFill, store
  <1> QED BY <1>1, <1>2, <1>3

(***************************************************************************)
(* The steps that only change the process.                                 *)
(***************************************************************************)
LEMMA ProcessStep ==
  ASSUME IInv, NEW p \in Proc, UNCHANGED <<store, files, index>>,
         ProcessTypes', OthersSame(p), HeldClosed(p)'
  PROVE  IInv'
  <1>1. DiskTypes' /\ WrittenBeforeReferenced' /\ InfoGrows
    BY TypesSplit, DiskUnchanged DEF IInv, store, files, DiskTypes, InfoGrows
  <1> QED BY <1>1, Assemble DEF store

LEMMA IndexIsStored ==
  ASSUME IInv, IndexReadable
  PROVE  IndexTree \in Tree /\ BlobObjects(IndexTree) \subseteq objects \cup named
  BY TypesSplit, EmptyTreeType
     DEF IInv, IndexReadable, IndexTree, DiskTypes, WrittenBeforeReferenced, RootFile, PointsAt

LEMMA RefsAreStored ==
  ASSUME WrittenBeforeReferenced
  PROVE  \A r \in RefFile : refs[r] \in CommitId => CommitObject(refs[r]) \in objects
  BY NameAssumption DEF WrittenBeforeReferenced, RootFile, PointsAt

LEMMA StartSteps ==
  ASSUME IInv, NEW p \in Proc, StartAdd(p) \/ StartCommit(p) \/ StartMerge(p)
  PROVE  IInv'
  <1> USE DEF WritingObject, Start, Go, counts
  <1>0. ProcessTypes /\ DiskTypes /\ WrittenBeforeReferenced /\ HeldClosed(p)
    BY TypesSplit DEF IInv
  <1>1. CASE StartAdd(p)
    <2>1. IndexTree \in Tree /\ BlobObjects(IndexTree) \subseteq objects \cup named
      BY <1>1, IndexIsStored DEF StartAdd
    <2>2. ProcessTypes' /\ OthersSame(p)
      BY <1>0, <1>1, <2>1 DEF StartAdd, ProcessTypes, Command, Label, OthersSame, Same
    <2>3. HeldClosed(p)'
      BY <1>0, <1>1, <2>1 DEF StartAdd, store, HeldClosed, ProcessTypes, BlobObjects
    <2> QED BY <1>1, <2>2, <2>3, ProcessStep DEF StartAdd
  <1>3. CASE StartCommit(p)
    <2>1. IndexTree \in Tree /\ BlobObjects(IndexTree) \subseteq objects \cup named
      BY <1>3, IndexIsStored DEF StartCommit
    <2>2. ProcessTypes' /\ OthersSame(p)
      BY <1>0, <1>3, <2>1, Constructors DEF StartCommit, ProcessTypes, Command, Label, OthersSame, Same
    <2>3. /\ mem'[p] = IndexTree /\ obj'[p] = TreeObject(IndexTree)
          /\ obj'[p] \in Object /\ obj'[p][1] = "tree" /\ obj'[p][2] = IndexTree
      BY <1>0, <1>3, <2>1, Constructors DEF StartCommit, ProcessTypes
    <2>4. References(obj[p])' = BlobObjects(IndexTree)
      BY <2>3 DEF References, BlobObjects
    <2>5. BlobObjects(IndexTree) # Unused
      BY <2>1, NameAssumption DEF Links
    <2>6. BlobObjects(mem[p])' = BlobObjects(IndexTree)
      BY <2>3 DEF BlobObjects
    <2>7. HeldClosed(p)'
      BY <1>0, <1>3, <2>1, <2>3, <2>4, <2>5, <2>6 DEF StartCommit, store, HeldClosed, ProcessTypes
    <2> QED BY <1>3, <2>2, <2>7, ProcessStep DEF StartCommit
  <1>4. CASE StartMerge(p)
    <2>1. PICK c \in CommitId : Readable(c) /\ val' = [val EXCEPT ![p] = c]
      BY <1>4 DEF StartMerge, Resolvable
    <2>2. ProcessTypes' /\ OthersSame(p)
      BY <1>0, <1>4, <2>1 DEF StartMerge, ProcessTypes, Command, Label, OthersSame, Same
    <2>3. HeldClosed(p)'
      BY <1>0, <1>4, <2>1 DEF StartMerge, store, HeldClosed, ProcessTypes, Readable, CommitReadable, Intact
    <2> QED BY <1>4, <2>2, <2>3, ProcessStep DEF StartMerge
  <1> QED BY <1>1, <1>3, <1>4

LEMMA StartRefSteps ==
  ASSUME IInv, NEW p \in Proc, StartTag(p) \/ StartBranch(p) \/ StartSwitch(p) \/ StartInit(p)
  PROVE  IInv'
  <1>0. ProcessTypes /\ DiskTypes /\ WrittenBeforeReferenced /\ HeldClosed(p)
    BY TypesSplit DEF IInv
  <1>1. \A c \in Resolvable : c \in CommitId /\ CommitObject(c) \in objects
    BY <1>0, RefsAreStored DEF Resolvable
  <1>2. ASSUME NEW c \in {"tag", "branch", "switch", "init"}, NEW file \in RefFile,
               NEW content \in CommitId \cup Ref, StartRef(p, c, file, content),
               content \in CommitId => CommitObject(content) \in objects,
               file \in Ref => content \in CommitId
        PROVE  IInv'
    <2>1. ProcessTypes' /\ OthersSame(p)
      BY <1>0, <1>2 DEF StartRef, Start, Go, ProcessTypes, Command, Label, OthersSame, Same
    <2>2. HeldClosed(p)'
      BY <1>0, <1>2, NameAssumption
         DEF StartRef, Start, Go, store, HeldClosed, WritingObject, ProcessTypes, RefFile
    <2> QED BY <1>2, <2>1, <2>2, ProcessStep DEF StartRef
  <1>3. CASE StartTag(p)
    BY <1>2, <1>3 DEF StartTag, RefFile, Ref
  <1>4. CASE StartBranch(p)
    BY <1>1, <1>2, <1>4 DEF StartBranch, RefFile, Ref
  <1>5. CASE StartSwitch(p)
    <2>1. PICK target \in Branch \cup Tag \cup Resolvable : StartRef(p, "switch", HEAD, target)
      BY <1>5 DEF StartSwitch
    <2> QED BY <1>1, <1>2, <2>1, NameAssumption DEF RefFile, Ref
  <1>6. CASE StartInit(p)
    BY <1>2, <1>6, NameAssumption DEF StartInit, RefFile, Ref
  <1> QED BY <1>3, <1>4, <1>5, <1>6

(***************************************************************************)
(* hash-object.                                                            *)
(***************************************************************************)

(* A name that is given to content keeps it.                               *)
LEMMA Named ==
  ASSUME DiskTypes, NEW c \in CommitId, NEW data \in CommitData \cup {Malformed}, Names(c, data)
  PROVE  /\ info' \in [CommitId -> CommitData \cup {Unused, Malformed}]
         /\ \A d \in CommitId : info[d] # Unused => info'[d] = info[d]
         /\ References(CommitObject(c))' = CommitLinks(data)
         /\ CommitLinks(data) # Unused
  <1>1. /\ info[c] \in {Unused, data}
        /\ info' = [info EXCEPT ![c] = data]
    BY DEF Names
  <1>2. info'[c] = data /\ data # Unused
    BY <1>1, NameAssumption DEF DiskTypes
  <1>3. References(CommitObject(c))' = CommitLinks(data)
    BY <1>2, Constructors DEF References, CommitLinks
  <1>4. CommitLinks(data) # Unused
    BY NameAssumption DEF Links, CommitLinks
  <1> QED BY <1>1, <1>3, <1>4 DEF DiskTypes

LEMMA WrittenTypes ==
  ASSUME NEW data \in Written
  PROVE  data \in CommitData \cup {Malformed}
  BY DEF Written, CommitData

LEMMA HashSteps ==
  ASSUME IInv, NEW p \in Proc, StartHash(p) \/ HashOnly(p)
  PROVE  IInv'
  <1> USE DEF WritingObject
  <1>0. ProcessTypes /\ DiskTypes /\ WrittenBeforeReferenced /\ HeldClosed(p)
    BY TypesSplit DEF IInv
  <1>1. ASSUME UNCHANGED <<objects, torn, files, index>>, DiskTypes', InfoGrows
        PROVE  WrittenBeforeReferenced'
    BY <1>0, <1>1, InfoExtended DEF files
  <1>2. CASE HashOnly(p)
    <2>1. PICK c \in CommitId, data \in Written : Names(c, data)
      BY <1>2 DEF HashOnly
    <2>2. DiskTypes' /\ InfoGrows
      BY <1>0, <1>2, <2>1, Named, WrittenTypes DEF HashOnly, DiskTypes, InfoGrows, files
    <2>3. ProcessTypes' /\ OthersSame(p) /\ Same(p)
      BY <1>0, <1>2 DEF HashOnly, locals, ProcessTypes, OthersSame, Same
    <2>4. HeldClosed(p)'
      BY <1>0, <1>2, <2>2, <2>3, StayClosed DEF HashOnly
    <2> QED BY <1>1, <1>2, <2>2, <2>3, <2>4, Assemble DEF HashOnly
  <1>3. CASE StartHash(p)
    <2>0. /\ UNCHANGED <<objects, torn, files, index, mem, todo, dest, val>>
          /\ pc' = [pc EXCEPT ![p] = "objCheck"] /\ cmd' = [cmd EXCEPT ![p] = "hash"]
          /\ pc[p] = "idle" /\ started' = started + 1 /\ faults' = faults
      BY <1>3 DEF StartHash, Go, Start
    <2>1. ASSUME NEW o \in Object, obj' = [obj EXCEPT ![p] = o], DiskTypes', InfoGrows,
                 References(o)' # Unused, References(o)' \subseteq objects \cup named'
          PROVE  IInv'
      <3>1. ProcessTypes' /\ OthersSame(p)
        BY <1>0, <2>0, <2>1 DEF ProcessTypes, Command, Label, OthersSame, Same
      <3>2. /\ obj'[p] = o /\ pc'[p] = "objCheck" /\ cmd'[p] = "hash"
            /\ val'[p] = val[p] /\ todo'[p] = {}
        BY <1>0, <2>0, <2>1, NameAssumption DEF ProcessTypes, HeldClosed
      <3>3. HeldClosed(p)'
        BY <1>0, <2>0, <2>1, <3>2 DEF HeldClosed
      <3> QED BY <1>1, <2>0, <2>1, <3>1, <3>3, Assemble
    <2>2. ASSUME NEW b \in Blob, obj' = [obj EXCEPT ![p] = BlobObject(b)], UNCHANGED <<info, named>>
          PROVE  IInv'
      <3>1. BlobObject(b) \in Object /\ References(BlobObject(b))' = {} /\ {} # Unused
        BY Constructors, NameAssumption DEF References, Links
      <3>2. DiskTypes' /\ InfoGrows
        BY <1>0, <2>0, <2>2 DEF DiskTypes, InfoGrows, files
      <3> QED BY <2>1, <2>2, <3>1, <3>2
    <2>3. ASSUME NEW t \in Tree, obj' = [obj EXCEPT ![p] = TreeObject(t)],
                 named' = named \cup BlobObjects(t), UNCHANGED info
          PROVE  IInv'
      <3>1. /\ TreeObject(t) \in Object /\ References(TreeObject(t))' = BlobObjects(t)
            /\ BlobObjects(t) # Unused
        BY Constructors, NameAssumption DEF References, Links, BlobObjects
      <3>2. DiskTypes' /\ InfoGrows
        BY <1>0, <2>0, <2>3, LinksAreObjects DEF DiskTypes, InfoGrows, files
      <3> QED BY <2>1, <2>3, <3>1, <3>2
    <2>4. ASSUME NEW c \in CommitId, NEW data \in Written, obj' = [obj EXCEPT ![p] = CommitObject(c)],
                 Names(c, data), named' = named \cup CommitLinks(data)
          PROVE  IInv'
      <3>1. CommitObject(c) \in Object /\ data \in CommitData \cup {Malformed}
        BY Constructors, WrittenTypes
      <3>2. DiskTypes' /\ InfoGrows
        BY <1>0, <2>0, <2>4, <3>1, Named, LinksAreObjects DEF DiskTypes, InfoGrows, files
      <3>3. References(CommitObject(c))' # Unused /\ References(CommitObject(c))' \subseteq named'
        BY <1>0, <2>4, <3>1, Named
      <3> QED BY <2>1, <2>4, <3>1, <3>2, <3>3
    <2> QED BY <1>3, <2>2, <2>3, <2>4 DEF StartHash
  <1> QED BY <1>2, <1>3

(***************************************************************************)
(* The remaining steps of add, commit and merge, and a crash.              *)
(***************************************************************************)
LEMMA StageStep ==
  ASSUME IInv, NEW p \in Proc, StageFile(p)
  PROVE  IInv'
  <1> USE DEF WritingObject, Go, counts
  <1>0. ProcessTypes /\ DiskTypes /\ WrittenBeforeReferenced /\ HeldClosed(p)
    BY TypesSplit DEF IInv
  <1>1. PICK f \in todo[p], b \in Blob :
          /\ todo' = [todo EXCEPT ![p] = @ \ {f}]
          /\ mem' = [mem EXCEPT ![p] = [@ EXCEPT ![f] = b]]
          /\ obj' = [obj EXCEPT ![p] = BlobObject(b)]
    BY DEF StageFile
  <1>2. f \in Path /\ mem[p] \in Tree /\ cmd[p] # "merge"
    BY <1>0 DEF ProcessTypes, HeldClosed, StageFile
  <1>3. mem'[p] = [mem[p] EXCEPT ![f] = b] /\ mem'[p] \in Tree
    BY <1>0, <1>1, <1>2 DEF ProcessTypes, Tree
  <1>4. ProcessTypes' /\ OthersSame(p)
    BY <1>0, <1>1, <1>3, Constructors DEF StageFile, ProcessTypes, Label, OthersSame, Same
  <1>5. obj'[p] = BlobObject(b) /\ obj'[p] \in Object /\ obj'[p][1] = "blob" /\ References(obj[p])' = {}
    BY <1>0, <1>1, Constructors DEF ProcessTypes, References
  <1>6. BlobObjects(mem[p])' \subseteq BlobObjects(mem[p]) \cup {BlobObject(b)}
    BY <1>2, <1>3 DEF BlobObjects, Tree
  <1>7. {} # Unused
    BY NameAssumption DEF Links
  <1>8. HeldClosed(p)'
    BY <1>0, <1>2, <1>5, <1>6, <1>7 DEF StageFile, store, HeldClosed, ProcessTypes
  <1> QED BY <1>4, <1>8, ProcessStep DEF StageFile

LEMMA CommitSteps ==
  ASSUME IInv, NEW p \in Proc, MakeCommit(p) \/ CommitRefused(p)
  PROVE  IInv'
  <1> USE DEF WritingObject
  <1>0. ProcessTypes /\ DiskTypes /\ WrittenBeforeReferenced /\ HeldClosed(p)
    BY TypesSplit DEF IInv
  <1>1. CASE CommitRefused(p)
    <2>1. ProcessTypes' /\ OthersSame(p) /\ HeldClosed(p)'
      BY <1>0, <1>1, Finished DEF CommitRefused, counts, ProcessTypes
    <2> QED BY <1>1, <2>1, ProcessStep DEF CommitRefused
  <1>2. CASE MakeCommit(p)
    <2> DEFINE data == [tree |-> mem[p], parents |-> Parents]
    <2>1. PICK c \in CommitId :
            /\ Names(c, data)
            /\ obj' = [obj EXCEPT ![p] = CommitObject(c)]
            /\ val' = [val EXCEPT ![p] = c]
      BY <1>2 DEF MakeCommit
    <2>2. data \in CommitData
      BY <1>0, <1>2 DEF MakeCommit, CommitData, ProcessTypes
    <2>3. \A d \in Parents : CommitObject(d) \in objects
      BY <1>0, <1>2, RefsAreStored DEF MakeCommit, Parents, HeadId, RefFile
    <2> HIDE DEF data
    <2>4. DiskTypes' /\ InfoGrows
      BY <1>0, <1>2, <2>1, <2>2, Named DEF MakeCommit, files, DiskTypes, InfoGrows
    <2>5. WrittenBeforeReferenced'
      BY <1>0, <1>2, <2>4, InfoExtended DEF MakeCommit, files
    <2>6. ProcessTypes' /\ OthersSame(p)
      BY <1>0, <1>2, <2>1, Constructors
         DEF MakeCommit, Go, counts, ProcessTypes, Label, OthersSame, Same
    <2>7. /\ obj'[p] = CommitObject(c) /\ obj'[p] \in Object
          /\ obj'[p][1] = "commit" /\ obj'[p][2] = c /\ val'[p] = c
      BY <1>0, <2>1, Constructors DEF ProcessTypes
    <2>8. References(obj[p])' = References(CommitObject(c))'
      BY <2>7, Constructors DEF References
    <2>9. References(obj[p])' = CommitLinks(data) /\ CommitLinks(data) # Unused
      BY <1>0, <2>1, <2>2, <2>8, Named
    <2>10. /\ TreeObject(mem[p]) \in objects /\ mem[p] \in Tree /\ mem'[p] = mem[p]
           /\ pc'[p] = "objCheck" /\ cmd'[p] = cmd[p] /\ cmd[p] \notin {"hash", "merge"}
           /\ todo'[p] = todo[p]
      BY <1>0, <1>2 DEF MakeCommit, Go, HeldClosed, ProcessTypes
    <2>11. CommitLinks(data) \subseteq objects
      BY <2>2, <2>3, <2>10, NameAssumption DEF CommitLinks, data
    <2>12. BlobObjects(mem[p])' \subseteq objects \cup named
      <3>1. References(TreeObject(mem[p])) = BlobObjects(mem[p])
        BY <2>10, Constructors DEF References
      <3>2. BlobObjects(mem[p])' = BlobObjects(mem[p])
        BY <2>10 DEF BlobObjects
      <3> QED BY <1>0, <2>10, <3>1, <3>2 DEF WrittenBeforeReferenced
    <2>13. HeldClosed(p)'
      BY <1>0, <1>2, <2>7, <2>9, <2>10, <2>11, <2>12 DEF MakeCommit, HeldClosed
    <2> QED BY <1>2, <2>4, <2>5, <2>6, <2>13, Assemble DEF MakeCommit
  <1> QED BY <1>1, <1>2

LEMMA MergeSteps ==
  ASSUME IInv, NEW p \in Proc, FastForward(p) \/ MergeRefused(p) \/ Crash(p)
  PROVE  IInv'
  <1> USE DEF WritingObject
  <1>0. ProcessTypes /\ DiskTypes /\ WrittenBeforeReferenced /\ HeldClosed(p)
    BY TypesSplit DEF IInv
  <1>1. CASE MergeRefused(p) \/ Crash(p)
    <2>1. ProcessTypes' /\ OthersSame(p) /\ HeldClosed(p)'
      BY <1>0, <1>1, Finished DEF MergeRefused, Crash, Fault, counts, ProcessTypes
    <2> QED BY <1>1, <2>1, ProcessStep DEF MergeRefused, Crash
  <1>2. CASE FastForward(p)
    <2> DEFINE c == val[p]
    <2>1. /\ c \in CommitId /\ info[c] \in CommitData /\ cmd[p] = "merge"
          /\ CommitObject(c) \in objects /\ TreeObject(info[c].tree) \in objects
      BY <1>0, <1>2 DEF FastForward, Go, HeldClosed
    <2>2. info[c].tree \in Tree
      BY <2>1 DEF CommitData
    <2>4. BlobObjects(info[c].tree) \subseteq objects \cup named
      <3>1. References(TreeObject(info[c].tree)) = BlobObjects(info[c].tree)
        BY <2>2, Constructors DEF References
      <3> QED BY <1>0, <2>1, <3>1 DEF WrittenBeforeReferenced
    <2>5. mem'[p] = info[c].tree /\ BlobObjects(mem[p])' = BlobObjects(info[c].tree)
      BY <1>0, <1>2 DEF FastForward, ProcessTypes, BlobObjects
    <2>6. ProcessTypes' /\ OthersSame(p)
      BY <1>0, <1>2, <2>2 DEF FastForward, Go, counts, ProcessTypes, Label, OthersSame, Same
    <2>7. HeldClosed(p)'
      BY <1>0, <1>2, <2>1, <2>4, <2>5 DEF FastForward, Go, store, HeldClosed, ProcessTypes
    <2> QED BY <1>2, <2>6, <2>7, ProcessStep DEF FastForward
  <1> QED BY <1>1, <1>2

LEMMA Initially == Init => IInv
  <1> SUFFICES ASSUME Init PROVE IInv
    OBVIOUS
  <1>1. TypeOK
    BY EmptyTreeType, NameAssumption
       DEF Init, TypeOK, RefFile, Ref, Command, Label, NoObject
  <1>2. WrittenBeforeReferenced
    BY NameAssumption DEF Init, WrittenBeforeReferenced, PointsAt, RootFile, RefFile, Ref
  <1>3. \A p \in Proc : HeldClosed(p)
    BY NameAssumption DEF Init, HeldClosed, WritingObject
  <1> QED BY <1>1, <1>2, <1>3 DEF IInv

LEMMA Inductive == IInv /\ [Next]_vars => IInv'
  <1> SUFFICES ASSUME IInv, [Next]_vars PROVE IInv'
    OBVIOUS
  <1>1. CASE UNCHANGED vars
    <2>1. UNCHANGED <<store, files, index>> /\ UNCHANGED <<locals, pc, counts>>
      BY <1>1 DEF vars
    <2>2. TypeOK'
      BY <2>1 DEF IInv, TypeOK, store, files, locals, counts
    <2>3. WrittenBeforeReferenced'
      BY <2>1, TypesSplit, DiskUnchanged DEF IInv, store, files
    <2>4. \A q \in Proc : HeldClosed(q)'
      BY <2>1, TypesSplit, StayClosed DEF IInv, store, locals, Same, InfoGrows
    <2> QED BY <2>2, <2>3, <2>4 DEF IInv
  <1>2. ASSUME NEW p \in Proc, Begin(p) PROVE IInv'
    BY <1>2, StartSteps, StartRefSteps, HashSteps DEF Begin
  <1>3. ASSUME NEW p \in Proc, Step(p) PROVE IInv'
    BY <1>3, StageStep, ObjectSteps, IndexSteps, CommitSteps, MergeSteps, RefSteps DEF Step
  <1>4. ASSUME NEW p \in Proc, Fail(p) PROVE IInv'
    BY <1>4, ObjectSteps, IndexSteps, RefSteps, MergeSteps DEF Fail
  <1> QED BY <1>1, <1>2, <1>3, <1>4 DEF Next

(* Every reachable state is well typed.                                    *)
THEOREM TypeCorrect == Spec => []TypeOK
  <1>1. IInv => TypeOK
    BY DEF IInv
  <1> QED BY <1>1, Initially, Inductive, PTL DEF Spec

(* HEAD and the refs hold only ids of stored commits, and whatever else is *)
(* referred to and not stored, users named in trees and commits of their   *)
(* own, for any number of gyt processes in any interleaving and any number *)
(* of crashes and failed writes.                                           *)
THEOREM ReferencesAreWritten == Spec => []WrittenBeforeReferenced
  <1>1. IInv => WrittenBeforeReferenced
    BY DEF IInv
  <1> QED BY <1>1, Initially, Inductive, PTL DEF Spec

(***************************************************************************)
(* The refinement of ObjectGraph: the state functions that stand for its   *)
(* variables, and how each kind of change on the disk moves them.          *)
(***************************************************************************)
RefersTo == [o \in Object |-> References(o)]
Roots == [r \in RootFile |-> PointsAt(r)]

LEMMA LinkTypes ==
  ASSUME DiskTypes
  PROVE  /\ \A o \in Object : References(o) \in Links \cup {Unused}
         /\ \A r \in RootFile : PointsAt(r) \in Links
  <1>1. \A o \in Object : References(o) \in Links \cup {Unused}
    <2> SUFFICES ASSUME NEW o \in Object PROVE References(o) \in Links \cup {Unused}
      OBVIOUS
    <2>1. CASE o[1] = "blob"
      BY <2>1 DEF References, Links
    <2>2. CASE o[1] = "tree"
      BY <2>2, Kinds DEF References, Links
    <2>3. CASE o[1] = "commit"
      <3>1. o[2] \in CommitId /\ info[o[2]] \in CommitData \cup {Unused, Malformed}
        BY <2>3, Kinds DEF DiskTypes
      <3>2. \A d \in CommitData \cup {Malformed} : CommitLinks(d) \in Links
        BY DEF CommitLinks, Links
      <3> QED BY <2>3, <3>1, <3>2 DEF References
    <2> QED BY <2>1, <2>2, <2>3, Kinds
  <1>2. \A r \in RootFile : PointsAt(r) \in Links
    BY DEF PointsAt, Links
  <1> QED BY <1>1, <1>2

LEMMA GraphUnchanged ==
  ASSUME UNCHANGED <<objects, info, named, refs, index>>
  PROVE  UNCHANGED <<objects, named, RefersTo, Roots>>
  <1>1. \A o : References(o)' = References(o)
    BY DEF References
  <1>2. \A r : PointsAt(r)' = PointsAt(r)
    BY DEF PointsAt
  <1> QED BY <1>1, <1>2 DEF RefersTo, Roots

LEMMA GraphPut ==
  ASSUME UNCHANGED <<info, named, refs, index>>, NEW o \in Object,
         References(o) # Unused, References(o) \subseteq objects \cup named,
         objects' = objects \cup {o}
  PROVE  Graph!Put(o)
  <1>1. RefersTo' = RefersTo
    BY DEF RefersTo, References
  <1>2. Roots' = Roots
    BY DEF Roots, PointsAt
  <1> QED BY <1>1, <1>2 DEF Graph!Put, RefersTo, Roots

LEMMA GraphPoint ==
  ASSUME WrittenBeforeReferenced', UNCHANGED <<objects, info, named>>, NEW r \in RootFile,
         \A x \in RootFile \ {r} : PointsAt(x)' = PointsAt(x)
  PROVE  Graph!Next
  <1> DEFINE S == PointsAt(r)'
  <1>1. S \in Links /\ S \subseteq objects \cup (IF r \in {"index"} THEN named ELSE {})
    <2>1. S \in Links
      BY DEF PointsAt, Links
    <2> QED BY <2>1 DEF WrittenBeforeReferenced, RootFile
  <1>2. RefersTo' = RefersTo
    BY DEF RefersTo, References
  <1>3. Roots' = [Roots EXCEPT ![r] = S]
    BY DEF Roots
  <1>4. Graph!Point(r, S)
    BY <1>1, <1>2, <1>3 DEF Graph!Point, RefersTo, Roots
  <1> QED BY <1>1, <1>4 DEF Graph!Next

(* An id that is found is a name that is bound.                            *)
LEMMA GraphBind ==
  ASSUME DiskTypes, UNCHANGED <<objects, refs, index>>, NEW c \in CommitId,
         NEW data \in CommitData \cup {Malformed}, Names(c, data)
  PROVE  Graph!Bind(CommitObject(c), CommitLinks(data)) /\ CommitLinks(data) \in Links
  <1> DEFINE n == CommitObject(c)
  <1>1. Roots' = Roots
    BY DEF Roots, PointsAt
  <1>2. n \in Object /\ n[1] = "commit" /\ n[2] = c /\ CommitLinks(data) \in Links
    BY Constructors DEF Links, CommitLinks
  <1>3. References(n) \in {Unused, CommitLinks(data)}
    BY <1>2 DEF Names, References
  <1>4. References(n)' = CommitLinks(data)
    BY Named
  <1>5. \A o \in Object : o # n => References(o)' = References(o)
    BY Kinds DEF References, DiskTypes, Names
  <1>6. RefersTo' = [RefersTo EXCEPT ![n] = CommitLinks(data)]
    BY <1>2, <1>4, <1>5 DEF RefersTo
  <1> QED BY <1>1, <1>2, <1>3, <1>6 DEF Graph!Bind, RefersTo, Roots

(* What a user stores is named before it is written; a blob's or a tree's  *)
(* name stands for its content anyway.                                     *)
LEMMA GraphHash ==
  ASSUME DiskTypes, NEW p \in Proc, StartHash(p) \/ HashOnly(p)
  PROVE  Graph!Next \/ UNCHANGED <<objects, named, RefersTo, Roots>>
  <1>1. CASE HashOnly(p)
    <2>1. PICK c \in CommitId, data \in Written : Names(c, data)
      BY <1>1 DEF HashOnly
    <2>2. Graph!Bind(CommitObject(c), CommitLinks(data)) /\ CommitLinks(data) \in Links
      BY <1>1, <2>1, GraphBind, WrittenTypes DEF HashOnly, files
    <2>3. Graph!Name(CommitObject(c), CommitLinks(data))
      BY <1>1, <2>2 DEF HashOnly, Graph!Name
    <2> QED BY <2>2, <2>3, Constructors DEF Graph!Next
  <1>2. CASE StartHash(p)
    <2>0. UNCHANGED <<objects, refs, index>>
      BY <1>2 DEF StartHash, files
    <2>1. CASE UNCHANGED <<info, named>>
      BY <2>0, <2>1, GraphUnchanged
    <2>2. ASSUME NEW t \in Tree, named' = named \cup BlobObjects(t), UNCHANGED info
          PROVE  Graph!Next
      <3> DEFINE n == TreeObject(t)
      <3>1. n \in Object /\ References(n) = BlobObjects(t) /\ BlobObjects(t) \in Links
        BY Constructors DEF References, Links
      <3>2. RefersTo' = RefersTo /\ Roots' = Roots
        BY <2>0, <2>2 DEF RefersTo, Roots, References, PointsAt
      <3>3. Graph!Bind(n, BlobObjects(t))
        BY <2>0, <3>1, <3>2 DEF Graph!Bind, RefersTo, Roots
      <3>4. Graph!Write(n, BlobObjects(t))
        BY <2>2, <3>3 DEF Graph!Write
      <3> QED BY <3>1, <3>4 DEF Graph!Next
    <2>3. ASSUME NEW c \in CommitId, NEW data \in Written, Names(c, data),
                 named' = named \cup CommitLinks(data)
          PROVE  Graph!Next
      <3>1. Graph!Bind(CommitObject(c), CommitLinks(data)) /\ CommitLinks(data) \in Links
        BY <2>0, <2>3, GraphBind, WrittenTypes
      <3>2. Graph!Write(CommitObject(c), CommitLinks(data))
        BY <2>3, <3>1 DEF Graph!Write
      <3> QED BY <3>1, <3>2, Constructors DEF Graph!Next
    <2> QED BY <1>2, <2>1, <2>2, <2>3 DEF StartHash
  <1> QED BY <1>1, <1>2

LEMMA GraphStep ==
  ASSUME IInv, IInv', [Next]_vars
  PROVE  Graph!Next \/ UNCHANGED <<objects, named, RefersTo, Roots>>
  <1>0. DiskTypes /\ ProcessTypes /\ WrittenBeforeReferenced /\ WrittenBeforeReferenced'
    BY TypesSplit DEF IInv
  <1>1. CASE UNCHANGED <<objects, info, named, refs, index>>
    BY <1>1, GraphUnchanged
  <1>2. ASSUME NEW p \in Proc, ObjectOpen(p)
        PROVE  Graph!Next
    <2>1. /\ obj[p] \in Object /\ References(obj[p]) # Unused
          /\ References(obj[p]) \subseteq objects \cup named
      BY <1>2 DEF IInv, HeldClosed, WritingObject, ObjectOpen, Go
    <2>2. Graph!Put(obj[p])
      BY <1>2, <2>1, GraphPut DEF ObjectOpen, files
    <2> QED BY <2>1, <2>2 DEF Graph!Next
  <1>3. ASSUME NEW p \in Proc, RefOpen(p) \/ RefFill(p)
        PROVE  Graph!Next
    <2>1. dest[p] \in RefFile /\ dest[p] \in RootFile
      BY <1>0 DEF ProcessTypes, RootFile
    <2>2. PICK v : refs' = [refs EXCEPT ![dest[p]] = v]
      BY <1>3 DEF RefOpen, RefFill
    <2>3. UNCHANGED <<objects, info, named, index>>
      BY <1>3 DEF RefOpen, RefFill, store
    <2>4. \A x \in RootFile \ {dest[p]} : PointsAt(x)' = PointsAt(x)
      BY <1>0, <2>1, <2>2, <2>3 DEF PointsAt, RootFile, DiskTypes
    <2> QED BY <1>0, <2>1, <2>3, <2>4, GraphPoint
  <1>4. ASSUME NEW p \in Proc, IndexOpen(p) \/ IndexFill(p)
        PROVE  Graph!Next
    <2>1. UNCHANGED <<objects, info, named, refs>>
      BY <1>4 DEF IndexOpen, IndexFill, store, files
    <2>2. \A x \in RootFile \ {"index"} : PointsAt(x)' = PointsAt(x)
      BY <2>1 DEF PointsAt
    <2> QED BY <1>0, <2>1, <2>2, GraphPoint DEF RootFile
  <1>5. ASSUME NEW p \in Proc, MakeCommit(p)
        PROVE  Graph!Next
    <2> DEFINE data == [tree |-> mem[p], parents |-> Parents]
    <2>1. PICK c \in CommitId : Names(c, data)
      BY <1>5 DEF MakeCommit
    <2>2. data \in CommitData
      BY <1>0, <1>5 DEF MakeCommit, CommitData, ProcessTypes
    <2>3. UNCHANGED <<objects, named, refs, index>>
      BY <1>5 DEF MakeCommit, files
    <2> HIDE DEF data
    <2>4. Graph!Bind(CommitObject(c), CommitLinks(data)) /\ CommitLinks(data) \in Links
      BY <1>0, <2>1, <2>2, <2>3, GraphBind
    <2>5. Graph!Name(CommitObject(c), CommitLinks(data))
      BY <2>3, <2>4 DEF Graph!Name
    <2> QED BY <2>4, <2>5, Constructors DEF Graph!Next
  <1>6. ASSUME NEW p \in Proc, Begin(p) \/ Fail(p), ~ StartHash(p), ~ HashOnly(p)
        PROVE  UNCHANGED <<objects, info, named, refs, index>>
    BY <1>6 DEF Begin, Fail, StartAdd, StartCommit, StartMerge, StartTag, StartBranch,
                StartSwitch, StartInit, StartRef, ObjectOpenFails, ObjectFillLost, IndexOpenFails,
                IndexFillLost, RefOpenFails, RefFillLost, Crash, store, files
  <1>7. ASSUME NEW p \in Proc, Step(p)
        PROVE  \/ UNCHANGED <<objects, info, named, refs, index>>
               \/ ObjectOpen(p) \/ RefOpen(p) \/ RefFill(p) \/ IndexOpen(p) \/ IndexFill(p)
               \/ MakeCommit(p)
    BY <1>7 DEF Step, StageFile, ObjectExists, ObjectAbsent, ObjectFill, CommitRefused, FastForward,
                MergeRefused, CurrentRef, store, files
  <1> QED BY <1>0, <1>1, <1>2, <1>3, <1>4, <1>5, <1>6, <1>7, GraphHash DEF Next, vars, store, files

(* Each file operation of gyt is a step of the abstract object graph or    *)
(* invisible in it: object files appear after what they refer to, unless a *)
(* user wrote the reference, and HEAD and the refs only move to what is    *)
(* there.                                                                  *)
THEOREM Refinement == Spec => ImplementsObjectGraph
  <1>1. Init => Graph!Init
    <2> SUFFICES ASSUME Init PROVE Graph!Init
      OBVIOUS
    <2>1. DiskTypes
      BY Initially, TypesSplit DEF IInv
    <2>2. \A r \in RootFile : PointsAt(r) = {}
      BY NameAssumption DEF Init, PointsAt, RootFile, RefFile, Ref
    <2> QED BY <2>1, <2>2, LinkTypes DEF Init, Graph!Init
  <1>2. IInv /\ IInv' /\ [Next]_vars => [Graph!Next]_(Graph!vars)
    BY GraphStep DEF Graph!vars, RefersTo, Roots
  <1> QED BY <1>1, <1>2, Initially, Inductive, PTL DEF Spec, ImplementsObjectGraph, Graph!Spec

(***************************************************************************)
(* What the object graph promises, for any behaviour of its steps: a name  *)
(* that is bound keeps what it refers to, and what is stored or taken on   *)
(* trust stays so: nothing that was closed is opened again.                *)
(***************************************************************************)
Backing(r) == objects \cup (IF r \in {"index"} THEN named ELSE {})

GraphInv ==
  /\ objects \subseteq Object
  /\ RefersTo \in [Object -> Links \cup {Unused}]
  /\ Roots \in [RootFile -> Links]
  /\ \A n \in objects : RefersTo[n] # Unused /\ RefersTo[n] \subseteq objects \cup named
  /\ \A r \in RootFile : Roots[r] \subseteq Backing(r)

LEMMA LinksAreNames ==
  ASSUME Graph!WellFormedLinks
  PROVE  Links \subseteq SUBSET Object /\ {} \in Links /\ Unused \notin Links
  BY DEF Graph!WellFormedLinks

LEMMA StepKeepsGraphInv ==
  ASSUME Graph!WellFormedLinks, GraphInv, [Graph!Next]_(Graph!vars)
  PROVE  GraphInv'
  <1> USE LinksAreNames DEF GraphInv, Backing
  <1>1. CASE UNCHANGED <<objects, named, RefersTo, Roots>>
    BY <1>1
  <1>2. ASSUME NEW n \in Object, Graph!Put(n) PROVE GraphInv'
    <2>1. /\ RefersTo[n] # Unused /\ RefersTo[n] \subseteq objects \cup named
          /\ objects' = objects \cup {n} /\ UNCHANGED <<named, RefersTo, Roots>>
      BY <1>2 DEF Graph!Put, RefersTo, Roots
    <2> QED BY <2>1
  <1>3. ASSUME NEW r \in RootFile, NEW S \in Links, Graph!Point(r, S) PROVE GraphInv'
    <2>1. /\ S \subseteq Backing(r) /\ Roots' = [Roots EXCEPT ![r] = S]
          /\ UNCHANGED <<objects, named, RefersTo>>
      BY <1>3 DEF Graph!Point, RefersTo, Roots
    <2> QED BY <2>1
  <1>4. ASSUME NEW n \in Object, NEW S \in Links, Graph!Name(n, S) \/ Graph!Write(n, S)
        PROVE  GraphInv'
    <2>1. /\ RefersTo[n] \in {Unused, S} /\ RefersTo' = [RefersTo EXCEPT ![n] = S]
          /\ UNCHANGED <<objects, Roots>> /\ named \subseteq named'
      BY <1>4 DEF Graph!Name, Graph!Write, Graph!Bind, RefersTo, Roots
    <2>2. \A m \in objects : RefersTo'[m] = RefersTo[m]
      BY <2>1
    <2> QED BY <2>1, <2>2
  <1>5. /\ Graph!vars = <<objects, named, RefersTo, Roots>>
        /\ Graph!vars' = <<objects, named, RefersTo, Roots>>'
    BY DEF Graph!vars, RefersTo, Roots
  <1> QED BY <1>1, <1>2, <1>3, <1>4, <1>5 DEF Graph!Next

(* In any behaviour of the object graph, no stored object and no draft     *)
(* refers to a name that is neither stored nor taken on trust, and no      *)
(* other root to one that is not stored.                                   *)
THEOREM GraphSafe == Graph!WellFormedLinks /\ Graph!Spec => []Graph!NothingDangles
  <1>1. Graph!WellFormedLinks /\ Graph!Init => GraphInv
    BY LinksAreNames DEF Graph!Init, GraphInv, Backing, RefersTo, Roots
  <1>2. Graph!WellFormedLinks /\ GraphInv /\ [Graph!Next]_(Graph!vars) => GraphInv'
    BY StepKeepsGraphInv
  <1>3. GraphInv => Graph!NothingDangles
    BY DEF GraphInv, Backing, Graph!NothingDangles, RefersTo, Roots
  <1>4. Graph!WellFormedLinks => []Graph!WellFormedLinks
    <2>1. Graph!WellFormedLinks => Graph!WellFormedLinks'
      BY DEF Graph!WellFormedLinks
    <2> QED BY <2>1, PTL
  <1> QED BY <1>1, <1>2, <1>3, <1>4, PTL DEF Graph!Spec

(* So nothing dangles in a repository but what its users left dangling, by *)
(* way of the object graph alone.                                          *)
THEOREM NothingEverDangles == Spec => []Graph!NothingDangles
  <1>1. Graph!WellFormedLinks
    <2>1. \A c \in CommitId : {CommitObject(c)} \subseteq Object
      BY DEF CommitObject, Object
    <2>2. Links \subseteq SUBSET Object /\ {} \in Links
      BY <2>1, LinksAreObjects DEF Links
    <2> QED BY <2>2, NameAssumption DEF Graph!WellFormedLinks
  <1> QED BY <1>1, GraphSafe, Refinement, PTL DEF ImplementsObjectGraph

(***************************************************************************)
(* Without faults, a file is empty only while its writer is at work.       *)
(***************************************************************************)
LEMMA OneProcessMoves ==
  ASSUME IInv, NEW p \in Proc, Begin(p) \/ Step(p)
  PROVE  OthersSame(p) /\ faults' = faults
  <1> USE DEF ProcessTypes, OthersSame, Same, Go, Start, Finish, locals, counts
  <1>0. ProcessTypes
    BY TypesSplit DEF IInv
  <1>1. CASE Begin(p)
    <2>1. CASE StartAdd(p) \/ StartHash(p) \/ StartCommit(p) \/ StartMerge(p)
      BY <1>0, <2>1 DEF StartAdd, StartHash, StartCommit, StartMerge
    <2>2. CASE StartTag(p) \/ StartBranch(p) \/ StartSwitch(p) \/ StartInit(p)
      BY <1>0, <2>2 DEF StartTag, StartBranch, StartSwitch, StartInit, StartRef
    <2>3. CASE HashOnly(p)
      BY <1>0, <2>3 DEF HashOnly
    <2> QED BY <1>1, <2>1, <2>2, <2>3 DEF Begin
  <1>2. CASE Step(p)
    <2>1. CASE StageFile(p) \/ MakeCommit(p) \/ CommitRefused(p)
      BY <1>0, <2>1 DEF StageFile, MakeCommit, CommitRefused
    <2>2. CASE ObjectExists(p) \/ ObjectAbsent(p) \/ ObjectOpen(p) \/ ObjectFill(p)
      <3>1. CASE ObjectExists(p) \/ ObjectFill(p)
        <4>1. AfterObject(p) /\ faults' = faults
          BY <3>1 DEF ObjectExists, ObjectFill
        <4>2. Finish(p) \/ \E next : Go(p, pc[p], next) /\ UNCHANGED locals
          BY <3>1, <4>1, Kinds DEF AfterObject, IInv, HeldClosed, WritingObject, ObjectExists, ObjectFill
        <4> QED BY <1>0, <4>1, <4>2
      <3>2. CASE ObjectAbsent(p) \/ ObjectOpen(p)
        BY <1>0, <3>2 DEF ObjectAbsent, ObjectOpen
      <3> QED BY <2>2, <3>1, <3>2
    <2>3. CASE IndexOpen(p) \/ IndexFill(p)
      BY <1>0, <2>3 DEF IndexOpen, IndexFill, AfterIndex
    <2>4. CASE FastForward(p) \/ MergeRefused(p)
      BY <1>0, <2>4 DEF FastForward, MergeRefused
    <2>5. CASE CurrentRef(p) \/ RefOpen(p) \/ RefFill(p)
      BY <1>0, <2>5 DEF CurrentRef, RefOpen, RefFill, AfterRef
    <2> QED BY <1>2, <2>1, <2>2, <2>3, <2>4, <2>5 DEF Step
  <1> QED BY <1>1, <1>2

LEMMA WindowStep ==
  ASSUME IInv, EmptyOnlyWhileWriting, NEW p \in Proc, Begin(p) \/ Step(p), faults = 0
  PROVE  EmptyOnlyWhileWriting'
  <1>0. /\ ProcessTypes /\ DiskTypes /\ HeldClosed(p)
        /\ \A q \in Proc \ {p} : pc'[q] = pc[q] /\ obj'[q] = obj[q] /\ dest'[q] = dest[q]
    BY TypesSplit, OneProcessMoves DEF IInv, OthersSame, Same
  <1>1. CASE /\ UNCHANGED <<torn, refs, index>>
             /\ pc[p] \notin {"objFill", "refFill", "indexFill"}
    BY <1>0, <1>1 DEF EmptyOnlyWhileWriting
  <1>2. CASE ObjectOpen(p)
    BY <1>0, <1>2 DEF EmptyOnlyWhileWriting, ObjectOpen, Go, locals, files, ProcessTypes
  <1>3. CASE ObjectFill(p)
    BY <1>0, <1>3 DEF EmptyOnlyWhileWriting, ObjectFill, files
  <1>4. CASE RefOpen(p)
    BY <1>0, <1>4 DEF EmptyOnlyWhileWriting, RefOpen, Go, locals, store, ProcessTypes, DiskTypes
  <1>5. CASE RefFill(p)
    <2>1. PICK v \in {val[p], Junk} : refs' = [refs EXCEPT ![dest[p]] = v]
      BY <1>5 DEF RefFill, Overlaid
    <2>2. v # Empty
      BY <1>0, <2>1, NameAssumption, <1>5 DEF ProcessTypes, HeldClosed, RefFill, RefFile, Ref
    <2>3. \A r \in RefFile : refs'[r] = Empty => refs[r] = Empty /\ dest[p] # r
      BY <1>0, <2>1, <2>2 DEF DiskTypes, ProcessTypes
    <2> QED BY <1>0, <1>5, <2>3 DEF EmptyOnlyWhileWriting, RefFill, store
  <1>6. CASE IndexOpen(p)
    BY <1>0, <1>6 DEF EmptyOnlyWhileWriting, IndexOpen, Go, locals, store, files, ProcessTypes
  <1>7. CASE IndexFill(p)
    <2>1. index' # Empty
      BY <1>0, <1>7, NameAssumption DEF IndexFill, ProcessTypes
    <2> QED BY <1>0, <1>7, <2>1 DEF EmptyOnlyWhileWriting, IndexFill, store, files
  <1>8. CASE Begin(p)
    BY <1>1, <1>8 DEF Begin, StartAdd, StartHash, HashOnly, StartCommit, StartMerge, StartTag,
                      StartBranch, StartSwitch, StartInit, StartRef, Go, store, files
  <1>9. CASE Step(p)
    BY <1>1, <1>2, <1>3, <1>4, <1>5, <1>6, <1>7, <1>9
       DEF Step, StageFile, ObjectExists, ObjectAbsent, MakeCommit, CommitRefused, FastForward,
           MergeRefused, CurrentRef, Go, store, files
  <1> QED BY <1>8, <1>9

(* As long as no process dies and no write fails, an empty file belongs to *)
(* a process that is about to fill it.                                     *)
THEOREM EmptyFilesAreBeingWritten == Spec => []EmptyOnlyWhileWriting
  <1>1. Init => EmptyOnlyWhileWriting
    BY NameAssumption DEF Init, EmptyOnlyWhileWriting, RefFile, Ref
  <1>2. IInv /\ EmptyOnlyWhileWriting /\ [Next]_vars => EmptyOnlyWhileWriting'
    <2> SUFFICES ASSUME IInv, EmptyOnlyWhileWriting, [Next]_vars, faults' = 0
                 PROVE  EmptyOnlyWhileWriting'
      BY DEF EmptyOnlyWhileWriting
    <2>0. faults \in Nat
      BY TypesSplit DEF IInv, ProcessTypes
    <2>1. CASE UNCHANGED vars
      BY <2>1 DEF vars, store, files, locals, counts, EmptyOnlyWhileWriting
    <2>2. ASSUME NEW p \in Proc, Begin(p) \/ Step(p) PROVE EmptyOnlyWhileWriting'
      <3>1. faults = 0
        BY <2>2, OneProcessMoves
      <3> QED BY <2>2, <3>1, WindowStep
    <2>3. ASSUME NEW p \in Proc, Fail(p) PROVE FALSE
      <3>1. faults' = faults + 1
        BY <2>3 DEF Fail, ObjectOpenFails, ObjectFillLost, IndexOpenFails, IndexFillLost,
                    RefOpenFails, RefFillLost, Crash, Fault
      <3> QED BY <2>0, <3>1
    <2> QED BY <2>1, <2>2, <2>3 DEF Next
  <1> QED BY <1>1, <1>2, Initially, Inductive, PTL DEF Spec
-----------------------------------------------------------------------------
(***************************************************************************)
(* One user, one command at a time.  Commands still crash and writes still *)
(* fail, anywhere and any number of times, and what they leave behind is   *)
(* what the next command finds.  But nothing moves between two steps of a  *)
(* command, so what it has read stays true until it writes: AloneInv says  *)
(* what that is, step by step.                                             *)
(***************************************************************************)

(* One process: the next command is run by it too, after this one.         *)
Alone == \E p \in Proc : Proc = {p}

(* A ref file holds what was last written to it, or a fault emptied it.    *)
FilesFollowHistory ==
  /\ refs[HEAD] # Junk
  /\ \A r \in Ref : refs[r] \in {last[r], Empty}

(* The command is on its way from reading HEAD to moving the branch.       *)
Advancing(p) ==
  \/ pc[p] = "advance"
  \/ pc[p] \in WritingObject /\ cmd[p] # "hash" /\ obj[p][1] = "commit"
  \/ pc[p] \in {"stage", "indexFill"} /\ cmd[p] = "merge"

Descends(b, c) == last[b] # Missing => last[b] \in Ancestors(c)

AloneHolds(p) ==
  /\ pc[p] = "objOpen" => obj[p] \notin objects
  /\ pc[p] = "refFill" => refs[dest[p]] = Empty
  /\ val[p] # Junk /\ dest[p] # Junk
  /\ cmd[p] = "merge" /\ pc[p] \in {"stage", "indexFill"} => mem[p] = info[val[p]].tree
  /\ Advancing(p) /\ refs[HEAD] \in Branch => Descends(refs[HEAD], val[p])
  /\ pc[p] \in {"refOpen", "refFill"} /\ dest[p] \in Branch => Descends(dest[p], val[p])

AloneInv ==
  /\ IInv
  /\ FilesFollowHistory
  /\ IndexFollowsFastForward
  /\ \A p \in Proc : AloneHolds(p)

-----------------------------------------------------------------------------
(***************************************************************************)
(* Lemmas.                                                                 *)
(***************************************************************************)

(* What a step with process p in it can rely on.                           *)
LEMMA Given ==
  ASSUME AloneInv, NEW p \in Proc
  PROVE  /\ ProcessTypes /\ DiskTypes /\ HeldClosed(p) /\ AloneHolds(p)
         /\ FilesFollowHistory /\ IndexFollowsFastForward
  BY TypesSplit DEF AloneInv, IInv

LEMMA DistinctNames ==
  /\ Junk # Missing /\ Junk # HEAD /\ HEAD \notin Branch /\ Missing # Empty
  /\ Junk \notin Branch \cup Tag \cup CommitId
  /\ Empty \notin CommitId /\ Missing \notin CommitId
  /\ Empty # Junk
  BY NameAssumption DEF Ref, RefFile

LEMMA AncestorsStay ==
  ASSUME UNCHANGED info
  PROVE  \A c : Ancestors(c)' = Ancestors(c)
  BY DEF Ancestors, ClosedUnderParents

(* A parent is an ancestor.                                                *)
LEMMA ParentIsAncestor ==
  ASSUME NEW c \in CommitId, info[c] \in CommitData, NEW d \in info[c].parents, d \in CommitId
  PROVE  d \in Ancestors(c)
  BY DEF Ancestors, ClosedUnderParents

(* All that has_ancestor looks at are ancestors.                           *)
LEMMA LooksAtAncestors ==
  ASSUME NEW c, info[c] \in CommitData, NEW sought
  PROVE  LooksAt(c, sought) \subseteq Ancestors(c)
  BY DEF LooksAt, GoesOn, Ancestors, ClosedUnderParents, CommitReadable

(* The other processes' part of the invariant: there are none.             *)
Carried(p) == FilesFollowHistory' /\ AloneHolds(p)' /\ IndexFollowsFastForward'

LEMMA Ended ==
  ASSUME AloneInv, NEW p \in Proc, Proc = {p}, Finish(p)
  PROVE  AloneHolds(p)' /\ IndexFollowsFastForward'
<1>1. /\ pc'[p] = "idle" /\ cmd'[p] = "none" /\ val'[p] = Missing /\ dest'[p] = HEAD
  BY Given DEF Finish, ProcessTypes
<1>2. AloneHolds(p)'
  BY <1>1, DistinctNames DEF AloneHolds, Advancing, WritingObject
<1> QED  BY <1>1, <1>2 DEF IndexFollowsFastForward

LEMMA FilesStay ==
  ASSUME AloneInv, UNCHANGED files
  PROVE  FilesFollowHistory'
  BY DEF AloneInv, FilesFollowHistory, files
-----------------------------------------------------------------------------
(***************************************************************************)
(* Objects.                                                                *)
(***************************************************************************)
LEMMA ObjectDoneAlone ==
  ASSUME AloneInv, NEW p \in Proc, Proc = {p}, pc[p] \in WritingObject, AfterObject(p),
         UNCHANGED <<info, refs, last, index>>
  PROVE  AloneHolds(p)' /\ IndexFollowsFastForward'
<1> USE DEF WritingObject
<1>0. ProcessTypes /\ HeldClosed(p) /\ AloneHolds(p) /\ obj[p] \in Object
  BY Given DEF HeldClosed
<1>1. CASE Finish(p)
  BY <1>1, Ended
<1>2. CASE ~ Finish(p)
  <2>1. /\ UNCHANGED locals /\ pc' = [pc EXCEPT ![p] = pc'[p]]
        /\ pc'[p] \in {"stage", "parent", "advance"}
        /\ pc'[p] = "advance" => obj[p][1] = "commit"
        /\ cmd[p] # "hash"
    BY <1>0, <1>2, Kinds DEF AfterObject, Go, ProcessTypes
  <2>2. cmd[p] # "merge"
    BY <1>0 DEF HeldClosed
  <2>3. Advancing(p)' => Advancing(p)
    BY <2>1, <2>2 DEF Advancing, locals
  <2>4. \A b, c : Descends(b, c)' <=> Descends(b, c)
    BY AncestorsStay DEF Descends
  <2>5. AloneHolds(p)'
    BY <1>0, <2>1, <2>2, <2>3, <2>4 DEF AloneHolds, locals
  <2> QED  BY <2>1, <2>2, <2>5 DEF IndexFollowsFastForward, locals
<1> QED  BY <1>1, <1>2

LEMMA ObjectsAlone ==
  ASSUME AloneInv, NEW p \in Proc, Proc = {p},
         \/ ObjectExists(p) \/ ObjectAbsent(p) \/ ObjectOpen(p) \/ ObjectOpenFails(p)
         \/ ObjectFill(p) \/ ObjectFillLost(p)
  PROVE  Carried(p)
<1> USE DEF WritingObject
<1>0. ProcessTypes /\ HeldClosed(p) /\ AloneHolds(p)
  BY Given
<1>1. UNCHANGED <<info, refs, last, index, files>>
  BY DEF ObjectExists, ObjectAbsent, ObjectOpen, ObjectOpenFails, ObjectFill, ObjectFillLost,
         store, files
<1>2. FilesFollowHistory'
  BY <1>1, FilesStay
<1>3. CASE AfterObject(p) /\ pc[p] \in {"objCheck", "objFill"}
  BY <1>1, <1>2, <1>3, ObjectDoneAlone DEF Carried
<1>4. CASE Finish(p)
  BY <1>2, <1>4, Ended DEF Carried
<1>5. CASE ObjectAbsent(p) \/ ObjectOpen(p)
  <2>1. /\ UNCHANGED locals /\ pc[p] \in WritingObject
        /\ \/ pc'[p] = "objOpen" /\ obj[p] \notin objects /\ UNCHANGED objects
           \/ pc'[p] = "objFill"
    BY <1>0, <1>5 DEF ObjectAbsent, ObjectOpen, Go, ProcessTypes, store
  <2>2. Advancing(p)' => Advancing(p)
    BY <2>1 DEF Advancing, locals
  <2>3. \A b, c : Descends(b, c)' <=> Descends(b, c)
    BY <1>1, AncestorsStay DEF Descends
  <2>4. AloneHolds(p)'
    BY <1>0, <1>1, <2>1, <2>2, <2>3 DEF AloneHolds, locals
  <2>5. cmd[p] # "merge"
    BY <1>0, <2>1 DEF HeldClosed
  <2> QED  BY <1>2, <2>1, <2>4, <2>5 DEF IndexFollowsFastForward, Carried, locals
<1> QED  BY <1>3, <1>4, <1>5 DEF ObjectExists, ObjectOpenFails, ObjectFill, ObjectFillLost
-----------------------------------------------------------------------------
(***************************************************************************)
(* HEAD, refs and the index.                                               *)
(***************************************************************************)
LEMMA RefDoneAlone ==
  ASSUME AloneInv, NEW p \in Proc, Proc = {p}, pc[p] \in {"refOpen", "refFill"},
         AfterRef(p), UNCHANGED info, UNCHANGED index
  PROVE  AloneHolds(p)' /\ IndexFollowsFastForward'
<1>0. ProcessTypes /\ HeldClosed(p) /\ AloneHolds(p)
  BY Given
<1>1. CASE Finish(p)
  BY <1>1, Ended
<1>2. CASE ~ Finish(p)
  <2>1. /\ UNCHANGED <<cmd, mem, todo, obj>> /\ cmd[p] = "branch"
        /\ pc'[p] = "refOpen" /\ dest'[p] = HEAD /\ val'[p] = dest[p]
    BY <1>0, <1>2 DEF AfterRef, ProcessTypes
  <2>2. AloneHolds(p)'
    BY <1>0, <2>1, DistinctNames DEF AloneHolds, Advancing, WritingObject
  <2> QED  BY <2>1, <2>2 DEF IndexFollowsFastForward
<1> QED  BY <1>1, <1>2

LEMMA RefsAlone ==
  ASSUME AloneInv, NEW p \in Proc, Proc = {p},
         \/ CurrentRef(p) \/ RefOpen(p) \/ RefOpenFails(p) \/ RefFill(p) \/ RefFillLost(p)
  PROVE  Carried(p)
<1>0. /\ ProcessTypes /\ DiskTypes /\ HeldClosed(p) /\ AloneHolds(p)
      /\ FilesFollowHistory /\ IndexFollowsFastForward
  BY Given
<1>1. CASE CurrentRef(p)
  <2>1. /\ UNCHANGED <<store, files, index, cmd, mem, todo, obj, val, counts>>
        /\ pc[p] = "advance" /\ pc'[p] = "refOpen"
        /\ dest'[p] = IF refs[HEAD] \in Ref THEN refs[HEAD] ELSE HEAD
    BY <1>0, <1>1 DEF CurrentRef, Go, ProcessTypes
  <2>2. \A b, c : Descends(b, c)' <=> Descends(b, c)
    BY <2>1, AncestorsStay DEF Descends, store, files
  <2>3. ~ Advancing(p)'
    BY <2>1 DEF Advancing, WritingObject
  <2>4. AloneHolds(p)'
    BY <1>0, <2>1, <2>2, <2>3, DistinctNames DEF AloneHolds, Advancing, files, FilesFollowHistory
  <2>5. IndexFollowsFastForward'
    BY <1>0, <2>1 DEF IndexFollowsFastForward, store, counts
  <2> QED  BY <2>1, <2>4, <2>5, FilesStay DEF Carried
<1>2. CASE RefOpen(p)
  <2>1. /\ UNCHANGED <<store, last, index, locals, counts>>
        /\ pc[p] = "refOpen" /\ pc'[p] = "refFill" /\ dest[p] \in RefFile
        /\ refs' = [refs EXCEPT ![dest[p]] = Empty]
    BY <1>0, <1>2 DEF RefOpen, Go, ProcessTypes
  <2>2. FilesFollowHistory'
    BY <1>0, <2>1, DistinctNames DEF FilesFollowHistory, DiskTypes, RefFile
  <2>3. \A b, c : Descends(b, c)' <=> Descends(b, c)
    BY <2>1, AncestorsStay DEF Descends, store
  <2>4. ~ Advancing(p)'
    BY <2>1 DEF Advancing, WritingObject
  <2>5. AloneHolds(p)'
    BY <1>0, <2>1, <2>3, <2>4 DEF AloneHolds, DiskTypes, locals
  <2>6. IndexFollowsFastForward'
    BY <1>0, <2>1 DEF IndexFollowsFastForward, store, counts, locals
  <2> QED  BY <2>2, <2>5, <2>6 DEF Carried
<1>3. CASE RefOpenFails(p) \/ RefFillLost(p)
  <2>1. UNCHANGED <<store, files, index>> /\ pc[p] \in {"refOpen", "refFill"}
    BY <1>3 DEF RefOpenFails, RefFillLost
  <2>2. Finish(p) \/ AfterRef(p)
    BY <1>3 DEF RefOpenFails, RefFillLost
  <2> QED  BY <2>1, <2>2, Ended, RefDoneAlone, FilesStay DEF Carried, store
<1>4. CASE RefFill(p)
  <2>1. /\ UNCHANGED <<store, index, counts>> /\ pc[p] = "refFill" /\ AfterRef(p)
        /\ dest[p] \in RefFile /\ refs[dest[p]] = Empty
    BY <1>0, <1>4 DEF RefFill, ProcessTypes, AloneHolds
  <2>2. /\ refs' = [refs EXCEPT ![dest[p]] = val[p]]
        /\ last' = IF dest[p] \in Ref THEN [last EXCEPT ![dest[p]] = val[p]] ELSE last
    BY <1>4, <2>1 DEF RefFill, Overlaid
  <2>3. FilesFollowHistory'
    BY <1>0, <2>1, <2>2, NameAssumption DEF FilesFollowHistory, DiskTypes, RefFile, AloneHolds
  <2>4. AloneHolds(p)' /\ IndexFollowsFastForward'
    BY <2>1, RefDoneAlone DEF store
  <2> QED  BY <2>3, <2>4 DEF Carried
<1> QED  BY <1>1, <1>2, <1>3, <1>4

LEMMA IndexAlone ==
  ASSUME AloneInv, NEW p \in Proc, Proc = {p},
         IndexOpen(p) \/ IndexOpenFails(p) \/ IndexFill(p) \/ IndexFillLost(p)
  PROVE  Carried(p)
<1>0. /\ ProcessTypes /\ DiskTypes /\ HeldClosed(p) /\ AloneHolds(p)
      /\ FilesFollowHistory /\ IndexFollowsFastForward
  BY Given
<1>1. UNCHANGED <<store, files>>
  BY DEF IndexOpen, IndexOpenFails, IndexFill, IndexFillLost
<1>2. FilesFollowHistory'
  BY <1>1, FilesStay
<1>3. \A b, c : Descends(b, c)' <=> Descends(b, c)
  BY <1>1, AncestorsStay DEF Descends, store, files
<1>4. CASE IndexOpen(p)
  <2>1. UNCHANGED locals /\ pc[p] = "stage" /\ pc'[p] = "indexFill"
    BY <1>0, <1>4 DEF IndexOpen, Go, ProcessTypes
  <2>2. AloneHolds(p)'
    BY <1>0, <1>1, <1>3, <2>1
       DEF AloneHolds, Advancing, WritingObject, locals, files, store
  <2> QED  BY <1>2, <2>1, <2>2 DEF Carried, IndexFollowsFastForward
<1>5. CASE Finish(p)
  BY <1>2, <1>5, Ended DEF Carried
<1>6. CASE /\ IndexOpenFails(p) \/ IndexFill(p) \/ IndexFillLost(p)
           /\ ~ Finish(p)
  <2>1. /\ UNCHANGED locals /\ pc[p] \in {"stage", "indexFill"} /\ pc'[p] = "advance"
        /\ cmd[p] = "merge"
    BY <1>0, <1>6 DEF IndexOpenFails, IndexFill, IndexFillLost, AfterIndex, Go, ProcessTypes
  <2>2. AloneHolds(p)'
    BY <1>0, <1>1, <1>3, <2>1
       DEF AloneHolds, Advancing, WritingObject, locals, files, store
  <2>3. faults' # 0 \/ (index' = mem[p] /\ UNCHANGED faults)
    BY <1>0, <1>6 DEF IndexOpenFails, IndexFill, IndexFillLost, Fault, counts, ProcessTypes
  <2>4. mem[p] = info[val[p]].tree
    BY <1>0, <2>1 DEF AloneHolds
  <2>5. IndexFollowsFastForward'
    BY <1>1, <2>1, <2>3, <2>4 DEF IndexFollowsFastForward, locals, store
  <2> QED  BY <1>2, <2>2, <2>5 DEF Carried
<1> QED  BY <1>4, <1>5, <1>6
-----------------------------------------------------------------------------
(***************************************************************************)
(* The commands' own steps.                                                *)
(***************************************************************************)
LEMMA StartsAlone ==
  ASSUME AloneInv, NEW p \in Proc, Proc = {p},
         StartAdd(p) \/ StartCommit(p) \/ StartMerge(p)
  PROVE  Carried(p)
<1>0. ProcessTypes /\ DiskTypes /\ AloneHolds(p)
  BY Given
<1>1. /\ UNCHANGED <<store, files, index, dest>> /\ pc[p] = "idle"
      /\ pc'[p] \in {"stage", "objCheck", "mergeHead"}
      /\ pc'[p] = "stage" => cmd'[p] # "merge"
      /\ pc'[p] = "objCheck" => obj'[p][1] # "commit"
      /\ val'[p] # Junk
  <2>1. CASE StartAdd(p)
    BY <1>0, <2>1 DEF StartAdd, Start, Go, ProcessTypes, AloneHolds
  <2>3. CASE StartCommit(p)
    BY <1>0, <2>3 DEF StartCommit, Start, Go, ProcessTypes, AloneHolds, TreeObject
  <2>4. CASE StartMerge(p)
    BY <1>0, <2>4, DistinctNames DEF StartMerge, Start, Go, ProcessTypes, Resolvable
  <2> QED  BY <2>1, <2>3, <2>4
<1>2. AloneHolds(p)'
  BY <1>0, <1>1 DEF AloneHolds, Advancing, WritingObject
<1>3. IndexFollowsFastForward'
  BY <1>1 DEF IndexFollowsFastForward
<1> QED  BY <1>1, <1>2, <1>3, FilesStay DEF Carried

LEMMA HashAlone ==
  ASSUME AloneInv, NEW p \in Proc, Proc = {p}, StartHash(p) \/ HashOnly(p)
  PROVE  Carried(p)
<1>0. ProcessTypes /\ AloneHolds(p)
  BY Given
<1>1. /\ UNCHANGED <<files, index, dest, val>> /\ pc[p] = "idle"
      /\ \/ pc'[p] = "objCheck" /\ cmd'[p] = "hash"
         \/ pc'[p] = "idle"
  BY <1>0 DEF StartHash, HashOnly, Start, Go, ProcessTypes, locals
<1>2. AloneHolds(p)'
  BY <1>0, <1>1 DEF AloneHolds, Advancing, WritingObject
<1>3. IndexFollowsFastForward'
  BY <1>1 DEF IndexFollowsFastForward
<1> QED  BY <1>1, <1>2, <1>3, FilesStay DEF Carried

(* tag and checkout -b write files that do not exist.                      *)
LEMMA StartRefsAlone ==
  ASSUME AloneInv, NEW p \in Proc, Proc = {p},
         StartTag(p) \/ StartBranch(p) \/ StartSwitch(p) \/ StartInit(p)
  PROVE  Carried(p)
<1>0. ProcessTypes /\ DiskTypes /\ AloneHolds(p) /\ FilesFollowHistory
  BY Given
<1>1. PICK c \in {"tag", "branch", "switch", "init"}, file \in RefFile \ {Junk},
           content \in (CommitId \cup Branch \cup Tag) :
        /\ StartRef(p, c, file, content)
        /\ file \in Branch => refs[file] = Missing
  BY NameAssumption, DistinctNames
     DEF StartTag, StartBranch, StartSwitch, StartInit, Resolvable, RefFile, Ref
<1>2. /\ UNCHANGED <<store, files, index>> /\ pc'[p] = "refOpen" /\ cmd'[p] = c
      /\ dest'[p] = file /\ val'[p] = content
  BY <1>0, <1>1 DEF StartRef, Start, Go, ProcessTypes
<1>3. file \in Branch => last[file] = Missing
  BY <1>0, <1>1, DistinctNames DEF FilesFollowHistory, Ref
<1>4. AloneHolds(p)'
  BY <1>0, <1>1, <1>2, <1>3, DistinctNames
     DEF AloneHolds, Advancing, WritingObject, Descends, files
<1>5. IndexFollowsFastForward'
  BY <1>1, <1>2 DEF IndexFollowsFastForward
<1> QED  BY <1>2, <1>4, <1>5, FilesStay DEF Carried

LEMMA StageAlone ==
  ASSUME AloneInv, NEW p \in Proc, Proc = {p}, StageFile(p)
  PROVE  Carried(p)
<1>0. ProcessTypes /\ HeldClosed(p) /\ AloneHolds(p)
  BY Given
<1>1. /\ UNCHANGED <<store, files, index, cmd, dest, val>> /\ pc'[p] = "objCheck"
      /\ obj'[p][1] = "blob"
  BY <1>0 DEF StageFile, Go, ProcessTypes, BlobObject
<1>2. AloneHolds(p)'
  BY <1>0, <1>1 DEF AloneHolds, Advancing, WritingObject
<1>3. IndexFollowsFastForward'
  BY <1>1 DEF IndexFollowsFastForward
<1> QED  BY <1>1, <1>2, <1>3, FilesStay DEF Carried

(* The commit's parent is what HEAD's branch was last written with.        *)
LEMMA CommitAlone ==
  ASSUME AloneInv, NEW p \in Proc, Proc = {p}, MakeCommit(p) \/ CommitRefused(p)
  PROVE  Carried(p)
<1>0. ProcessTypes /\ DiskTypes /\ HeldClosed(p) /\ AloneHolds(p) /\ FilesFollowHistory
  BY Given
<1>1. CASE CommitRefused(p)
  BY <1>1, Ended, FilesStay DEF CommitRefused, Carried
<1>2. CASE MakeCommit(p)
  <2>1. PICK c \in CommitId :
          LET data == [tree |-> mem[p], parents |-> Parents] IN
          /\ info' = [info EXCEPT ![c] = data]
          /\ val' = [val EXCEPT ![p] = c]
    BY <1>2 DEF MakeCommit, Names
  <2>2. /\ UNCHANGED <<files, index, cmd, dest>> /\ Parents \subseteq CommitId
        /\ pc'[p] = "objCheck" /\ val'[p] = c
        /\ info'[c].parents = Parents /\ info' \in [CommitId -> CommitData \cup {Unused, Malformed}]'
        /\ info'[c] \in CommitData
    BY <1>0, <1>2, <2>1 DEF MakeCommit, Go, ProcessTypes, DiskTypes, CommitData
  <2>3. ASSUME refs[HEAD] \in Branch
        PROVE  Descends(refs[HEAD], c)'
    <3>1. SUFFICES ASSUME last[refs[HEAD]] # Missing
                   PROVE  last[refs[HEAD]] \in Ancestors(c)'
      BY <2>2 DEF Descends, files
    <3>2. HeadId \in {last[refs[HEAD]], Empty} /\ last[refs[HEAD]] \in CommitId
      BY <1>0, <2>3, <3>1 DEF HeadId, FilesFollowHistory, Ref, DiskTypes
    <3>3. HeadId = last[refs[HEAD]] /\ Parents = {HeadId}
      BY <2>2, <3>1, <3>2, DistinctNames DEF Parents, Unborn
    <3>4. \A S \in SUBSET CommitId : c \in S /\ ClosedUnderParents(S)' => HeadId \in S
      BY <2>2, <3>3, NameAssumption DEF ClosedUnderParents
    <3> QED  BY <3>2, <3>3, <3>4 DEF Ancestors
  <2>4. AloneHolds(p)'
    BY <1>0, <2>2, <2>3, DistinctNames DEF AloneHolds, WritingObject, files
  <2>5. IndexFollowsFastForward'
    BY <2>2 DEF IndexFollowsFastForward
  <2> QED  BY <2>2, <2>4, <2>5, FilesStay DEF Carried
<1> QED  BY <1>1, <1>2

(* merge goes on only when HEAD's commit is an ancestor of its target.     *)
LEMMA MergeAlone ==
  ASSUME AloneInv, NEW p \in Proc, Proc = {p}, FastForward(p) \/ MergeRefused(p) \/ Crash(p)
  PROVE  Carried(p)
<1>0. ProcessTypes /\ DiskTypes /\ HeldClosed(p) /\ AloneHolds(p) /\ FilesFollowHistory
  BY Given
<1>1. CASE MergeRefused(p) \/ Crash(p)
  BY <1>1, Ended, FilesStay DEF MergeRefused, Crash, Carried
<1>2. CASE FastForward(p)
  <2>1. /\ UNCHANGED <<store, files, index, cmd, todo, obj, dest, val, counts>>
        /\ CanFastForward(val[p]) /\ pc'[p] = "stage"
        /\ mem'[p] = info[val[p]].tree
    BY <1>0, <1>2 DEF FastForward, Go, ProcessTypes
  <2>2. refs[HEAD] \in Branch => Descends(refs[HEAD], val[p])
    <3>1. info[val[p]] \in CommitData
      BY <1>0, <1>2 DEF FastForward, Go, HeldClosed
    <3> QED  BY <1>0, <2>1, <3>1, DistinctNames, LooksAtAncestors
         DEF CanFastForward, HeadId, FilesFollowHistory, Ref, Descends
  <2>3. refs[HEAD] \in Branch => Descends(refs[HEAD], val[p])'
    BY <2>1, <2>2, AncestorsStay DEF Descends, store, files
  <2>4. AloneHolds(p)'
    BY <1>0, <2>1, <2>3 DEF AloneHolds, WritingObject, files, store
  <2>5. IndexFollowsFastForward'
    BY <2>1 DEF IndexFollowsFastForward
  <2> QED  BY <2>1, <2>4, <2>5, FilesStay DEF Carried
<1> QED  BY <1>1, <1>2
-----------------------------------------------------------------------------
(***************************************************************************)
(* The invariant and the theorems.                                         *)
(***************************************************************************)
LEMMA NextCarries ==
  ASSUME AloneInv, NEW p \in Proc, Proc = {p}, Begin(p) \/ Step(p) \/ Fail(p)
  PROVE  Carried(p)
BY ObjectsAlone, RefsAlone, IndexAlone, StartsAlone, HashAlone, StartRefsAlone, StageAlone, CommitAlone,
   MergeAlone
   DEF Begin, Step, Fail

LEMMA AloneNext == Alone /\ AloneInv /\ [Next]_vars => AloneInv'
<1> SUFFICES ASSUME Alone, AloneInv, [Next]_vars
             PROVE  AloneInv'
  OBVIOUS
<1>1. IInv'
  BY Inductive DEF AloneInv
<1>2. PICK p \in Proc : Proc = {p}
  BY DEF Alone
<1>3. CASE UNCHANGED vars
  <2>1. \A b, c : Descends(b, c)' <=> Descends(b, c)
    BY <1>3, AncestorsStay DEF Descends, vars, store, files
  <2>2. \A q \in Proc : AloneHolds(q)'
    BY <1>3, <2>1
       DEF AloneInv, AloneHolds, Advancing, WritingObject, vars, store, files, locals, counts
  <2>3. FilesFollowHistory' /\ IndexFollowsFastForward'
    BY <1>3 DEF AloneInv, FilesFollowHistory, IndexFollowsFastForward, vars, store, files,
                locals, counts
  <2> QED  BY <1>1, <2>2, <2>3 DEF AloneInv
<1>4. CASE Next
  BY <1>1, <1>2, <1>4, NextCarries DEF Next, Carried, AloneInv
<1> QED  BY <1>3, <1>4

LEMMA AloneInvariant ==
  ASSUME Alone
  PROVE  Spec => []AloneInv
<1>1. Init => AloneInv
  <2> SUFFICES ASSUME Init PROVE AloneInv
    OBVIOUS
  <2>1. FilesFollowHistory
    BY DistinctNames, NameAssumption DEF Init, FilesFollowHistory, RefFile, Ref
  <2>2. \A p \in Proc : AloneHolds(p)
    BY DistinctNames DEF Init, AloneHolds, Advancing, WritingObject
  <2>3. IndexFollowsFastForward
    BY DEF Init, IndexFollowsFastForward
  <2> QED  BY <2>1, <2>2, <2>3, Initially DEF AloneInv
<1>2. AloneInv /\ [Next]_vars => AloneInv'
  BY AloneNext
<1> QED  BY <1>1, <1>2, PTL DEF Spec

(* When a fast-forward moves the branch the index has become the target's  *)
(* (commands/merge.cpp:26), for any repository one process works on.       *)
THEOREM MergeSavesIndexFirst ==
  ASSUME Alone
  PROVE  Spec => []IndexFollowsFastForward
<1>1. AloneInv => IndexFollowsFastForward
  BY DEF AloneInv
<1> QED  BY <1>1, AloneInvariant, PTL

(* Only an object that does not exist is opened for writing, so no fault   *)
(* and no later write makes a readable object unreadable (object.cpp:67).  *)
THEOREM ObjectsStayIntact ==
  ASSUME Alone
  PROVE  Spec => IntactStaysIntact
<1>1. AloneInv /\ [Next]_vars => [objects \ torn \subseteq objects' \ torn']_vars
  <2> SUFFICES ASSUME AloneInv, Next
               PROVE  objects \ torn \subseteq objects' \ torn'
    OBVIOUS
  <2>1. PICK p \in Proc : Begin(p) \/ Step(p) \/ Fail(p)
    BY DEF Next
  <2>2. CASE ObjectOpen(p)
    <3>1. obj[p] \notin objects
      BY <2>2, Given DEF ObjectOpen, Go, AloneHolds
    <3> QED  BY <2>2, <3>1 DEF ObjectOpen
  <2>3. CASE ObjectFill(p)
    BY <2>3 DEF ObjectFill
  <2>4. CASE ~ ObjectOpen(p) /\ ~ ObjectFill(p)
    <3>1. UNCHANGED <<objects, torn>>
      BY <2>1, <2>4
         DEF Begin, Step, Fail, store,
             StartAdd, StartHash, HashOnly, StartCommit, StartMerge, StartTag, StartBranch, StartSwitch,
             StartInit, StartRef, StageFile, ObjectExists, ObjectAbsent, IndexOpen, IndexFill,
             MakeCommit, CommitRefused, FastForward, MergeRefused, CurrentRef, RefOpen, RefFill,
             ObjectOpenFails, ObjectFillLost, IndexOpenFails, IndexFillLost, RefOpenFails,
             RefFillLost, Crash
    <3> QED  BY <3>1
  <2> QED  BY <2>2, <2>3, <2>4
<1> QED  BY <1>1, AloneInvariant, PTL DEF Spec, IntactStaysIntact

(* What a branch is written with descends from what it was written with    *)
(* before, crashes and lost writes of HEAD, refs and objects included      *)
(* (repository.cpp:212, commands/checkout.cpp:64).                         *)
THEOREM BranchesOnlyMoveForward ==
  ASSUME Alone
  PROVE  Spec => BranchesAdvance
<1>1. AloneInv /\ [Next]_vars =>
        [\A b \in Branch : last[b] # Missing /\ last'[b] # last[b] =>
           last[b] \in Ancestors(last'[b])]_vars
  <2> SUFFICES ASSUME AloneInv, Next, NEW b \in Branch, last[b] # Missing, last'[b] # last[b]
               PROVE  last[b] \in Ancestors(last'[b])
    OBVIOUS
  <2>1. PICK p \in Proc : Begin(p) \/ Step(p) \/ Fail(p)
    BY DEF Next
  <2>2. RefFill(p)
    BY <2>1
       DEF Begin, Step, Fail, files,
           StartAdd, StartHash, HashOnly, StartCommit, StartMerge, StartTag, StartBranch, StartSwitch,
           StartInit, StartRef, StageFile, ObjectExists, ObjectAbsent, ObjectOpen, ObjectFill,
           IndexOpen, IndexFill, MakeCommit, CommitRefused, FastForward, MergeRefused,
           CurrentRef, RefOpen, ObjectOpenFails, ObjectFillLost, IndexOpenFails, IndexFillLost,
           RefOpenFails, RefFillLost, Crash
  <2>3. b = dest[p] /\ last'[b] = val[p]
    BY <2>2, Given DEF RefFill, DiskTypes, Ref
  <2> QED  BY <2>2, <2>3, Given DEF RefFill, AloneHolds, Descends
<1> QED  BY <1>1, AloneInvariant, PTL DEF Spec, BranchesAdvance

(* An emptied branch file is never taken for an unborn branch: a commit    *)
(* without a parent is the first of its branch (commands/commit.cpp:31).   *)
THEOREM HistoriesStartOnce ==
  ASSUME Alone
  PROVE  Spec => RootsOnlyOnNewBranches
<1>1. AloneInv /\ [Next]_vars =>
        [\A p \in Proc : pc[p] = "parent" /\ pc'[p] = "objCheck" =>
           \/ info'[val'[p]].parents # {}
           \/ refs[HEAD] \in Branch /\ last[refs[HEAD]] = Missing]_vars
  <2> SUFFICES ASSUME AloneInv, Next, NEW p \in Proc, pc[p] = "parent", pc'[p] = "objCheck",
                      info'[val'[p]].parents = {}
               PROVE  refs[HEAD] \in Branch /\ last[refs[HEAD]] = Missing
    OBVIOUS
  <2>1. MakeCommit(p)
    <3>1. Begin(p) \/ Step(p) \/ Fail(p)
      BY DEF Next, Alone
    <3> QED  BY <3>1, Given
       DEF Begin, Step, Fail, Go, Finish, ProcessTypes, locals,
           StartAdd, StartHash, HashOnly, StartCommit, StartMerge, StartTag, StartBranch,
           StartSwitch, StartInit, StartRef, StageFile, ObjectExists, ObjectAbsent, ObjectOpen,
           ObjectFill, IndexOpen, IndexFill, CommitRefused, FastForward, MergeRefused,
           CurrentRef, RefOpen, RefFill, ObjectOpenFails, ObjectFillLost, IndexOpenFails,
           IndexFillLost, RefOpenFails, RefFillLost, Crash
  <2>2. PICK c \in CommitId : Names(c, [tree |-> mem[p], parents |-> Parents]) /\ val'[p] = c
    BY <2>1, Given DEF MakeCommit, ProcessTypes
  <2>3. info'[val'[p]].parents = Parents
    BY <2>2, Given DEF Names, DiskTypes
  <2>4. refs[HEAD] \in Branch /\ refs[refs[HEAD]] = Missing
    BY <2>3, Given DEF Parents, Unborn, HeadId, FilesFollowHistory, Ref
  <2> QED  BY <2>4, Given, DistinctNames DEF FilesFollowHistory, Ref
<1> QED  BY <1>1, AloneInvariant, PTL DEF Spec, RootsOnlyOnNewBranches
=============================================================================
