----------------------------- MODULE StatusProofs -----------------------------
(* What status may be believed about, for any number of files, contents,   *)
(* seconds and commands.                                                   *)
EXTENDS Status, TLAPS

(* A file exists where its path has content.                               *)
LEMMA ExistsHasContent ==
  ASSUME TypeOK, StampsArePast, NEW p \in Path
  PROVE  /\ Exists(p) <=> work[p].blob # NoBlob
         /\ Exists(p) => work[p].blob \in Blob /\ work[p].mtime > 0
  BY DEF TypeOK, StampsArePast, Exists, NoFile, MaybeBlob, Seconds

(* The entries the index can get are entries.                              *)
LEMMA EntriesTyped ==
  ASSUME TypeOK, StampsArePast
  PROVE  /\ NoEntry \in Entries /\ Unmerged \in Entries
         /\ NoStat \in Stats
         /\ \A t \in Tree : FromTree(t) \in [Path -> Entries]
         /\ \A p \in todo : StagedNow(p) \in [Path -> Entries]
<1> USE StatusAssumption
<1>1. NoEntry \in Entries /\ Unmerged \in Entries
  BY DEF Entries
<1>2. NoStat \in Stats
  BY DEF NoStat, Stats, Seconds, TypeOK
<1>3. ASSUME NEW t \in Tree PROVE FromTree(t) \in [Path -> Entries]
  BY <1>1 DEF FromTree, Entry, Entries, Tree, MaybeBlob, TypeOK, Seconds
<1>4. ASSUME NEW p \in todo PROVE StagedNow(p) \in [Path -> Entries]
  <2>1. ReadFile(p) \in Blob
    BY ExistsHasContent DEF TypeOK, ReadFile
  <2> QED
    BY <2>1 DEF StagedNow, Entry, Entries, TypeOK, Stats
<1> QED
  BY <1>1, <1>2, <1>3, <1>4

LEMMA ReportTyped == Report \in [Sections -> SUBSET Path]
  BY DEF Report, Sections, Modified, Untracked, Deleted, Walked, StagedModified, StagedAdded, StagedDeleted

(* One step keeps the types. *)
LEMMA TypeStep ==
  ASSUME TypeOK, StampsArePast, [Next]_vars
  PROVE  TypeOK'
<1> USE StatusAssumption, ExistsHasContent, EntriesTyped DEF TypeOK, files, repo, adding
<1>1. CASE UNCHANGED vars
  BY <1>1 DEF vars
<1>2. CASE Tick
  BY <1>2 DEF Tick, Count, Idle, AddDone, Nothing, Thrown, NoFile, Sections, ChangeOver, Tree, MaybeBlob, Seconds, Stats, IndexTree, Entries, NoEntry, Unmerged, Entry
<1>3. ASSUME NEW p \in Path, NEW b \in MaybeBlob, Edit(p, b) PROVE TypeOK'
  BY <1>3 DEF Edit, Count, Idle, AddDone, Nothing, Thrown, NoFile, Sections, ChangeOver, Tree, MaybeBlob, Seconds, Stats, IndexTree, Entries, NoEntry, Unmerged, Entry
<1>4. ASSUME NEW p \in Path, Ignore(p) PROVE TypeOK'
  BY <1>4 DEF Ignore, Count, Idle, AddDone, Nothing, Thrown, NoFile, Sections, ChangeOver, Tree, MaybeBlob, Seconds, Stats, IndexTree, Entries, NoEntry, Unmerged, Entry
<1>5. ASSUME NEW p \in Path, OtherGit(p) PROVE TypeOK'
  BY <1>5 DEF OtherGit, Count, Idle, AddDone, Nothing, Thrown, NoFile, Sections, ChangeOver, Tree, MaybeBlob, Seconds, Stats, IndexTree, Entries, NoEntry, Unmerged, Entry
<1>6. ASSUME NEW S \in SUBSET Path, AddBegin(S) PROVE TypeOK'
  BY <1>6 DEF AddBegin, Count, Idle, AddDone, Nothing, Thrown, NoFile, Sections, ChangeOver, Tree, MaybeBlob, Seconds, Stats, IndexTree, Entries, NoEntry, Unmerged, Entry
<1>7. ASSUME NEW p \in Path, AddStat(p) PROVE TypeOK'
  BY <1>7 DEF AddStat, Count, Idle, AddDone, Nothing, Thrown, NoFile, Sections, ChangeOver, Tree, MaybeBlob, Seconds, Stats, IndexTree, Entries, NoEntry, Unmerged, Entry
<1>8. ASSUME NEW p \in Path, AddThrows(p) PROVE TypeOK'
  BY <1>8 DEF AddThrows, Count, Idle, AddDone, Nothing, Thrown, NoFile, Sections, ChangeOver, Tree, MaybeBlob, Seconds, Stats, IndexTree, Entries, NoEntry, Unmerged, Entry
<1>9. ASSUME NEW p \in Path, AddRead(p) PROVE TypeOK'
  BY <1>9 DEF AddRead, Count, Idle, AddDone, Nothing, Thrown, NoFile, Sections, ChangeOver, Tree, MaybeBlob, Seconds, Stats, IndexTree, Entries, NoEntry, Unmerged, Entry
<1>10. ASSUME NEW p \in Path, AddLast(p) PROVE TypeOK'
  BY <1>10 DEF AddLast, Count, Idle, AddDone, Nothing, Thrown, NoFile, Sections, ChangeOver, Tree, MaybeBlob, Seconds, Stats, IndexTree, Entries, NoEntry, Unmerged, Entry
<1>11. CASE Commit
  BY <1>11 DEF Commit, Count, Idle, AddDone, Nothing, Thrown, NoFile, Sections, ChangeOver, Tree, MaybeBlob, Seconds, Stats, IndexTree, Entries, NoEntry, Unmerged, Entry
<1>12. ASSUME NEW t \in Tree, Checkout(t) PROVE TypeOK'
  BY <1>12 DEF Checkout, Count, Idle, AddDone, Nothing, Thrown, NoFile, Sections, ChangeOver, Tree, MaybeBlob, Seconds, Stats, IndexTree, Entries, NoEntry, Unmerged, Entry
<1>13. ASSUME NEW t \in Tree, Merge(t) PROVE TypeOK'
  BY <1>13 DEF Merge, Count, Idle, AddDone, Nothing, Thrown, NoFile, Sections, ChangeOver, Tree, MaybeBlob, Seconds, Stats, IndexTree, Entries, NoEntry, Unmerged, Entry
<1>14. CASE Status
  BY <1>14, ReportTyped DEF Status, Count, Idle, AddDone, Nothing, Thrown, NoFile, Sections, ChangeOver, Tree, MaybeBlob, Seconds, Stats, IndexTree, Entries, NoEntry, Unmerged, Entry
<1> QED
  BY <1>1, <1>2, <1>3, <1>4, <1>5, <1>6, <1>7, <1>8, <1>9, <1>10, <1>11, <1>12, <1>13, <1>14 DEF Next

(* One step keeps every time stamp in the past. *)
LEMMA StampStep ==
  ASSUME TypeOK, StampsArePast, [Next]_vars
  PROVE  StampsArePast'
<1> USE StatusAssumption DEF TypeOK, StampsArePast, files, repo, adding
<1>1. CASE UNCHANGED vars
  BY <1>1 DEF vars
<1>2. CASE Tick
  BY <1>2 DEF Tick, AddDone, NoFile, ChangeOver, Tree, MaybeBlob, Seconds, NoStat, Stats, FromTree, StagedNow, Entries, NoEntry, Unmerged, Entry
<1>3. ASSUME NEW p \in Path, NEW b \in MaybeBlob, Edit(p, b) PROVE StampsArePast'
  BY <1>3 DEF Edit, AddDone, NoFile, ChangeOver, Tree, MaybeBlob, Seconds, NoStat, Stats, FromTree, StagedNow, Entries, NoEntry, Unmerged, Entry
<1>4. ASSUME NEW p \in Path, Ignore(p) PROVE StampsArePast'
  BY <1>4 DEF Ignore, AddDone, NoFile, ChangeOver, Tree, MaybeBlob, Seconds, NoStat, Stats, FromTree, StagedNow, Entries, NoEntry, Unmerged, Entry
<1>5. ASSUME NEW p \in Path, OtherGit(p) PROVE StampsArePast'
  BY <1>5 DEF OtherGit, AddDone, NoFile, ChangeOver, Tree, MaybeBlob, Seconds, NoStat, Stats, FromTree, StagedNow, Entries, NoEntry, Unmerged, Entry
<1>6. ASSUME NEW S \in SUBSET Path, AddBegin(S) PROVE StampsArePast'
  BY <1>6 DEF AddBegin, AddDone, NoFile, ChangeOver, Tree, MaybeBlob, Seconds, NoStat, Stats, FromTree, StagedNow, Entries, NoEntry, Unmerged, Entry
<1>7. ASSUME NEW p \in Path, AddStat(p) PROVE StampsArePast'
  BY <1>7 DEF AddStat, AddDone, NoFile, ChangeOver, Tree, MaybeBlob, Seconds, NoStat, Stats, FromTree, StagedNow, Entries, NoEntry, Unmerged, Entry
<1>8. ASSUME NEW p \in Path, AddThrows(p) PROVE StampsArePast'
  BY <1>8 DEF AddThrows, AddDone, NoFile, ChangeOver, Tree, MaybeBlob, Seconds, NoStat, Stats, FromTree, StagedNow, Entries, NoEntry, Unmerged, Entry
<1>9. ASSUME NEW p \in Path, AddRead(p) PROVE StampsArePast'
  BY <1>9 DEF AddRead, AddDone, NoFile, ChangeOver, Tree, MaybeBlob, Seconds, NoStat, Stats, FromTree, StagedNow, Entries, NoEntry, Unmerged, Entry
<1>10. ASSUME NEW p \in Path, AddLast(p) PROVE StampsArePast'
  BY <1>10 DEF AddLast, AddDone, NoFile, ChangeOver, Tree, MaybeBlob, Seconds, NoStat, Stats, FromTree, StagedNow, Entries, NoEntry, Unmerged, Entry
<1>11. CASE Commit
  BY <1>11 DEF Commit, AddDone, NoFile, ChangeOver, Tree, MaybeBlob, Seconds, NoStat, Stats, FromTree, StagedNow, Entries, NoEntry, Unmerged, Entry
<1>12. ASSUME NEW t \in Tree, Checkout(t) PROVE StampsArePast'
  BY <1>12 DEF Checkout, AddDone, NoFile, ChangeOver, Tree, MaybeBlob, Seconds, NoStat, Stats, FromTree, StagedNow, Entries, NoEntry, Unmerged, Entry
<1>13. ASSUME NEW t \in Tree, Merge(t) PROVE StampsArePast'
  BY <1>13 DEF Merge, AddDone, NoFile, ChangeOver, Tree, MaybeBlob, Seconds, NoStat, Stats, FromTree, StagedNow, Entries, NoEntry, Unmerged, Entry
<1>14. CASE Status
  BY <1>14 DEF Status, AddDone, NoFile, ChangeOver, Tree, MaybeBlob, Seconds, NoStat, Stats, FromTree, StagedNow, Entries, NoEntry, Unmerged, Entry
<1> QED
  BY <1>1, <1>2, <1>3, <1>4, <1>5, <1>6, <1>7, <1>8, <1>9, <1>10, <1>11, <1>12, <1>13, <1>14 DEF Next

(* One step keeps every entry trustworthy. *)
LEMMA TrustStep ==
  ASSUME TypeOK, StampsArePast, NEW q \in Path,
         Trustworthy(index[q], q), Trustworthy(mem[q], q), [Next]_vars
  PROVE  (Trustworthy(index[q], q) /\ Trustworthy(mem[q], q))'
<1> USE StatusAssumption DEF TypeOK, StampsArePast, Trustworthy, Settled, Exists, files, repo, adding
<1>1. CASE UNCHANGED vars
  BY <1>1 DEF vars
<1>2. CASE Tick
  BY <1>2 DEF Tick, AddDone, NoFile, ChangeOver, Tree, MaybeBlob, Seconds, Stats, ReadFile, FromTree, StagedNow, Entries, NoEntry, Unmerged, Entry
<1>3. ASSUME NEW p \in Path, NEW b \in MaybeBlob, Edit(p, b) PROVE (Trustworthy(index[q], q) /\ Trustworthy(mem[q], q))'
  BY <1>3 DEF Edit, AddDone, NoFile, ChangeOver, Tree, MaybeBlob, Seconds, Stats, ReadFile, FromTree, StagedNow, Entries, NoEntry, Unmerged, Entry
<1>4. ASSUME NEW p \in Path, Ignore(p) PROVE (Trustworthy(index[q], q) /\ Trustworthy(mem[q], q))'
  BY <1>4 DEF Ignore, AddDone, NoFile, ChangeOver, Tree, MaybeBlob, Seconds, Stats, ReadFile, FromTree, StagedNow, Entries, NoEntry, Unmerged, Entry
<1>5. ASSUME NEW p \in Path, OtherGit(p) PROVE (Trustworthy(index[q], q) /\ Trustworthy(mem[q], q))'
  BY <1>5 DEF OtherGit, AddDone, NoFile, ChangeOver, Tree, MaybeBlob, Seconds, Stats, ReadFile, FromTree, StagedNow, Entries, NoEntry, Unmerged, Entry
<1>6. ASSUME NEW S \in SUBSET Path, AddBegin(S) PROVE (Trustworthy(index[q], q) /\ Trustworthy(mem[q], q))'
  BY <1>6 DEF AddBegin, AddDone, NoFile, ChangeOver, Tree, MaybeBlob, Seconds, Stats, ReadFile, FromTree, StagedNow, Entries, NoEntry, Unmerged, Entry
<1>7. ASSUME NEW p \in Path, AddStat(p) PROVE (Trustworthy(index[q], q) /\ Trustworthy(mem[q], q))'
  BY <1>7 DEF AddStat, AddDone, NoFile, ChangeOver, Tree, MaybeBlob, Seconds, Stats, ReadFile, FromTree, StagedNow, Entries, NoEntry, Unmerged, Entry
<1>8. ASSUME NEW p \in Path, AddThrows(p) PROVE (Trustworthy(index[q], q) /\ Trustworthy(mem[q], q))'
  BY <1>8 DEF AddThrows, AddDone, NoFile, ChangeOver, Tree, MaybeBlob, Seconds, Stats, ReadFile, FromTree, StagedNow, Entries, NoEntry, Unmerged, Entry
<1>9. ASSUME NEW p \in Path, AddRead(p) PROVE (Trustworthy(index[q], q) /\ Trustworthy(mem[q], q))'
  BY <1>9 DEF AddRead, AddDone, NoFile, ChangeOver, Tree, MaybeBlob, Seconds, Stats, ReadFile, FromTree, StagedNow, Entries, NoEntry, Unmerged, Entry
<1>10. ASSUME NEW p \in Path, AddLast(p) PROVE (Trustworthy(index[q], q) /\ Trustworthy(mem[q], q))'
  BY <1>10 DEF AddLast, AddDone, NoFile, ChangeOver, Tree, MaybeBlob, Seconds, Stats, ReadFile, FromTree, StagedNow, Entries, NoEntry, Unmerged, Entry
<1>11. CASE Commit
  BY <1>11 DEF Commit, AddDone, NoFile, ChangeOver, Tree, MaybeBlob, Seconds, Stats, ReadFile, FromTree, StagedNow, Entries, NoEntry, Unmerged, Entry
<1>12. ASSUME NEW t \in Tree, Checkout(t) PROVE (Trustworthy(index[q], q) /\ Trustworthy(mem[q], q))'
  BY <1>12 DEF Checkout, AddDone, NoFile, ChangeOver, Tree, MaybeBlob, Seconds, Stats, ReadFile, FromTree, StagedNow, Entries, NoEntry, Unmerged, Entry
<1>13. ASSUME NEW t \in Tree, Merge(t) PROVE (Trustworthy(index[q], q) /\ Trustworthy(mem[q], q))'
  BY <1>13 DEF Merge, AddDone, NoFile, ChangeOver, Tree, MaybeBlob, Seconds, Stats, ReadFile, FromTree, StagedNow, Entries, NoEntry, Unmerged, Entry
<1>14. CASE Status
  BY <1>14 DEF Status, AddDone, NoFile, ChangeOver, Tree, MaybeBlob, Seconds, Stats, ReadFile, FromTree, StagedNow, Entries, NoEntry, Unmerged, Entry
<1> QED
  BY <1>1, <1>2, <1>3, <1>4, <1>5, <1>6, <1>7, <1>8, <1>9, <1>10, <1>11, <1>12, <1>13, <1>14 DEF Next

(* What status prints depends on files, ignore rules, index and HEAD only. *)
LEMMA SameReport ==
  ASSUME UNCHANGED <<work, ignored, index, head>>
  PROVE  Report' = Report
  BY DEF Report, Modified, Untracked, Deleted, Walked, StagedModified, StagedAdded,
         StagedDeleted, Exists, Tracked, LooksUnchanged

(* What was printed is forgotten as soon as it could differ.               *)
ShownIsReport == shown.kind = "printed" => shown.in = Report

(* One step keeps what is shown and what would be printed together.        *)
LEMMA ShownStep ==
  ASSUME TypeOK, ~ Idle => shown = Nothing, ShownIsReport, [Next]_vars
  PROVE  (~ Idle => shown = Nothing)' /\ ShownIsReport'
<1> USE DEF Idle, ShownIsReport, Nothing, files, repo, adding
<1>1. CASE UNCHANGED vars
  BY <1>1, SameReport DEF vars
<1>2. CASE Tick
  BY <1>2, SameReport DEF Tick
<1>3. CASE Status
  BY <1>3, SameReport DEF Status, Thrown
<1>4. ASSUME NEW p \in Path, \/ AddStat(p) \/ AddThrows(p) \/ AddRead(p) \/ AddLast(p)
      PROVE  (~ Idle => shown = Nothing)' /\ ShownIsReport'
  BY <1>4 DEF TypeOK, AddStat, AddThrows, AddRead, AddLast
<1>5. CASE \/ Commit
           \/ \E p \in Path : Ignore(p) \/ OtherGit(p)
           \/ \E p \in Path, b \in MaybeBlob : Edit(p, b)
           \/ \E S \in SUBSET Path : AddBegin(S)
           \/ \E t \in Tree : Checkout(t) \/ Merge(t)
  BY <1>5 DEF Commit, Ignore, OtherGit, Edit, AddBegin, Checkout, Merge
<1> QED
  BY <1>1, <1>2, <1>3, <1>4, <1>5 DEF Next

(* IInv holds in every state of every behaviour.                           *)
LEMMA Inductive == Spec => []IInv
<1>1. Init => IInv
  <2> SUFFICES ASSUME Init PROVE IInv
    OBVIOUS
  <2>1. TypeOK
    <3>1. 0 \in Seconds /\ clock \in Seconds \ {0} /\ steps \in 0 .. MaxSteps
      BY StatusAssumption DEF Init, Seconds
    <3>2. work \in [Path -> [blob : MaybeBlob, mtime : Seconds]] /\ head \in Tree
      BY <3>1 DEF Init, NoFile, MaybeBlob, Tree
    <3>3. index \in [Path -> Entries] /\ mem \in [Path -> Entries] /\ held \in Stats
      BY <3>1 DEF Init, Entries, NoStat, Stats
    <3>4. shown \in [kind : {"none", "threw", "printed"}, in : [Sections -> SUBSET Path]]
      BY DEF Init, Nothing
    <3> QED
      BY <3>1, <3>2, <3>3, <3>4 DEF Init, TypeOK
  <2>2. StampsArePast /\ Idle /\ shown.kind # "printed"
    BY StatusAssumption DEF Init, StampsArePast, NoFile, NoEntry, Entry, NoStat, Idle, Nothing
  <2>3. \A p \in Path : Trustworthy(index[p], p) /\ Trustworthy(mem[p], p)
    <3>1. \A p \in Path : index[p] = NoEntry /\ mem[p] = NoEntry
      BY DEF Init
    <3>2. ~ Settled(NoEntry)
      BY DEF Settled, NoEntry, Entry
    <3> QED
      BY <3>1, <3>2 DEF Trustworthy
  <2> QED
    BY <2>1, <2>2, <2>3 DEF IInv
<1>2. IInv /\ [Next]_vars => IInv'
  <2> SUFFICES ASSUME IInv, [Next]_vars PROVE IInv'
    OBVIOUS
  <2>1. TypeOK' /\ StampsArePast'
    BY TypeStep, StampStep DEF IInv
  <2>2. (\A p \in Path : Trustworthy(index[p], p) /\ Trustworthy(mem[p], p))'
    BY TrustStep DEF IInv
  <2>3. (~ Idle => shown = Nothing)' /\ ShownIsReport'
    BY ShownStep DEF IInv, ShownIsReport
  <2> QED
    BY <2>1, <2>2, <2>3 DEF IInv, ShownIsReport
<1> QED
  BY <1>1, <1>2, PTL DEF Spec

(* The types of the status model, for every instance.                      *)
THEOREM StatusTypes == Spec => []TypeOK
<1>1. IInv => TypeOK
  BY DEF IInv
<1> QED
  BY <1>1, Inductive, PTL

(* Whatever is edited while, before and after add reads the files: status  *)
(* is right about each file staged in a later second than it was written   *)
(* in (index.cpp:200-213).                                                 *)
THEOREM StatusIsRight == Spec => []SettledFilesAreWatched
<1>1. IInv => SettledFilesAreWatched
  <2> SUFFICES ASSUME IInv, shown.kind = "printed",
                      NEW p \in Walked, Tracked(p), Settled(index[p]) \/ ~ FileClockIsUnix
               PROVE  p \in Modified <=> work[p].blob # index[p].blob
    BY DEF SettledFilesAreWatched, IInv, Report, Sections
  <2>1. p \in Path /\ Exists(p)
    BY DEF Walked
  <2>2. LooksUnchanged(p) => work[p].blob = index[p].blob
    BY <2>1 DEF LooksUnchanged, IInv, Trustworthy
  <2> QED
    BY <2>2 DEF Modified
<1> QED
  BY <1>1, Inductive, PTL

(* "nothing to commit, working tree clean" is true but for ignored files   *)
(* and files written in the second they were staged in                     *)
(* (status_formatter.cpp:30-33).                                           *)
THEOREM CleanIsTrue == Spec => []CleanMeansCommitted
<1>1. IInv => CleanMeansCommitted
  <2> SUFFICES ASSUME IInv, SaysClean PROVE CleanMeansCommitted
    BY DEF CleanMeansCommitted
  <2>1. \A s \in Sections : Report[s] = {}
    BY DEF SaysClean, IInv
  <2>2. /\ \A p \in Path : index[p] # Unmerged
        /\ Modified = {} /\ Deleted = {} /\ Untracked = {}
        /\ StagedModified = {} /\ StagedAdded = {} /\ StagedDeleted = {}
    BY <2>1 DEF Report, Sections
  <2>3. TypeOK /\ StampsArePast
    BY DEF IInv
  <2>4. ASSUME NEW p \in Path PROVE index[p].blob = head[p]
    BY <2>2, <2>3, StatusAssumption
    DEF StagedModified, StagedAdded, StagedDeleted, Tracked, TypeOK, Tree, MaybeBlob,
        Entries, NoEntry, Unmerged, Entry
  <2>5. IndexTree = head
    BY <2>3, <2>4 DEF IndexTree, TypeOK, Tree
  <2>6. ASSUME NEW p \in Path, work[p].blob # head[p], ~ (p \in ignored /\ Exists(p))
        PROVE  FileClockIsUnix /\ Tracked(p) /\ ~ Settled(index[p])
    <3>1. Exists(p) => p \in Walked
      BY <2>2, <2>6 DEF Walked
    <3>2. Tracked(p)
      BY <2>2, <2>3, <2>4, <2>6, <3>1, ExistsHasContent, StatusAssumption
      DEF Untracked, Tracked, NoEntry, Entry
    <3>3. p \in Walked
      BY <2>2, <3>1, <3>2 DEF Deleted
    <3>4. LooksUnchanged(p)
      BY <2>2, <2>4, <2>6, <3>2, <3>3 DEF Modified
    <3> QED
      BY <2>4, <2>6, <3>2, <3>3, <3>4 DEF IInv, Trustworthy, LooksUnchanged, Walked
  <2> QED
    BY <2>5, <2>6 DEF CleanMeansCommitted
<1> QED
  BY <1>1, Inductive, PTL
=============================================================================
