---------------------------- MODULE WorkTreeProofs ----------------------------
(* What checkout and merge leave in the work tree, for any set of paths of *)
(* any depth, any files, any branches and any number of edits, commands,   *)
(* throws and kills.                                                       *)
EXTENDS WorkTree, FiniteSetTheorems, SequenceTheorems, WellFoundedInduction, TLAPS

-----------------------------------------------------------------------------
(* Paths.                                                                  *)
LEMMA PathTyped ==
  ASSUME NEW p \in Path
  PROVE  p \in Seq(Nat) /\ Len(p) \in Nat
<1>1. p \in Seq(Nat)
  BY PathAssumption
<1> QED BY <1>1

LEMMA AboveOrder ==
  /\ \A p \in Path : ~Above(p, p)
  /\ \A p, q, r \in Path : Above(p, q) /\ Above(q, r) => Above(p, r)
  /\ \A p, q, r \in Path : Above(p, r) /\ Above(q, r) => p = q \/ Above(p, q) \/ Above(q, p)
<1>1. ASSUME NEW p \in Path PROVE ~Above(p, p)
  BY PathTyped DEF Above
<1>2. ASSUME NEW p \in Path, NEW q \in Path, NEW r \in Path, Above(p, r), Above(q, r), Len(p) = Len(q)
      PROVE  p = q
  BY <1>2, PathTyped, SeqEqual DEF Above
<1>3. ASSUME NEW p \in Path, NEW q \in Path, NEW r \in Path, Above(p, q), Above(q, r)
      PROVE  Above(p, r)
  BY <1>3, PathTyped DEF Above
<1>4. ASSUME NEW p \in Path, NEW q \in Path, NEW r \in Path, Above(p, r), Above(q, r), Len(p) # Len(q)
      PROVE  Above(p, q) \/ Above(q, p)
  BY <1>4, PathTyped DEF Above
<1> QED
  BY <1>1, <1>2, <1>3, <1>4

(* Every set of natural numbers with an element has a least one.           *)
LEMMA LeastNatural ==
  ASSUME NEW S \in SUBSET Nat, S # {}
  PROVE  \E m \in S : \A k \in S : m <= k
<1> DEFINE T == {1 .. n : n \in S}
<1>1. T \subseteq FiniteSubsetsOf(Nat) /\ T # {}
  <2>1. ASSUME NEW n \in S PROVE (1 .. n) \subseteq Nat /\ IsFiniteSet(1 .. n)
    BY FS_Interval
  <2> QED BY <2>1 DEF FiniteSubsetsOf
<1>2. PICK x \in T : \A y \in T : <<y, x>> \notin StrictSubsetOrdering(Nat)
  <2> HIDE DEF T
  <2> QED BY <1>1, FS_StrictSubsetOrderingWellFounded, WFMin
<1>3. PICK m \in S : x = 1 .. m
  OBVIOUS
<1>4. ASSUME NEW k \in S, k < m PROVE FALSE
  <2>1. 1 .. k \in T
    OBVIOUS
  <2>2. (1 .. k) \subseteq (1 .. m) /\ (1 .. k) # (1 .. m)
    <3>1. m \in 1 .. m /\ m \notin 1 .. k
      BY <1>4
    <3> QED BY <3>1, <1>4
  <2>3. <<1 .. k, x>> \in StrictSubsetOrdering(Nat)
    BY <2>2, <1>3 DEF StrictSubsetOrdering
  <2> QED BY <2>1, <2>3, <1>2
<1> QED BY <1>4

(* Above a path the recursion does not reach there is a topmost entry that *)
(* is no directory of the new tree, and that one is reached.               *)
LEMMA Topmost ==
  ASSUME NEW new, NEW p \in Path, ~Visited(new, p)
  PROVE  \E a \in Path : Above(a, p) /\ new[a] # Folder /\ Visited(new, a)
<1> DEFINE Off == {a \in Path : Above(a, p) /\ new[a] # Folder}
           S == {Len(a) : a \in Off}
<1>1. S \in SUBSET Nat /\ S # {}
  <2>1. S \subseteq Nat
    BY PathTyped
  <2>2. PICK a \in Path : a \in Off
    BY DEF Visited
  <2> QED BY <2>1, <2>2
<1>2. PICK m \in S : \A k \in S : m <= k
  <2> HIDE DEF S
  <2> QED BY <1>1, LeastNatural
<1>3. PICK a \in Off : Len(a) = m
  BY <1>2
<1>4. ASSUME NEW b \in Path, Above(b, a) PROVE new[b] = Folder
  <2>1. Above(b, p) /\ Len(b) < Len(a) /\ Len(b) \in Nat /\ Len(a) \in Nat
    BY <1>3, <1>4, AboveOrder, PathTyped DEF Above
  <2>2. b \in Off => m <= Len(b)
    BY <1>2
  <2> QED BY <2>1, <2>2, <1>3
<1> QED BY <1>3, <1>4 DEF Visited

(* The kinds of entries are different, and a file is its content and mode. *)
LEMMA Kinds ==
  /\ ~IsFile(Absent) /\ ~IsFile(Folder) /\ Absent # Folder
  /\ \A e \in AnyFile : IsFile(e) /\ e # Absent /\ e # Folder /\ e.exec \in BOOLEAN
  /\ \A e \in AnyFile, x \in BOOLEAN :
       File(e.blob, x) \in AnyFile /\ File(e.blob, x).blob = e.blob /\ File(e.blob, x).exec = x
  /\ \A e \in AnyFile : e = File(e.blob, e.exec)
  BY DEF IsFile, Absent, Folder, AnyFile, File

LEMMA EntryKinds ==
  /\ \A e \in Entry : IsFile(e) <=> e \in AnyFile
  /\ \A e \in Entry : e = Absent \/ e = Folder \/ e \in AnyFile
  BY Kinds DEF Entry

LEMMA VersionIsFile == Version \subseteq AnyFile
  BY PathAssumption DEF AnyFile

-----------------------------------------------------------------------------
(* A change-over half-way.  Of its calls some were made, in this try or an *)
(* earlier one.                                                            *)

(* Between two tries a path holds what it held, nothing, or what it is to  *)
(* hold, perhaps with its mode yet to be set.                              *)
Halfway(new, curr, d, p) ==
  /\ new[p] = curr[p] => d[p] = curr[p]
  /\ d[p] \in {curr[p], new[p], Absent, IF IsFile(new[p]) THEN File(new[p].blob, FALSE) ELSE Absent}

(* The calls for a path are made in their order, and one that was made in  *)
(* this try has left its mark.                                             *)
InOrder(new, curr, T, p) ==
  /\ <<p, "remove">> \in T /\ Creates(new[p], curr[p]) => <<p, "create">> \in T
  /\ <<p, "remove">> \in T /\ SetsMode(new[p], curr[p]) => <<p, "mode">> \in T
  /\ <<p, "create">> \in T /\ SetsMode(new[p], curr[p]) => <<p, "mode">> \in T
Marked(new, curr, d, T, p) ==
  /\ Removes(new[p], curr[p]) /\ <<p, "remove">> \notin T =>
       /\ (Creates(new[p], curr[p]) /\ <<p, "create">> \notin T) \/ d[p] = Absent
       /\ curr[p] = Folder => \A q \in Path : Above(p, q) => d[q] = Absent
  /\ Creates(new[p], curr[p]) /\ <<p, "create">> \notin T =>
       /\ ~(IsFile(curr[p]) /\ new[p] = Folder)
       /\ d[p] = new[p] \/ (IsFile(new[p]) /\ d[p] = File(new[p].blob, FALSE))
  /\ SetsMode(new[p], curr[p]) /\ <<p, "mode">> \notin T => d[p] = new[p]
Tried(new, curr, d, T) ==
  \A p \in Path : Visited(new, p) => InOrder(new, curr, T, p) /\ Marked(new, curr, d, T, p)

(* What a call for a path says of the path.                                *)
LEMMA CallWanted ==
  ASSUME NEW new, NEW curr, NEW T, T \subseteq Calls(new, curr),
         NEW p \in Path, NEW c \in {"remove", "create", "mode"}, <<p, c>> \in T
  PROVE  Wanted(new, curr, p, c)
  BY DEF Calls

(* Where something is visited everything above it is a directory to be,    *)
(* and visited.                                                            *)
LEMMA VisitedAbove ==
  ASSUME NEW new, NEW p \in Path, Visited(new, p), NEW a \in Path, Above(a, p)
  PROVE  new[a] = Folder /\ Visited(new, a)
  BY AboveOrder DEF Visited

(* The work tree has the directories a visited path is in once their calls *)
(* were made.                                                              *)
LEMMA DirectoriesThere ==
  ASSUME NEW new \in [Path -> Entry], NEW curr \in [Path -> Entry], NEW d, NEW T,
         Tried(new, curr, d, T), \A q \in Path : Halfway(new, curr, d, q),
         NEW p \in Path, Visited(new, p),
         \A a \in Path : Above(a, p) => <<a, "create">> \notin T
  PROVE  \A a \in Path : Above(a, p) => d[a] = Folder
<1> SUFFICES ASSUME NEW a \in Path, Above(a, p) PROVE d[a] = Folder
  OBVIOUS
<1>1. new[a] = Folder /\ Visited(new, a) /\ <<a, "create">> \notin T
  BY VisitedAbove
<1>2. Marked(new, curr, d, T, a) /\ Halfway(new, curr, d, a)
  BY <1>1 DEF Tried
<1>3. CASE curr[a] = Folder
  BY <1>1, <1>2, <1>3 DEF Halfway
<1>4. CASE curr[a] # Folder
  <2>1. Creates(new[a], curr[a])
    BY <1>1, <1>4, EntryKinds, Kinds DEF Creates, SameId, Absent, Folder, IsFile, AnyFile, File
  <2> QED BY <1>1, <1>2, <2>1, Kinds DEF Marked
<1> QED BY <1>3, <1>4

(* The next call for a path comes when the earlier ones for it, and those  *)
(* for the directories above it, were made.                                *)
LEMMA NextInOrder ==
  ASSUME NEW p \in Path, NEW c \in {"remove", "create", "mode"}, IsNext(p, c)
  PROVE  /\ \A a \in Path, x \in {"remove", "create", "mode"} : Above(a, p) => <<a, x>> \notin todo
         /\ c \in {"create", "mode"} => <<p, "remove">> \notin todo
         /\ c = "mode" => <<p, "create">> \notin todo
<1> DEFINE new == tip[job.to]
<1>1. ASSUME NEW q \in Path, NEW x \in {"remove", "create", "mode"},
             q = p \/ Above(q, p), <<q, x>> \in todo, <<q, x>> # <<p, c>>
      PROVE  q = p /\ <<c, x>> \in {<<"remove", "create">>, <<"remove", "mode">>, <<"create", "mode">>}
  <2>1. Before(new, <<p, c>>, <<q, x>>)
    BY <1>1 DEF IsNext
  <2>2. ~Above(p, q)
    BY <1>1, AboveOrder
  <2>3. ~\E i \in 1 .. Len(p) :
          /\ i <= Len(q) /\ \A j \in 1 .. i - 1 : p[j] = q[j]
          /\ p[i] # q[i]
    BY <1>1, PathTyped DEF Above
  <2> QED BY <2>1, <2>2, <2>3 DEF Before
<1> QED BY <1>1, AboveOrder

-----------------------------------------------------------------------------
(* What each call does to a change-over half-way.  The hypotheses are what *)
(* the invariants say while a command is at work.                          *)
AtWork(new, curr) ==
  /\ new \in [Path -> Entry] /\ curr \in [Path -> Entry] /\ work \in [Path -> Entry]
  /\ IsTree(new) /\ IsTree(curr) /\ IsTree(work)
  /\ todo \subseteq Calls(new, curr)
  /\ Tried(new, curr, work, todo)
  /\ \A q \in Path : Halfway(new, curr, work, q)

(* A new directory lies below directories, so only its own path changes.   *)
LEMMA CreateDirectoryStep ==
  ASSUME NEW new, NEW curr, AtWork(new, curr), NEW p \in Path, new[p] = Folder,
         IsNext(p, "create"), ~CreateThrows(p, new[p], curr[p])
  PROVE  /\ \A q \in Path : Halfway(new, curr, DirectoriesCreated(p), q)
         /\ Tried(new, curr, DirectoriesCreated(p), todo \ {<<p, "create">>})
<1> DEFINE d == DirectoriesCreated(p)
           T == todo \ {<<p, "create">>}
<1>1. Visited(new, p) /\ Creates(new[p], curr[p])
  BY CallWanted DEF AtWork, IsNext, Wanted
<1>2. curr[p] = Absent /\ work[p] \in {Absent, Folder}
  BY <1>1, EntryKinds, Kinds DEF AtWork, Creates, CreateThrows, SameId, Halfway, Absent, Folder, IsFile, AnyFile, File
<1>3. \A a \in Path : Above(a, p) => work[a] = Folder
  BY <1>1, NextInOrder, DirectoriesThere DEF AtWork
<1>4. \A q \in Path : d[q] = IF q = p THEN Folder ELSE work[q]
  BY <1>3 DEF DirectoriesCreated
<1>5. \A q \in Path : Halfway(new, curr, d, q)
  BY <1>2, <1>4, Kinds DEF AtWork, Halfway
<1>6. ASSUME NEW q \in Path, Visited(new, q) PROVE InOrder(new, curr, T, q) /\ Marked(new, curr, d, T, q)
  <2>1. InOrder(new, curr, todo, q) /\ Marked(new, curr, work, todo, q)
    BY <1>6 DEF AtWork, Tried
  <2>2. CASE q = p
    <3>1. <<p, "remove">> \notin todo
      BY NextInOrder
    <3>2. ~Removes(new[p], curr[p]) /\ ~SetsMode(new[p], curr[p]) /\ ~IsFile(curr[p])
      BY <1>2, Kinds DEF Removes, SetsMode
    <3> QED BY <2>1, <2>2, <3>1, <3>2, <1>4 DEF InOrder, Marked
  <2>3. CASE q # p
    <3>1. \A c \in {"remove", "create", "mode"} : <<q, c>> \in T <=> <<q, c>> \in todo
      BY <2>3
    <3>2. ASSUME new[q] # Folder, NEW r \in Path, Above(q, r) PROVE r # p
      BY <3>2, <1>1, VisitedAbove
    <3>3. Removes(new[q], curr[q]) /\ curr[q] = Folder => new[q] # Folder
      BY Kinds DEF Removes, SameId
    <3> QED BY <2>1, <2>3, <3>1, <3>2, <3>3, <1>4 DEF InOrder, Marked
  <2> QED BY <2>2, <2>3
<1> QED BY <1>5, <1>6 DEF Tried

(* A file is created where nothing is, or where an earlier try left it.    *)
LEMMA CreateFileStep ==
  ASSUME NEW new, NEW curr, AtWork(new, curr), NEW p \in Path, new[p] # Folder,
         IsNext(p, "create")
  PROVE  /\ \A q \in Path : Halfway(new, curr, FileCreated(p, new[p]), q)
         /\ Tried(new, curr, FileCreated(p, new[p]), todo \ {<<p, "create">>})
<1> DEFINE d == FileCreated(p, new[p])
           T == todo \ {<<p, "create">>}
           b == new[p].blob
<1>1. Visited(new, p) /\ Creates(new[p], curr[p]) /\ new[p] \in AnyFile /\ curr[p] \in Entry
  BY CallWanted, EntryKinds DEF AtWork, IsNext, Wanted, Creates
<1>2. <<p, "remove">> \notin todo /\ InOrder(new, curr, todo, p) /\ Marked(new, curr, work, todo, p)
  BY <1>1, NextInOrder DEF AtWork, Tried
<1>3. work[p] \in {Absent, new[p], File(b, FALSE)}
  <2>1. CASE curr[p] = Absent
    BY <2>1, <1>1, Kinds DEF AtWork, Halfway
  <2>2. CASE curr[p] # Absent
    <3>1. Removes(new[p], curr[p])
      BY <2>2, <1>1 DEF Creates, Removes
    <3> QED BY <3>1, <1>2 DEF Marked, IsNext
  <2> QED BY <2>1, <2>2
<1>4. \A a \in Path : Above(a, p) => work[a] = Folder
  BY <1>1, NextInOrder, DirectoriesThere DEF AtWork
<1>5. \A q \in Path : q # p => d[q] = work[q]
  BY DEF FileCreated, AtWork
<1>6. d[p] \in {new[p], File(b, FALSE)}
  <2>1. d[p] = File(b, work[p] # Absent /\ work[p].exec)
    BY <1>1, <1>3, <1>4, Kinds DEF FileCreated, OnDirectory, AtWork
  <2>2. (work[p] # Absent /\ work[p].exec) \in {FALSE, new[p].exec}
    BY <1>1, <1>3, Kinds
  <2> QED BY <2>1, <2>2, <1>1, Kinds
<1>7. ASSUME NEW q \in Path PROVE Halfway(new, curr, d, q)
  <2>1. CASE q = p
    BY <2>1, <1>6, <1>1, Kinds DEF Halfway, Creates, SameId
  <2>2. CASE q # p
    BY <2>2, <1>5 DEF AtWork, Halfway
  <2> QED BY <2>1, <2>2
<1>8. ASSUME NEW q \in Path, Visited(new, q) PROVE InOrder(new, curr, T, q) /\ Marked(new, curr, d, T, q)
  <2>1. InOrder(new, curr, todo, q) /\ Marked(new, curr, work, todo, q)
    BY <1>8 DEF AtWork, Tried
  <2>2. CASE q = p
    <3>1. curr[p] = Folder => \A r \in Path : Above(p, r) => d[r] = work[r]
      BY <1>5, AboveOrder
    <3>2. SetsMode(new[p], curr[p]) => <<p, "mode">> \in T
      BY <1>2 DEF InOrder, IsNext
    <3>3. curr[p] = Folder => \A r \in Path : Above(p, r) => d[r] = Absent
      <4>1. curr[p] = Folder => Removes(new[p], curr[p])
        BY <1>1, Kinds DEF Removes, SameId, IsFile, Folder
      <4> QED BY <4>1, <3>1, <1>2 DEF Marked
    <3> QED BY <2>1, <2>2, <3>2, <3>3, <1>1, <1>2, <1>6, Kinds DEF InOrder, Marked
  <2>3. CASE q # p
    <3>1. \A c \in {"remove", "create", "mode"} : <<q, c>> \in T <=> <<q, c>> \in todo
      BY <2>3
    <3>2. ASSUME new[q] # Folder, NEW r \in Path, Above(q, r) PROVE r # p
      BY <3>2, <1>1, VisitedAbove
    <3>3. Removes(new[q], curr[q]) /\ curr[q] = Folder => new[q] # Folder
      BY Kinds DEF Removes, SameId
    <3> QED BY <2>1, <2>3, <3>1, <3>2, <3>3, <1>5 DEF InOrder, Marked
  <2> QED BY <2>2, <2>3
<1> QED BY <1>7, <1>8 DEF Tried

(* What is removed goes with all that is below it, where there is          *)
(* anything: below a file of the old tree the call would have thrown.      *)
LEMMA RemoveStep ==
  ASSUME NEW new, NEW curr, AtWork(new, curr), NEW p \in Path,
         IsNext(p, "remove"), ~RemoveThrows(p, curr[p])
  PROVE  /\ \A q \in Path : Halfway(new, curr, Removed(p), q)
         /\ Tried(new, curr, Removed(p), todo \ {<<p, "remove">>})
<1> DEFINE d == Removed(p)
           T == todo \ {<<p, "remove">>}
<1>1. Visited(new, p) /\ Removes(new[p], curr[p])
  BY CallWanted DEF AtWork, IsNext, Wanted
<1>2. InOrder(new, curr, todo, p) /\ <<p, "remove">> \in todo
  BY <1>1 DEF AtWork, Tried, IsNext
<1>3. d[p] = Absent /\ \A q \in Path : d[q] = work[q] \/ ((q = p \/ Above(p, q)) /\ d[q] = Absent)
  BY DEF Removed
<1>4. CASE curr[p] = Folder
  <2>1. new[p] # Folder
    BY <1>1, <1>4, Kinds DEF Removes, SameId
  <2>2. ASSUME NEW q \in Path, q = p \/ Above(p, q) PROVE d[q] = Absent /\ (q # p => new[q] = Absent /\ ~Visited(new, q))
    BY <2>1, <2>2 DEF Removed, AtWork, IsTree, Visited
  <2>3. ASSUME NEW q \in Path PROVE Halfway(new, curr, d, q)
    <3>1. CASE q = p
      BY <1>3, <2>1, <3>1, <1>4 DEF Halfway
    <3>2. CASE q # p /\ Above(p, q)
      BY <2>2, <3>2 DEF Halfway
    <3>3. CASE q # p /\ ~Above(p, q)
      BY <1>3, <3>3 DEF Halfway, AtWork
    <3> QED BY <3>1, <3>2, <3>3
  <2>4. ASSUME NEW q \in Path, Visited(new, q) PROVE InOrder(new, curr, T, q) /\ Marked(new, curr, d, T, q)
    <3>1. InOrder(new, curr, todo, q) /\ Marked(new, curr, work, todo, q)
      BY <2>4 DEF AtWork, Tried
    <3>2. CASE q = p
      BY <3>1, <3>2, <1>1, <1>2, <1>3, <2>2 DEF InOrder, Marked
    <3>3. CASE q # p
      <4>1. \A c \in {"remove", "create", "mode"} : <<q, c>> \in T <=> <<q, c>> \in todo
        BY <3>3
      <4>2. d[q] = work[q]
        BY <2>2, <2>4, <3>3, <1>3
      <4>3. \A r \in Path : work[r] = Absent => d[r] = Absent
        BY <1>3
      <4> QED BY <3>1, <3>3, <4>1, <4>2, <4>3 DEF InOrder, Marked
    <3> QED BY <3>2, <3>3
  <2> QED BY <2>3, <2>4 DEF Tried
<1>5. CASE curr[p] # Folder
  <2>1. \A q \in Path : q # p => d[q] = work[q]
    <3>1. IsFile(curr[p])
      BY <1>1, <1>5, EntryKinds DEF AtWork, Removes
    <3> QED BY <3>1 DEF RemoveThrows, Holds, Removed
  <2>2. ASSUME NEW q \in Path PROVE Halfway(new, curr, d, q)
    <3>1. CASE q = p
      BY <3>1, <1>1, <1>3, Kinds DEF Halfway, Removes, SameId
    <3>2. CASE q # p
      BY <2>1, <3>2 DEF Halfway, AtWork
    <3> QED BY <3>1, <3>2
  <2>3. ASSUME NEW q \in Path, Visited(new, q) PROVE InOrder(new, curr, T, q) /\ Marked(new, curr, d, T, q)
    <3>1. InOrder(new, curr, todo, q) /\ Marked(new, curr, work, todo, q)
      BY <2>3 DEF AtWork, Tried
    <3>2. CASE q = p
      BY <3>1, <3>2, <1>1, <1>2, <1>3, <1>5 DEF InOrder, Marked
    <3>3. CASE q # p
      <4>1. \A c \in {"remove", "create", "mode"} : <<q, c>> \in T <=> <<q, c>> \in todo
        BY <3>3
      <4>2. \A r \in Path : work[r] = Absent => d[r] = Absent
        BY <1>3
      <4> QED BY <3>1, <3>3, <4>1, <4>2, <2>1 DEF InOrder, Marked
    <3> QED BY <3>2, <3>3
  <2> QED BY <2>2, <2>3 DEF Tried
<1> QED BY <1>4, <1>5

(* Setting the mode is what a file lacks by then.                          *)
LEMMA SetModeStep ==
  ASSUME NEW new, NEW curr, AtWork(new, curr), NEW p \in Path,
         IsNext(p, "mode"), work[p] # Absent
  PROVE  /\ \A q \in Path : Halfway(new, curr, ModeSet(p, new[p]), q)
         /\ Tried(new, curr, ModeSet(p, new[p]), todo \ {<<p, "mode">>})
<1> DEFINE d == ModeSet(p, new[p])
           T == todo \ {<<p, "mode">>}
           b == new[p].blob
<1>1. Visited(new, p) /\ SetsMode(new[p], curr[p]) /\ new[p] \in AnyFile /\ curr[p] \in Entry
  BY CallWanted, EntryKinds DEF AtWork, IsNext, Wanted, SetsMode
<1>2. /\ InOrder(new, curr, todo, p) /\ Marked(new, curr, work, todo, p) /\ Halfway(new, curr, work, p)
      /\ <<p, "remove">> \notin todo /\ <<p, "create">> \notin todo
  BY <1>1, NextInOrder DEF AtWork, Tried
<1>3. work[p] \in {new[p], File(b, FALSE), File(b, TRUE)}
  <2>1. CASE Creates(new[p], curr[p])
    BY <2>1, <1>2 DEF Marked
  <2>2. CASE ~Creates(new[p], curr[p])
    <3>1. curr[p] \in AnyFile /\ curr[p].blob = b
      <4>1. SameId(new[p], curr[p]) /\ IsFile(new[p])
        BY <2>2, <1>1, Kinds DEF Creates
      <4>2. IsFile(curr[p])
        BY <4>1 DEF SameId, IsFile
      <4> QED BY <4>1, <4>2, <1>1, EntryKinds DEF SameId
    <3>2. curr[p] \in {File(b, FALSE), File(b, TRUE)}
      BY <3>1, Kinds
    <3> QED BY <3>2, <1>1, <1>2, Kinds DEF Halfway
  <2> QED BY <2>1, <2>2
<1>4. d[p] = new[p] /\ \A q \in Path : q # p => d[q] = work[q]
  <2>1. work[p] \in AnyFile /\ work[p].blob = b
    BY <1>1, <1>3, Kinds
  <2> QED BY <2>1, <1>1, Kinds DEF ModeSet, AtWork
<1>5. ASSUME NEW q \in Path PROVE Halfway(new, curr, d, q)
  <2>1. CASE q = p
    BY <2>1, <1>4, <1>1 DEF Halfway
  <2>2. CASE q # p
    BY <2>2, <1>4 DEF AtWork, Halfway
  <2> QED BY <2>1, <2>2
<1>6. ASSUME NEW q \in Path, Visited(new, q) PROVE InOrder(new, curr, T, q) /\ Marked(new, curr, d, T, q)
  <2>1. InOrder(new, curr, todo, q) /\ Marked(new, curr, work, todo, q)
    BY <1>6 DEF AtWork, Tried
  <2>2. CASE q = p
    <3>1. \A r \in Path : Above(p, r) => d[r] = work[r]
      BY <1>4, AboveOrder
    <3>2. ~(Removes(new[p], curr[p]) /\ ~Creates(new[p], curr[p]))
      BY <1>1, Kinds DEF Removes, Creates
    <3> QED BY <2>1, <2>2, <3>1, <3>2, <1>1, <1>2, <1>4 DEF InOrder, Marked
  <2>3. CASE q # p
    <3>1. \A c \in {"remove", "create", "mode"} : <<q, c>> \in T <=> <<q, c>> \in todo
      BY <2>3
    <3>2. ASSUME new[q] # Folder, NEW r \in Path, Above(q, r) PROVE r # p
      BY <3>2, <1>1, VisitedAbove
    <3>3. Removes(new[q], curr[q]) /\ curr[q] = Folder => new[q] # Folder
      BY Kinds DEF Removes, SameId
    <3> QED BY <2>1, <2>3, <3>1, <3>2, <3>3, <1>4 DEF InOrder, Marked
  <2> QED BY <2>2, <2>3
<1> QED BY <1>5, <1>6 DEF Tried

(* When every call was made the work tree is the target's.                 *)
LEMMA NothingLeft ==
  ASSUME NEW new, NEW curr, AtWork(new, curr), todo = {}, NEW p \in Path
  PROVE  \/ work[p] = new[p]
         \/ LosesBit(new[p], curr[p]) /\ work[p] = File(new[p].blob, FALSE)
<1>1. Halfway(new, curr, work, p) /\ new[p] \in Entry /\ curr[p] \in Entry
  BY DEF AtWork
<1>2. CASE Visited(new, p)
  <2>1. Marked(new, curr, work, todo, p)
    BY <1>2 DEF AtWork, Tried
  <2>2. CASE new[p] = curr[p]
    BY <1>1, <2>2 DEF Halfway
  <2>3. CASE new[p] # curr[p] /\ new[p] = Absent
    BY <2>1, <2>3 DEF Marked, Removes, Creates
  <2>4. CASE new[p] # curr[p] /\ new[p] = Folder
    <3>1. Creates(new[p], curr[p])
      BY <1>1, <2>4, EntryKinds, Kinds DEF Creates, SameId, Absent, Folder, IsFile, AnyFile, File
    <3> QED BY <2>1, <2>4, <3>1, Kinds DEF Marked
  <2>5. CASE new[p] # curr[p] /\ new[p] \in AnyFile
    <3>1. CASE SetsMode(new[p], curr[p])
      BY <2>1, <3>1 DEF Marked
    <3>2. CASE ~SetsMode(new[p], curr[p])
      <4>1. curr[p] \in AnyFile /\ curr[p].exec = new[p].exec /\ curr[p].blob # new[p].blob
        <5>1. SameMode(new[p], curr[p]) /\ IsFile(new[p])
          BY <2>5, <3>2, Kinds DEF SetsMode
        <5>2. IsFile(curr[p])
          BY <5>1 DEF SameMode, IsFile
        <5>3. curr[p] \in AnyFile /\ curr[p].exec = new[p].exec
          BY <5>1, <5>2, <1>1, EntryKinds DEF SameMode
        <5> QED BY <2>5, <5>3, Kinds
      <4>2. Creates(new[p], curr[p])
        BY <2>5, <4>1, Kinds DEF Creates, SameId
      <4>3. work[p] = new[p] \/ work[p] = File(new[p].blob, FALSE)
        BY <2>1, <4>2 DEF Marked
      <4> QED BY <2>5, <4>1, <4>3, Kinds DEF LosesBit
    <3> QED BY <3>1, <3>2
  <2> QED BY <1>1, <2>2, <2>3, <2>4, <2>5, EntryKinds
<1>3. CASE ~Visited(new, p)
  <2>1. PICK a \in Path : Above(a, p) /\ new[a] # Folder /\ Visited(new, a)
    BY <1>3, Topmost
  <2>2. new[p] = Absent
    BY <2>1 DEF AtWork, IsTree
  <2>3. CASE curr[a] = Folder
    <3>1. Removes(new[a], curr[a])
      BY <2>1, <2>3, EntryKinds, Kinds DEF AtWork, Removes, SameId, IsFile, Folder
    <3>2. Marked(new, curr, work, todo, a)
      BY <2>1 DEF AtWork, Tried
    <3> QED BY <2>1, <2>2, <2>3, <3>1, <3>2 DEF Marked
  <2>4. CASE curr[a] # Folder
    <3>1. curr[p] = Absent
      BY <2>1, <2>4 DEF AtWork, IsTree
    <3> QED BY <2>2, <3>1, <1>1 DEF Halfway
  <2> QED BY <2>3, <2>4
<1> QED BY <1>2, <1>3

-----------------------------------------------------------------------------
(* What every call and every edit leaves on disk is a tree again.          *)
LEMMA PlacedTree ==
  ASSUME TypeOK, NEW p \in Path, NEW e \in Entry
  PROVE  Placed(p, e) \in [Path -> Entry] /\ IsTree(Placed(p, e))
<1>1. Placed(p, e) \in [Path -> Entry]
  BY DEF TypeOK, Placed, Entry
<1>2. ASSUME NEW x \in Path, NEW y \in Path, Above(x, y), Placed(p, e)[y] # Absent
      PROVE  Placed(p, e)[x] = Folder
  <2>1. CASE y = p \/ Above(y, p)
    BY <1>2, <2>1, AboveOrder DEF Placed
  <2>2. CASE y # p /\ ~Above(y, p)
    <3>1. ~Above(p, y) /\ work[y] # Absent
      BY <1>2, <2>2, Kinds DEF Placed
    <3>2. x # p /\ ~Above(p, x) /\ work[x] = Folder
      BY <1>2, <3>1, AboveOrder DEF TypeOK, IsTree
    <3> QED BY <3>2 DEF Placed
  <2> QED BY <2>1, <2>2
<1> QED BY <1>1, <1>2 DEF IsTree

LEMMA RemovedTree ==
  ASSUME TypeOK, NEW p \in Path
  PROVE  Removed(p) \in [Path -> Entry] /\ IsTree(Removed(p))
<1>1. Removed(p) \in [Path -> Entry]
  BY DEF TypeOK, Removed, Entry
<1>2. ASSUME NEW x \in Path, NEW y \in Path, Above(x, y), Removed(p)[y] # Absent
      PROVE  Removed(p)[x] = Folder
  <2>1. y # p /\ ~Above(p, y) /\ work[y] # Absent
    BY <1>2 DEF Removed
  <2>2. x # p /\ ~Above(p, x) /\ work[x] = Folder
    BY <1>2, <2>1, AboveOrder DEF TypeOK, IsTree
  <2> QED BY <2>2 DEF Removed
<1> QED BY <1>1, <1>2 DEF IsTree

LEMMA DirectoriesCreatedTree ==
  ASSUME TypeOK, NEW p \in Path
  PROVE  DirectoriesCreated(p) \in [Path -> Entry] /\ IsTree(DirectoriesCreated(p))
<1>1. DirectoriesCreated(p) \in [Path -> Entry]
  BY DEF TypeOK, DirectoriesCreated, Entry
<1>2. ASSUME NEW x \in Path, NEW y \in Path, Above(x, y), DirectoriesCreated(p)[y] # Absent
      PROVE  DirectoriesCreated(p)[x] = Folder
  BY <1>2, AboveOrder DEF DirectoriesCreated, TypeOK, IsTree
<1> QED BY <1>1, <1>2 DEF IsTree

LEMMA FileCreatedTree ==
  ASSUME TypeOK, NEW p \in Path, NEW e \in AnyFile
  PROVE  FileCreated(p, e) \in [Path -> Entry] /\ IsTree(FileCreated(p, e))
<1>1. CASE work[p] = Folder \/ ~OnDirectory(p)
  BY <1>1 DEF FileCreated, TypeOK
<1>2. CASE work[p] # Folder /\ OnDirectory(p)
  <2> DEFINE f == File(e.blob, work[p] # Absent /\ work[p].exec)
  <2>1. FileCreated(p, e) = [work EXCEPT ![p] = f]
    BY <1>2 DEF FileCreated
  <2>2. f \in Entry
    <3>1. (work[p] # Absent /\ work[p].exec) \in BOOLEAN
      BY <1>2, EntryKinds, Kinds DEF TypeOK
    <3> QED BY <3>1, Kinds DEF Entry
  <2>3. FileCreated(p, e) \in [Path -> Entry]
    BY <2>1, <2>2 DEF TypeOK
  <2>4. ASSUME NEW x \in Path, NEW y \in Path, Above(x, y), FileCreated(p, e)[y] # Absent
        PROVE  FileCreated(p, e)[x] = Folder
    <3> HIDE DEF f
    <3>1. CASE y = p
      BY <2>1, <2>4, <3>1, <1>2, AboveOrder DEF OnDirectory, TypeOK
    <3>2. CASE y # p
      BY <2>1, <2>4, <3>2, <1>2 DEF TypeOK, IsTree
    <3> QED BY <3>1, <3>2
  <2> QED BY <2>3, <2>4 DEF IsTree
<1> QED BY <1>1, <1>2

LEMMA ModeSetTree ==
  ASSUME TypeOK, NEW p \in Path, NEW e \in AnyFile
  PROVE  ModeSet(p, e) \in [Path -> Entry] /\ IsTree(ModeSet(p, e))
<1>1. CASE ~IsFile(work[p])
  BY <1>1 DEF ModeSet, TypeOK
<1>2. CASE IsFile(work[p])
  <2> DEFINE f == File(work[p].blob, e.exec)
  <2>1. ModeSet(p, e) = [work EXCEPT ![p] = f]
    BY <1>2 DEF ModeSet
  <2>2. f \in AnyFile /\ f \in Entry
    BY <1>2, EntryKinds, Kinds DEF TypeOK, Entry
  <2>3. work[p] # Folder /\ work[p] # Absent
    BY <1>2, Kinds
  <2> HIDE DEF f
  <2>4. ModeSet(p, e) \in [Path -> Entry]
    BY <2>1, <2>2 DEF TypeOK
  <2>5. ASSUME NEW x \in Path, NEW y \in Path, Above(x, y), ModeSet(p, e)[y] # Absent
        PROVE  ModeSet(p, e)[x] = Folder
    BY <2>1, <2>3, <2>5 DEF TypeOK, IsTree
  <2> QED BY <2>4, <2>5 DEF IsTree
<1> QED BY <1>1, <1>2

(* What write_tree makes of an index without collisions.                   *)
TreeWithFiles(t) ==
  /\ IsTree(t)
  /\ \A p \in Path : t[p] = Folder => \E q \in Path : Above(p, q) /\ IsFile(t[q])

LEMMA WriteTreeTyped ==
  ASSUME TypeOK
  PROVE  WriteTree \in [Path -> Entry]
  BY DEF TypeOK, WriteTree, Entry

LEMMA WriteTreeIsTree ==
  ASSUME TypeOK, ~Collision
  PROVE  TreeWithFiles(WriteTree)
<1>1. \A p \in Path : index[p] = Absent \/ (IsFile(index[p]) /\ index[p] # Folder)
  BY Kinds DEF TypeOK
<1>2. ASSUME NEW x \in Path, NEW y \in Path, Above(x, y), WriteTree[y] # Absent
      PROVE  WriteTree[x] = Folder
  <2>1. StagedBelow(x)
    BY <1>2, AboveOrder DEF WriteTree, StagedBelow
  <2> QED BY <2>1 DEF Collision, WriteTree
<1>3. ASSUME NEW x \in Path, WriteTree[x] = Folder
      PROVE  \E y \in Path : Above(x, y) /\ IsFile(WriteTree[y])
  BY <1>1, <1>3, Kinds DEF WriteTree, StagedBelow
<1> QED BY <1>2, <1>3 DEF TreeWithFiles, IsTree

(* The index a tree is loaded into gives the tree back.                    *)
LEMMA LoadedWritesBack ==
  ASSUME NEW t \in [Path -> Entry], TreeWithFiles(t), index = FromTree(t)
  PROVE  ~Collision /\ WriteTree = t
<1>1. \A p \in Path : index[p] = IF IsFile(t[p]) THEN t[p] ELSE Absent
  BY DEF FromTree
<1>2. \A p \in Path : index[p] # Absent => index[p] = t[p] /\ IsFile(t[p])
  BY <1>1
<1>3. \A p \in Path : StagedBelow(p) => t[p] = Folder
  BY <1>2, Kinds DEF StagedBelow, TreeWithFiles, IsTree
<1>4. ~Collision
  BY <1>2, <1>3, Kinds DEF Collision
<1>5. ASSUME NEW p \in Path PROVE WriteTree[p] = t[p]
  <2>1. CASE IsFile(t[p])
    BY <2>1, <1>1, Kinds DEF WriteTree
  <2>2. CASE t[p] = Folder
    <3>1. StagedBelow(p)
      BY <2>2, <1>1, Kinds DEF TreeWithFiles, StagedBelow
    <3> QED BY <3>1, <2>2, <1>1, Kinds DEF WriteTree
  <2>3. CASE t[p] = Absent
    BY <2>3, <1>1, <1>3, Kinds DEF WriteTree
  <2> QED BY <2>1, <2>2, <2>3, EntryKinds
<1> QED BY <1>4, <1>5 DEF WriteTree

-----------------------------------------------------------------------------
(* The inductive invariant.                                                *)
JobOK ==
  /\ job = Idle => todo = {}
  /\ job # Idle => todo \subseteq Calls(tip[job.to], tip[on]) /\ outcome = <<"none", "ok">>
  /\ job.command = "advance" => todo = {} /\ index = FromTree(tip[job.to])
Progress ==
  \A b \in attempt :
    /\ \A p \in Path : Halfway(tip[b], tip[on], work, p)
    /\ job # Idle => job.to = b /\ Tried(tip[b], tip[on], work, todo)
Inv == TypeOK /\ TreesAreTrees /\ JobOK /\ MergeLoadsIndex /\ Progress

LEMMA JobKinds ==
  ASSUME TypeOK
  PROVE  /\ Idle.command = "none"
         /\ job # Idle => job.to \in Branch /\ job.command \in {"checkout", "merge", "advance"}
         /\ job.command \in {"checkout", "merge", "advance"} => job # Idle
  BY DEF TypeOK, Idle

LEMMA CallsTyped == \A new, curr : Calls(new, curr) \subseteq Path \X {"remove", "create", "mode"}
  BY DEF Calls

(* The calls of a job are for entries of its trees.                        *)
LEMMA NextCall ==
  ASSUME Inv, NEW p \in Path, NEW c \in {"remove", "create", "mode"}, IsNext(p, c)
  PROVE  /\ job # Idle /\ job.to \in Branch /\ on \in Branch
         /\ job.command # "advance"
         /\ Wanted(tip[job.to], tip[on], p, c)
         /\ tip[job.to][p] \in Entry /\ tip[on][p] \in Entry
<1>1. <<p, c>> \in todo /\ job # Idle /\ job.command # "advance"
  BY DEF Inv, JobOK, IsNext
<1>2. Wanted(tip[job.to], tip[on], p, c)
  BY <1>1, CallWanted DEF Inv, JobOK
<1> QED BY <1>1, <1>2, JobKinds DEF Inv, TypeOK

LEMMA TypeStep ==
  ASSUME Inv, [Next]_vars
  PROVE  TypeOK'
<1> USE DEF TypeOK, Inv
<1>0. MaxSteps \in Nat
  BY PathAssumption
<1>1. ASSUME NEW p \in Path, NEW f \in Version \cup {Absent}, Edit(p, f) PROVE TypeOK'
  <2>1. f \in Entry
    BY VersionIsFile DEF Entry
  <2>2. work' = Placed(p, f)
    BY <1>1 DEF Edit
  <2>3. work' \in [Path -> Entry] /\ IsTree(work')
    BY <2>1, <2>2, PlacedTree
  <2> QED BY <1>0, <1>1, <2>3 DEF Edit, Count
<1>2. ASSUME NEW p \in Path, EditDirectory(p) PROVE TypeOK'
  <2> DEFINE e == IF work[p] = Folder /\ ~Holds(p) THEN Absent ELSE Folder
  <2>1. e \in Entry
    BY DEF Entry
  <2>2. work' = Placed(p, e)
    BY <1>2 DEF EditDirectory
  <2> HIDE DEF e
  <2>3. work' \in [Path -> Entry] /\ IsTree(work')
    BY <2>1, <2>2, PlacedTree
  <2> QED BY <1>0, <1>2, <2>3 DEF EditDirectory, Count
<1>3. ASSUME NEW S \in SUBSET Path, Add(S) PROVE TypeOK'
  BY <1>0, <1>3, EntryKinds DEF Add, Count
<1>4. CASE Commit
  BY <1>0, <1>4, WriteTreeTyped DEF Commit, Count
<1>5. ASSUME NEW b \in Branch, NEW c \in {"checkout", "merge"}, Begin(c, b) PROVE TypeOK'
  BY <1>0, <1>5, CallsTyped DEF Begin, Count
<1>6. ASSUME NEW p \in Path, Remove(p) PROVE TypeOK'
  BY <1>6, RemovedTree DEF Remove, Returns
<1>7. ASSUME NEW p \in Path, Create(p) PROVE TypeOK'
  <2>1. IsNext(p, "create")
    BY <1>7 DEF Create
  <2>2. Creates(tip[job.to][p], tip[on][p]) /\ tip[job.to][p] \in Entry
    BY <2>1, NextCall DEF Wanted
  <2>3. work' \in [Path -> Entry] /\ IsTree(work)'
    <3>1. CASE tip[job.to][p] = Folder
      BY <3>1, <1>7, DirectoriesCreatedTree DEF Create
    <3>2. CASE tip[job.to][p] # Folder
      <4>1. tip[job.to][p] \in AnyFile
        BY <3>2, <2>2, EntryKinds DEF Creates
      <4> QED BY <3>2, <4>1, <1>7, FileCreatedTree DEF Create
    <3> QED BY <3>1, <3>2
  <2> QED BY <2>3, <1>7 DEF Create, Returns
<1>8. ASSUME NEW p \in Path, SetMode(p) PROVE TypeOK'
  <2>1. IsNext(p, "mode")
    BY <1>8 DEF SetMode
  <2>2. tip[job.to][p] \in AnyFile
    BY <2>1, NextCall, EntryKinds DEF Wanted, SetsMode
  <2> QED BY <2>2, <1>8, ModeSetTree DEF SetMode, Returns
<1>9. CASE Throw
  BY <1>9, NextCall, JobKinds DEF Throw, Ends
<1>10. CASE Interrupt
  BY <1>10, JobKinds DEF Interrupt, Ends
<1>11. CASE FinishCheckout
  BY <1>11, JobKinds DEF FinishCheckout, Ends
<1>12. CASE LoadIndex
  BY <1>12, JobKinds, EntryKinds DEF LoadIndex, FromTree
<1>13. CASE FinishMerge
  BY <1>13, JobKinds DEF FinishMerge, Ends
<1>14. CASE UNCHANGED vars
  BY <1>14 DEF vars
<1> QED
  BY <1>1, <1>2, <1>3, <1>4, <1>5, <1>6, <1>7, <1>8, <1>9, <1>10, <1>11, <1>12, <1>13, <1>14 DEF Next

(* What the steps of instantiate_tree and of the user leave alone.         *)
LEMMA CallFrame ==
  ASSUME NEW p \in Path, Remove(p) \/ Create(p) \/ SetMode(p)
  PROVE  /\ \E c \in {"remove", "create", "mode"} : IsNext(p, c) /\ todo' = todo \ {<<p, c>>}
         /\ UNCHANGED <<index, tip, on, job, outcome, attempt>>
  BY DEF Remove, Create, SetMode, Returns

LEMMA TreesStep ==
  ASSUME Inv, [Next]_vars
  PROVE  TreesAreTrees'
<1>1. CASE Commit
  <2>1. TreeWithFiles(WriteTree) \/ tip' = tip
    BY <1>1, WriteTreeIsTree DEF Commit, Inv
  <2> QED BY <1>1, <2>1 DEF Commit, Inv, TypeOK, TreesAreTrees, TreeWithFiles
<1>2. CASE FinishMerge
  BY <1>2, JobKinds DEF FinishMerge, Inv, TypeOK, TreesAreTrees
<1>3. CASE UNCHANGED tip
  BY <1>3 DEF Inv, TreesAreTrees
<1>4. ~Commit /\ ~FinishMerge => UNCHANGED tip
  BY CallFrame DEF Next, vars, Edit, EditDirectory, Add, Begin, Throw, Interrupt, FinishCheckout, LoadIndex
<1> QED BY <1>1, <1>2, <1>3, <1>4

LEMMA JobStep ==
  ASSUME Inv, [Next]_vars
  PROVE  JobOK'
<1> USE DEF Inv
<1>1. ASSUME NEW c \in {"checkout", "merge"}, NEW b \in Branch, Begin(c, b) PROVE JobOK'
  BY <1>1 DEF Begin, JobOK, Idle
<1>2. ASSUME NEW p \in Path, Remove(p) \/ Create(p) \/ SetMode(p) PROVE JobOK'
  <2>1. PICK c \in {"remove", "create", "mode"} : IsNext(p, c) /\ todo' = todo \ {<<p, c>>}
    BY <1>2, CallFrame
  <2>2. UNCHANGED <<index, tip, on, job, outcome, attempt>>
    BY <1>2, CallFrame
  <2> QED BY <2>1, <2>2, NextCall DEF JobOK
<1>3. CASE LoadIndex
  <2>1. job # Idle /\ job'.to = job.to
    BY <1>3, JobKinds DEF LoadIndex, TypeOK
  <2> QED BY <1>3, <2>1 DEF LoadIndex, JobOK, FromTree
<1>4. ASSUME job' = Idle, todo' = {} PROVE JobOK'
  BY <1>4 DEF JobOK, Idle
<1>5. CASE Throw \/ Interrupt \/ FinishCheckout \/ FinishMerge
  BY <1>4, <1>5 DEF Throw, Interrupt, FinishCheckout, FinishMerge, Ends
<1>6. ASSUME Count, UNCHANGED <<job, todo>> PROVE JobOK'
  BY <1>6, <1>4 DEF Count, JobOK
<1>7. CASE Commit \/ \E p \in Path, f \in Version \cup {Absent} : Edit(p, f)
  BY <1>6, <1>7 DEF Commit, Edit
<1>8. CASE (\E p \in Path : EditDirectory(p)) \/ \E S \in SUBSET Path : Add(S)
  BY <1>6, <1>8 DEF EditDirectory, Add
<1>9. CASE UNCHANGED vars
  BY <1>9 DEF vars, JobOK, FromTree
<1> QED BY <1>1, <1>2, <1>3, <1>5, <1>7, <1>8, <1>9 DEF Next

LEMMA LoadStep ==
  ASSUME Inv, [Next]_vars
  PROVE  MergeLoadsIndex'
<1> USE DEF Inv
<1>1. CASE FinishMerge
  <2>1. job.to \in Branch /\ index = FromTree(tip[job.to]) /\ UNCHANGED index /\ tip'[on'] = tip[job.to]
    BY <1>1, JobKinds DEF FinishMerge, JobOK, TypeOK
  <2>2. ~Collision /\ WriteTree = tip[job.to]
    BY <2>1, LoadedWritesBack DEF TypeOK, TreesAreTrees, TreeWithFiles
  <2>3. Collision' = Collision /\ WriteTree' = WriteTree
    BY <2>1 DEF Collision, WriteTree, StagedBelow
  <2> QED BY <2>1, <2>2, <2>3 DEF MergeLoadsIndex
<1>2. ASSUME outcome'[1] # "merge" \/ outcome'[2] # "ok" PROVE MergeLoadsIndex'
  BY <1>2 DEF MergeLoadsIndex
<1>3. ASSUME UNCHANGED <<index, tip, on, outcome>> PROVE MergeLoadsIndex'
  BY <1>3 DEF MergeLoadsIndex, Collision, WriteTree, StagedBelow
<1>4. ASSUME NEW p \in Path, Remove(p) \/ Create(p) \/ SetMode(p) PROVE MergeLoadsIndex'
  BY <1>3, <1>4, CallFrame
<1>5. CASE LoadIndex
  BY <1>2, <1>5, JobKinds DEF LoadIndex, JobOK
<1>6. CASE Commit \/ (\E S \in SUBSET Path : Add(S)) \/ \E b \in Branch : Begin("checkout", b) \/ Begin("merge", b)
  BY <1>2, <1>6 DEF Commit, Add, Begin
<1>7. CASE Throw \/ Interrupt \/ FinishCheckout
  BY <1>2, <1>7 DEF Throw, Interrupt, FinishCheckout, Ends
<1>8. CASE (\E p \in Path : EditDirectory(p)) \/ \E p \in Path, f \in Version \cup {Absent} : Edit(p, f)
  BY <1>3, <1>8 DEF EditDirectory, Edit
<1>9. CASE UNCHANGED vars
  BY <1>3, <1>9 DEF vars
<1> QED BY <1>1, <1>4, <1>5, <1>6, <1>7, <1>8, <1>9 DEF Next

(* A job that was begun on a clean work tree is somewhere on its way.      *)
LEMMA OnTheWay ==
  ASSUME Inv, job # Idle, attempt # {}
  PROVE  attempt = {job.to} /\ AtWork(tip[job.to], tip[on])
<1>1. attempt = {job.to}
  BY DEF Inv, Progress
<1> QED BY <1>1, JobKinds DEF Inv, Progress, AtWork, TypeOK, JobOK, TreesAreTrees

(* Progress in the next state, said of what the variables become.          *)
LEMMA ProgressAfter ==
  ASSUME NEW t, NEW o, NEW w, NEW T, tip' = t, on' = o, work' = w, todo' = T,
         \A b \in attempt' : \A p \in Path : Halfway(t[b], t[o], w, p),
         \A b \in attempt' : job' # Idle => job'.to = b /\ Tried(t[b], t[o], w, T)
  PROVE  Progress'
  BY DEF Progress, Halfway, Tried, InOrder, Marked

LEMMA ProgressStep ==
  ASSUME Inv, [Next]_vars
  PROVE  Progress'
<1> USE DEF Inv
<1>1. ASSUME NEW c \in {"checkout", "merge"}, NEW b \in Branch, Begin(c, b) PROVE Progress'
  <2> SUFFICES ASSUME attempt' = {b}
               PROVE  /\ \A p \in Path : Halfway(tip[b], tip[on], work, p)
                      /\ Tried(tip[b], tip[on], work, Calls(tip[b], tip[on]))
    <3>1. attempt' = {b} \/ attempt' = {}
      BY <1>1 DEF Begin
    <3>2. UNCHANGED <<tip, on, work>> /\ todo' = Calls(tip[b], tip[on]) /\ job'.to = b
      BY <1>1 DEF Begin
    <3>3. CASE attempt' = {b}
      BY <3>2, <3>3, ProgressAfter
    <3>4. CASE attempt' = {}
      BY <3>4 DEF Progress
    <3> QED BY <3>1, <3>3, <3>4
  <2>1. ASSUME NEW p \in Path PROVE Halfway(tip[b], tip[on], work, p)
    <3>1. CASE work = tip[on]
      BY <3>1 DEF Halfway
    <3>2. CASE b \in attempt
      BY <3>2 DEF Progress
    <3> QED BY <1>1, <3>1, <3>2 DEF Begin
  <2>2. \A p \in Path, x \in {"remove", "create", "mode"} :
          <<p, x>> \in Calls(tip[b], tip[on]) <=> Wanted(tip[b], tip[on], p, x)
    BY DEF Calls
  <2>3. ASSUME NEW p \in Path, Visited(tip[b], p)
        PROVE  /\ InOrder(tip[b], tip[on], Calls(tip[b], tip[on]), p)
               /\ Marked(tip[b], tip[on], work, Calls(tip[b], tip[on]), p)
    BY <2>2, <2>3 DEF InOrder, Marked, Wanted
  <2> QED BY <2>1, <2>3 DEF Tried
<1>2. ASSUME UNCHANGED <<tip, on, work>>, attempt' = attempt,
             job' = Idle \/ (job # Idle /\ job'.to = job.to /\ todo' = todo)
      PROVE  Progress'
  BY <1>2 DEF Progress, Halfway, Tried, InOrder, Marked
<1>3. ASSUME NEW p \in Path, Remove(p) \/ Create(p) \/ SetMode(p) PROVE Progress'
  <2> DEFINE new == tip[job.to]
             curr == tip[on]
  <2>1. UNCHANGED <<tip, on, job, attempt>> /\ job # Idle
    BY <1>3, CallFrame, NextCall
  <2>2. SUFFICES ASSUME attempt # {}
                 PROVE  /\ \A q \in Path : Halfway(new, curr, work', q)
                        /\ Tried(new, curr, work', todo')
    <3>1. CASE attempt = {}
      BY <2>1, <3>1 DEF Progress
    <3>2. CASE attempt # {}
      BY <2>1, <2>2, <3>2, OnTheWay, ProgressAfter
    <3> QED BY <3>1, <3>2
  <2>3. AtWork(new, curr)
    BY <2>1, <2>2, OnTheWay
  <2>4. CASE Remove(p)
    BY <2>3, <2>4, RemoveStep DEF Remove, Returns
  <2>5. CASE Create(p)
    BY <2>3, <2>5, CreateDirectoryStep, CreateFileStep DEF Create, Returns
  <2>6. CASE SetMode(p)
    BY <2>3, <2>6, SetModeStep DEF SetMode, Returns
  <2> QED BY <1>3, <2>4, <2>5, <2>6
<1>4. CASE Throw \/ Interrupt
  BY <1>2, <1>4 DEF Throw, Interrupt, Ends
<1>5. CASE LoadIndex
  <2>1. job # Idle /\ job'.to = job.to
    BY <1>5, JobKinds DEF LoadIndex, TypeOK
  <2> QED BY <1>2, <1>5, <2>1 DEF LoadIndex
<1>6. ASSUME attempt' = {} PROVE Progress'
  BY <1>6 DEF Progress
<1>7. CASE FinishCheckout \/ FinishMerge \/ Commit
  BY <1>6, <1>7 DEF FinishCheckout, FinishMerge, Commit
<1>8. CASE (\E p \in Path : EditDirectory(p)) \/ \E p \in Path, f \in Version \cup {Absent} : Edit(p, f)
  BY <1>6, <1>8 DEF EditDirectory, Edit
<1>9. CASE \E S \in SUBSET Path : Add(S)
  BY <1>2, <1>9 DEF Add, Count
<1>10. CASE UNCHANGED vars
  BY <1>2, <1>10 DEF vars
<1> QED BY <1>1, <1>3, <1>4, <1>5, <1>7, <1>8, <1>9, <1>10 DEF Next

LEMMA Invariance == Spec => []Inv
<1>1. Init => Inv
  <2> SUFFICES ASSUME Init PROVE Inv
    OBVIOUS
  <2>1. MaxSteps \in Nat
    BY PathAssumption
  <2>2. TypeOK
    BY <2>1 DEF Init, TypeOK, Entry, IsTree
  <2>3. TreesAreTrees
    BY Kinds DEF Init, TreesAreTrees, IsTree
  <2>4. JobOK /\ MergeLoadsIndex /\ Progress
    BY DEF Init, JobOK, MergeLoadsIndex, Progress, Idle
  <2> QED BY <2>2, <2>3, <2>4 DEF Inv
<1>2. Inv /\ [Next]_vars => Inv'
  BY TypeStep, TreesStep, JobStep, LoadStep, ProgressStep DEF Inv
<1> QED BY <1>1, <1>2, PTL DEF Spec

-----------------------------------------------------------------------------
(* The types are kept, and no file on disk ever holds another.             *)
THEOREM WorkTreeTyped == Spec => []TypeOK
<1>1. Inv => TypeOK
  BY DEF Inv
<1> QED BY <1>1, Invariance, PTL

(* No commit ever records an entry below a file, or an empty directory:    *)
(* write_tree refuses what would make one.                                 *)
THEOREM TreesStayTrees == Spec => []TreesAreTrees
<1>1. Inv => TreesAreTrees
  BY DEF Inv
<1> QED BY <1>1, Invariance, PTL

(* After a fast-forward the index writes the tree it was loaded from.      *)
THEOREM MergeLeavesIndex == Spec => []MergeLoadsIndex
<1>1. Inv => MergeLoadsIndex
  BY DEF Inv
<1> QED BY <1>1, Invariance, PTL

(* A change-over begun on a clean work tree that ends well, at the first   *)
(* try or a later one, leaves the target's tree, but for modes the code    *)
(* does not set.                                                           *)
THEOREM ChangeOverExact == Spec => CheckoutIsExact
<1>1. ASSUME Inv, [Next]_vars, Succeeds, attempt # {}, NEW p \in Path
      PROVE  \/ work[p] = tip[job.to][p]
             \/ LosesBit(tip[job.to][p], tip[on][p]) /\ work[p] = File(tip[job.to][p].blob, FALSE)
  <2>1. todo = {}
    <3>1. CASE FinishCheckout \/ FinishMerge
      BY <1>1, <3>1 DEF FinishCheckout, FinishMerge, Inv, JobOK
    <3>2. CASE Throw \/ Interrupt
      BY <1>1, <3>2 DEF Throw, Interrupt, Ends, Succeeds
    <3>3. CASE LoadIndex
      BY <3>3 DEF LoadIndex
    <3>4. ASSUME NEW q \in Path, Remove(q) \/ Create(q) \/ SetMode(q) PROVE FALSE
      BY <1>1, <3>4, CallFrame DEF Succeeds
    <3>5. ASSUME Count PROVE FALSE
      BY <1>1, <3>5 DEF Succeeds, Count
    <3>6. ~UNCHANGED vars
      BY <1>1 DEF Succeeds, vars
    <3> QED
      BY <1>1, <3>1, <3>2, <3>3, <3>4, <3>5, <3>6 DEF Next, Edit, EditDirectory, Add, Commit, Begin
  <2>2. AtWork(tip[job.to], tip[on])
    BY <1>1, OnTheWay DEF Succeeds
  <2> QED BY <2>1, <2>2, NothingLeft
<1>2. Inv /\ [Next]_vars =>
        (Succeeds /\ attempt # {} =>
          \A p \in Path :
            LET e == tip[job.to][p] IN
            \/ work[p] = e
            \/ LosesBit(e, tip[on][p]) /\ work[p] = File(e.blob, FALSE))
  BY <1>1
<1> QED BY <1>2, Invariance, PTL DEF Spec, CheckoutIsExact

(* What the commits agree on stays as the user has it, with what is below  *)
(* it, through every call of a change-over that ends well, throws or is    *)
(* killed.                                                                 *)
THEOREM AgreementStays == Spec => AgreementUntouched
<1>1. ASSUME Inv, [Next]_vars, job # Idle, NEW p \in Path, NEW q \in Path, Agreed(p), q = p \/ Above(p, q)
      PROVE  work'[q] = work[q]
  <2> DEFINE new == tip[job.to]
             curr == tip[on]
  <2>1. /\ new[p] = curr[p] /\ new[p] # Folder
        /\ \A a \in Path : Above(a, p) => new[a] = Folder /\ curr[a] = Folder
    BY <1>1 DEF Agreed
  <2>2. ASSUME NEW r \in Path, Visited(new, r) PROVE ~Above(p, r)
    BY <2>1, <2>2 DEF Visited
  <2>3. ASSUME NEW r \in Path, Remove(r) PROVE work'[q] = work[q]
    <3>1. Visited(new, r) /\ Removes(new[r], curr[r]) /\ work' = Removed(r)
      BY <1>1, <2>3, NextCall DEF Remove, Wanted
    <3>2. r # p /\ ~Above(r, p)
      BY <2>1, <3>1, Kinds DEF Removes, SameId
    <3>3. q # r /\ ~Above(r, q)
      BY <1>1, <2>2, <3>1, <3>2, AboveOrder
    <3> QED BY <3>1, <3>3 DEF Removed
  <2>4. ASSUME NEW r \in Path, Create(r) PROVE work'[q] = work[q]
    <3>1. Visited(new, r) /\ Creates(new[r], curr[r])
      BY <1>1, <2>4, NextCall DEF Create, Wanted
    <3>2. r # p /\ ~Above(p, r)
      BY <2>1, <2>2, <3>1, Kinds DEF Creates, SameId
    <3>3. q # r /\ ~Above(q, r)
      BY <1>1, <3>2, AboveOrder
    <3> QED BY <1>1, <2>4, <3>3 DEF Create, DirectoriesCreated, FileCreated, Inv, TypeOK
  <2>5. ASSUME NEW r \in Path, SetMode(r) PROVE work'[q] = work[q]
    <3>1. Visited(new, r) /\ SetsMode(new[r], curr[r])
      BY <1>1, <2>5, NextCall DEF SetMode, Wanted
    <3>2. r # p /\ ~Above(p, r)
      BY <2>1, <2>2, <3>1 DEF SetsMode, SameMode
    <3>3. q # r
      BY <1>1, <3>2
    <3> QED BY <1>1, <2>5, <3>3 DEF SetMode, ModeSet, Inv, TypeOK
  <2>6. CASE UNCHANGED work
    BY <2>6
  <2>7. ~Count
    BY <1>1 DEF Count
  <2> QED
    BY <1>1, <2>3, <2>4, <2>5, <2>6, <2>7 DEF Next, vars, Edit, EditDirectory, Add, Commit, Begin,
       Throw, Interrupt, FinishCheckout, LoadIndex, FinishMerge
<1>2. Inv /\ [Next]_vars =>
        (job # Idle =>
           \A p, q \in Path : Agreed(p) /\ (q = p \/ Above(p, q)) => work'[q] = work[q])
  BY <1>1
<1> QED BY <1>2, Invariance, PTL DEF Spec, AgreementUntouched
=============================================================================
