---------------------------- MODULE RefNamesProofs ----------------------------
(***************************************************************************)
(* For plain names the two readings of a name agree: HEAD follows the work *)
(* tree, refs name commits and branches only advance, in a repository with *)
(* any refs, commits and names.  What makes names plain is an assumption   *)
(* of each theorem; the configurations whose runs end in a violation drop  *)
(* one part of it each.                                                    *)
(***************************************************************************)
EXTENDS RefNames, TLAPS

Absent(space, n) == loose[space][n] = None

(* A name is in lower case, has no slash and more than two characters, and *)
(* is used for one thing; there are no remote branches, and no packed      *)
(* branch has a name given to checkout -b.                                 *)
PlainNames ==
  /\ \A n \in Name : Lower[n] = n
  /\ Nested = {} /\ OneLetter = {} /\ FanOut = {} /\ BlobId = {}
  /\ BranchName \cap TagName = {}
  /\ HeadWord \notin Target
  /\ \A n \in Name : LooseRefs["remotes"][n] = None
  /\ \A n \in Name : PackedRefs["heads"][n] # None => n \notin BranchName \cup TagName \cup Commit
  /\ \A n \in Name : LooseRefs["heads"][n] # None => n \notin TagName \cup Commit
  /\ \A n \in Name : LooseRefs["tags"][n] # None => n \notin BranchName \cup Commit
  /\ \A n \in Name :
       LooseRefs["heads"][n] # None \/ PackedRefs["heads"][n] # None => LooseRefs["tags"][n] = None
  /\ \A s \in {"heads", "tags"}, n \in Name :
       LooseRefs[s][n] \in DOMAIN History \cup {None} /\ PackedRefs[s][n] \in DOMAIN History \cup {None}

(* What keeps the readings together: a name stands in one space only, and  *)
(* HEAD is at a tag that exists, at a commit, or at a branch's name.       *)
Apart ==
  \A n \in Name :
    /\ Absent("remotes", n)
    /\ ~ Absent("heads", n) => Absent("tags", n) /\ n \notin TagName \cup Commit
    /\ ~ Absent("tags", n) => n \notin BranchName \cup Commit

HeadPlaced ==
  /\ head.space = "heads" => Absent("tags", head.name) /\ head.name \notin TagName \cup Commit
  /\ head.space = "tags" => ~ Absent("tags", head.name)
  /\ head.space = "detached" => head.name \in Stored

PackedStored ==
  \A s \in {"heads", "tags"}, n \in Name : PackedRefs[s][n] \in Stored \cup {None}

IInv == TypeOK /\ RefsNameCommits /\ Apart /\ HeadPlaced /\ PackedStored

-----------------------------------------------------------------------------
(* HEAD resolves to a stored commit or to nothing.                         *)
LEMMA HeadIdIsCommit ==
  ASSUME PlainNames, IInv
  PROVE  HeadId \in Stored \cup {None}
<1>1. CASE head.space = "detached"
  BY <1>1 DEF IInv, HeadPlaced, HeadId
<1>2. CASE head.space \in {"heads", "tags"}
  <2>1. head.name \in Name
    BY <1>2 DEF IInv, TypeOK
  <2> QED  BY <1>2, <2>1 DEF IInv, RefsNameCommits, PackedStored, HeadId
<1> QED  BY <1>1, <1>2 DEF IInv, TypeOK

(* So does every name.                                                     *)
LEMMA FindIsCommit ==
  ASSUME PlainNames, IInv, NEW n \in Name
  PROVE  Find(n) \in Stored \cup {None}
<1>1. Lower[n] = n
  BY DEF PlainNames
<1>2. LooseObject(n) => n \in Stored
  BY DEF PlainNames, LooseObject
<1> QED  BY <1>1, <1>2, HeadIdIsCommit DEF IInv, RefsNameCommits, Apart, Absent, Find

(* Where a command may write: what UpdateCurrentRef does.                  *)
LEMMA UpdateKeeps ==
  ASSUME PlainNames, IInv, NEW c \in Commit, UpdateCurrentRef(c),
         Stored' \subseteq Commit, Stored \subseteq Stored', c \in Stored',
         \A d \in Stored' : parents'[d] \subseteq Value, shown' \in Stored' \cup {None}
  PROVE  IInv' /\ HeadId' = c
<1> USE NamesAssumption
<1>1. CASE head.space = "detached"
  <2>1. head' = [head EXCEPT !.name = c] /\ loose' = loose
    BY <1>1 DEF UpdateCurrentRef
  <2>2. head' = [space |-> "detached", name |-> c] /\ c \in Value
    BY <1>1, <2>1 DEF IInv, TypeOK, Value
  <2>3. TypeOK'
    BY <2>1, <2>2 DEF IInv, TypeOK
  <2>4. RefsNameCommits' /\ Apart' /\ PackedStored'
    BY <2>1 DEF IInv, RefsNameCommits, Apart, Absent, PackedStored
  <2>5. HeadPlaced' /\ HeadId' = c
    BY <2>2 DEF HeadPlaced, HeadId
  <2> QED  BY <2>3, <2>4, <2>5 DEF IInv
<1>2. CASE head.space # "detached"
  <2> DEFINE s == head.space
             n == head.name
  <2>1. s \in {"heads", "tags"} /\ n \in Name
    BY <1>2 DEF IInv, TypeOK
  <2>2. head' = head /\ loose' = [loose EXCEPT ![s][n] = c]
    BY <1>2, <2>1 DEF UpdateCurrentRef, WriteRef, PlainNames
  <2>3. loose \in RefTable /\ c \in Value /\ s \in Space
    BY <2>1 DEF IInv, TypeOK, Value, Space
  <2>4. /\ loose' \in RefTable /\ loose'[s][n] = c
        /\ \A t \in Space, m \in Name : t # s \/ m # n => loose'[t][m] = loose[t][m]
    BY <2>1, <2>2, <2>3 DEF RefTable
  <2>5. TypeOK'
    BY <2>2, <2>4 DEF IInv, TypeOK
  <2>6. RefsNameCommits' /\ PackedStored'
    BY <2>1, <2>4 DEF IInv, RefsNameCommits, PackedStored, Space
  <2>7. c # None
    BY DEF Value
  <2>8. n \notin Commit
    BY <2>1 DEF IInv, HeadPlaced, Apart, Absent
  <2>9. Apart'
    BY <2>1, <2>4, <2>7, <2>8 DEF IInv, Apart, Absent, HeadPlaced, Space
  <2>10. HeadPlaced'
    BY <1>2, <2>1, <2>2, <2>4, <2>7 DEF IInv, HeadPlaced, Absent, Space
  <2>11. HeadId' = c
    BY <1>2, <2>2, <2>4, <2>7 DEF HeadId
  <2> QED  BY <2>5, <2>6, <2>9, <2>10, <2>11 DEF IInv
<1> QED  BY <1>1, <1>2

LEMMA InitHolds ==
  ASSUME PlainNames, Init
  PROVE  IInv
<1> USE NamesAssumption DEF Init
<1>1. TypeOK
  BY DEF TypeOK, RefTable, Stored, Value
<1>2. RefsNameCommits /\ PackedStored
  BY DEF PlainNames, RefsNameCommits, PackedStored, Stored, Value
<1>3. Apart
  BY DEF PlainNames, Apart, Absent
<1>4. HeadPlaced
  <2>1. head.space = "heads" /\ head.name \in Name
    OBVIOUS
  <2>2. CASE head.name \in BranchName
    BY <2>1, <2>2 DEF PlainNames, HeadPlaced, Absent
  <2>3. CASE PackedRefs["heads"][head.name] # None
    BY <2>1, <2>3 DEF PlainNames, HeadPlaced, Absent
  <2> QED  BY <2>2, <2>3
<1> QED  BY <1>1, <1>2, <1>3, <1>4 DEF IInv

-----------------------------------------------------------------------------
(***************************************************************************)
(* Each command keeps the invariant, and leaves HEAD where it should be.   *)
(***************************************************************************)
LEMMA CheckoutKeeps ==
  ASSUME PlainNames, IInv, NEW n \in Target, Checkout(n)
  PROVE  IInv' /\ HeadId' = shown' /\ HeadId' # None
<1> USE NamesAssumption
<1>1. n \in Name /\ n # HeadWord /\ Lower[n] = n /\ n \notin OneLetter
  BY DEF PlainNames
<1>2. /\ loose' = loose /\ parents' = parents
      /\ Find(n) \in Stored /\ shown' = Find(n)
  BY DEF Checkout
<1>3. None \notin Stored
  BY DEF IInv, TypeOK, Value
<1>4. TypeOK' /\ HeadPlaced' /\ HeadId' = Find(n)
  <2>1. CASE LooseObject(n)
    <3>1. n \in Stored /\ n \in Commit /\ n \in Value
      BY <2>1 DEF LooseObject, PlainNames, IInv, TypeOK, Value
    <3>2. Find(n) = n
      BY <1>1, <2>1, <3>1 DEF Find, IInv, Apart, Absent
    <3>3. head' = [space |-> "detached", name |-> n]
      BY <1>1, <2>1 DEF Checkout
    <3> QED  BY <1>2, <3>1, <3>2, <3>3 DEF IInv, TypeOK, HeadPlaced, HeadId, Stored
  <2>2. CASE ~ LooseObject(n) /\ ~ Absent("tags", n)
    <3>1. Find(n) = loose["tags"][n]
      BY <1>1, <2>2 DEF Find, IInv, Apart, Absent
    <3>2. head' = [space |-> "tags", name |-> n]
      BY <1>1, <2>2 DEF Checkout, Absent
    <3> QED  BY <1>1, <1>2, <2>2, <3>1, <3>2 DEF IInv, TypeOK, HeadPlaced, HeadId, Absent, Stored
  <2>3. CASE ~ LooseObject(n) /\ Absent("tags", n)
    <3>1. Find(n) = loose["heads"][n] /\ ~ Absent("heads", n)
      BY <1>1, <1>2, <1>3, <2>3 DEF Find, IInv, Apart, Absent
    <3>2. head' = [space |-> "heads", name |-> n]
      BY <1>1, <2>3 DEF Checkout, Absent
    <3> QED  BY <1>1, <1>2, <2>3, <3>1, <3>2 DEF IInv, TypeOK, HeadPlaced, HeadId, Absent, Apart, Stored
  <2> QED  BY <2>1, <2>2, <2>3
<1>5. RefsNameCommits' /\ Apart' /\ PackedStored'
  BY <1>2 DEF IInv, RefsNameCommits, Apart, Absent, PackedStored, Stored
<1> QED  BY <1>2, <1>3, <1>4, <1>5 DEF IInv

LEMMA FastForwardKeeps ==
  ASSUME PlainNames, IInv, NEW n \in Target, FastForward(n)
  PROVE  IInv' /\ HeadId' = shown' /\ HeadId' # None /\ HeadId' = Find(n)
<1> USE NamesAssumption
<1>1. /\ parents' = parents /\ Find(n) \in Stored /\ shown' = Find(n)
      /\ UpdateCurrentRef(Find(n))
  BY DEF FastForward
<1>2. Find(n) \in Commit /\ Find(n) # None
  BY <1>1 DEF IInv, TypeOK, Value
<1>3. \A d \in Stored' : parents'[d] \subseteq Value
  BY <1>1 DEF IInv, TypeOK, Stored
<1>4. Stored' \subseteq Commit /\ Stored \subseteq Stored'
  BY <1>1 DEF IInv, TypeOK, Stored
<1> QED  BY <1>1, <1>2, <1>3, <1>4, UpdateKeeps

LEMMA NewCommitKeeps ==
  ASSUME PlainNames, IInv, NEW c \in Commit, NewCommit(c)
  PROVE  /\ IInv' /\ HeadId' = c /\ HeadId' # None /\ UNCHANGED shown
         /\ Stored' = Stored \cup {c} /\ parents'[c] = {HeadId} \ {None}
<1> USE NamesAssumption
<1>1. /\ parents' = [x \in Stored \cup {c} |-> IF x # c THEN parents[x] ELSE {HeadId} \ {None}]
      /\ UpdateCurrentRef(c) /\ shown' = shown
  BY DEF NewCommit
<1>2. Stored' = Stored \cup {c} /\ parents'[c] = {HeadId} \ {None}
  BY <1>1 DEF Stored
<1>3. \A d \in Stored' : parents'[d] \subseteq Value
  <2>1. {HeadId} \ {None} \subseteq Value
    BY HeadIdIsCommit DEF IInv, TypeOK, Value
  <2> QED  BY <1>1, <1>2, <2>1 DEF IInv, TypeOK
<1>4. Stored' \subseteq Commit /\ Stored \subseteq Stored' /\ c \in Stored' /\ shown' \in Stored' \cup {None}
  BY <1>1, <1>2 DEF IInv, TypeOK
<1>5. IInv' /\ HeadId' = c
  BY <1>1, <1>3, <1>4, UpdateKeeps
<1>6. c # None
  BY DEF Value
<1> QED  BY <1>1, <1>2, <1>5, <1>6

LEMMA CreateBranchKeeps ==
  ASSUME PlainNames, IInv, NEW n \in BranchName, NEW start \in Target \cup {HeadWord},
         CreateBranch(n, start)
  PROVE  /\ IInv' /\ HeadId' # None /\ UNCHANGED <<shown, parents>>
         /\ \A m \in Name : m # n => loose'["heads"][m] = loose["heads"][m]
<1> USE NamesAssumption
<1>1. n \in Name /\ start \in Name /\ n \notin Nested
  BY DEF PlainNames
<1>2. Find(start) \in Stored /\ Find(start) # None /\ Find(start) \in Value
  BY <1>1, FindIsCommit DEF CreateBranch, IInv, TypeOK, Value
<1>3. /\ loose' = [loose EXCEPT !["heads"][n] = Find(start)]
      /\ head' = [space |-> "heads", name |-> n]
      /\ parents' = parents /\ shown' = shown
  BY <1>1 DEF CreateBranch, WriteRef
<1>4. /\ loose' \in RefTable /\ loose'["heads"][n] = Find(start)
      /\ \A t \in Space, m \in Name : t # "heads" \/ m # n => loose'[t][m] = loose[t][m]
  BY <1>1, <1>2, <1>3 DEF IInv, TypeOK, RefTable, Space
<1>5. TypeOK'
  BY <1>1, <1>3, <1>4 DEF IInv, TypeOK, Stored
<1>6. RefsNameCommits' /\ PackedStored'
  BY <1>2, <1>3, <1>4 DEF IInv, RefsNameCommits, PackedStored, Space, Stored
<1>7. Absent("tags", n) /\ n \notin TagName \cup Commit
  BY <1>1 DEF IInv, Apart, PlainNames
<1>8. Apart'
  BY <1>4, <1>7 DEF IInv, Apart, Absent, Space
<1>9. HeadPlaced' /\ HeadId' = Find(start)
  BY <1>1, <1>2, <1>3, <1>4, <1>7 DEF HeadPlaced, HeadId, Absent, Space
<1> QED  BY <1>2, <1>3, <1>4, <1>5, <1>6, <1>8, <1>9 DEF IInv, Space

LEMMA CreateTagKeeps ==
  ASSUME PlainNames, IInv, NEW n \in TagName, NEW target, CreateTag(n, target)
  PROVE  /\ IInv' /\ HeadId' = HeadId /\ UNCHANGED <<shown, parents>>
         /\ \A m \in Name : loose'["heads"][m] = loose["heads"][m]
<1> USE NamesAssumption
<1>1. n \in Name /\ n \notin Nested
  BY DEF PlainNames
<1>2. target \in Stored /\ target \in Value
  BY DEF CreateTag, LooseObject, PlainNames, IInv, TypeOK, Value
<1>3. /\ loose' = [loose EXCEPT !["tags"][n] = target] /\ loose["tags"][n] = None
      /\ head' = head /\ parents' = parents /\ shown' = shown
  BY <1>1 DEF CreateTag, WriteRef
<1>4. /\ loose' \in RefTable /\ loose'["tags"][n] = target
      /\ \A t \in Space, m \in Name : t # "tags" \/ m # n => loose'[t][m] = loose[t][m]
  BY <1>1, <1>2, <1>3 DEF IInv, TypeOK, RefTable, Space
<1>5. TypeOK'
  BY <1>3, <1>4 DEF IInv, TypeOK, Stored
<1>6. RefsNameCommits' /\ PackedStored'
  BY <1>2, <1>3, <1>4 DEF IInv, RefsNameCommits, PackedStored, Space, Stored
<1>7. Absent("heads", n) /\ n \notin BranchName \cup Commit
  BY <1>1 DEF IInv, Apart, PlainNames
<1>8. Apart'
  BY <1>4, <1>7 DEF IInv, Apart, Absent, Space
<1>9. head.space # "detached" =>
        /\ head.space \in {"heads", "tags"} /\ head.name \in Name
        /\ head.space # "tags" \/ head.name # n
        /\ head.space = "heads" => head.name # n
  BY <1>3 DEF IInv, TypeOK, HeadPlaced, Absent
<1>10. HeadPlaced'
  BY <1>3, <1>4, <1>9 DEF IInv, HeadPlaced, Absent, Space, Stored
<1>11. HeadId' = HeadId
  BY <1>3, <1>4, <1>9 DEF HeadId, Space
<1> QED  BY <1>3, <1>4, <1>5, <1>6, <1>8, <1>10, <1>11 DEF IInv, Space

LEMMA StutterKeeps ==
  ASSUME IInv, UNCHANGED vars
  PROVE  IInv' /\ HeadId' = HeadId /\ UNCHANGED <<shown, parents>>
  BY DEF IInv, vars, TypeOK, RefsNameCommits, Apart, Absent, HeadPlaced, PackedStored, HeadId, Stored

LEMMA NextHolds ==
  ASSUME PlainNames, IInv, [Next]_vars
  PROVE  IInv'
<1>1. CASE UNCHANGED vars
  BY <1>1, StutterKeeps
<1>2. CASE Next
  BY <1>2, CheckoutKeeps, FastForwardKeeps, CreateBranchKeeps, CreateTagKeeps, NewCommitKeeps DEF Next
<1> QED  BY <1>1, <1>2

LEMMA Invariant ==
  ASSUME PlainNames
  PROVE  Spec => []IInv
<1>1. Init => IInv
  BY InitHolds
<1>2. IInv /\ [Next]_vars => IInv'
  BY NextHolds
<1> QED  BY <1>1, <1>2, PTL DEF Spec

-----------------------------------------------------------------------------
(***************************************************************************)
(* What follows from it.                                                   *)
(***************************************************************************)

(* Whatever names are used, in whatever order, a tag or a branch is the    *)
(* name of a stored commit, and HEAD has the form it should have.          *)
THEOREM RefTypes ==
  ASSUME PlainNames
  PROVE  Spec => []TypeOK
<1>1. IInv => TypeOK
  BY DEF IInv
<1> QED  BY <1>1, Invariant, PTL

THEOREM RefsHoldCommits ==
  ASSUME PlainNames
  PROVE  Spec => []RefsNameCommits
<1>1. IInv => RefsNameCommits
  BY DEF IInv
<1> QED  BY <1>1, Invariant, PTL

(* A command that changes the work tree over leaves HEAD at that commit:   *)
(* find and checkout read a plain name alike (object.cpp:87-111,           *)
(* commands/checkout.cpp:33-45).                                           *)
THEOREM HeadIsShown ==
  ASSUME PlainNames
  PROVE  Spec => HeadFollowsWorkTree
<1>1. IInv /\ [Next]_vars => [shown' # shown => HeadId' = shown']_vars
  <2> SUFFICES ASSUME IInv, Next
               PROVE  shown' # shown => HeadId' = shown'
    OBVIOUS
  <2> QED
    BY CheckoutKeeps, FastForwardKeeps, CreateBranchKeeps, CreateTagKeeps, NewCommitKeeps DEF Next
<1> QED  BY <1>1, Invariant, PTL DEF Spec, HeadFollowsWorkTree

(* Once HEAD resolves it goes on resolving.                                *)
THEOREM HeadStaysResolved ==
  ASSUME PlainNames
  PROVE  Spec => HeadResolves
<1>1. IInv /\ [Next]_vars => [HeadId # None => HeadId' # None]_vars
  <2> SUFFICES ASSUME IInv, Next
               PROVE  HeadId # None => HeadId' # None
    OBVIOUS
  <2> QED
    BY CheckoutKeeps, FastForwardKeeps, CreateBranchKeeps, CreateTagKeeps, NewCommitKeeps DEF Next
<1> QED  BY <1>1, Invariant, PTL DEF Spec, HeadResolves

(* A stored commit is its own ancestor, and its parents are.               *)
LEMMA OwnAncestor ==
  ASSUME NEW c \in Stored
  PROVE  /\ c \in Ancestors(c)
         /\ \A p \in parents[c] \cap Stored : p \in Ancestors(c)
  BY DEF Ancestors

LEMMA TipIsCommit ==
  ASSUME IInv, NEW n \in Name
  PROVE  Tip(n) \in Stored \cup {None}
  BY DEF IInv, RefsNameCommits, PackedStored, Tip

(* A step that leaves a tip where it was, or at a descendant of it.        *)
LEMMA TipAdvances ==
  ASSUME PlainNames, IInv, Next, NEW n \in Name, Tip(n) # None
  PROVE  Tip(n) \in (Ancestors(Tip(n)))'
<1> USE NamesAssumption
<1>1. Tip(n) \in Stored
  BY TipIsCommit
<1>2. ASSUME Tip(n)' = Tip(n), Stored \subseteq Stored'
      PROVE  Tip(n) \in (Ancestors(Tip(n)))'
  BY <1>1, <1>2, OwnAncestor DEF Ancestors
<1>3. ASSUME NEW m \in Target, Checkout(m) PROVE Tip(n) \in (Ancestors(Tip(n)))'
  BY <1>2, <1>3 DEF Checkout, Tip, Stored
<1>4. ASSUME NEW m \in Target, FastForward(m) PROVE Tip(n) \in (Ancestors(Tip(n)))'
  <2>1. CASE Tip(n)' = Tip(n)
    BY <1>2, <1>4, <2>1 DEF FastForward, Stored
  <2>2. CASE Tip(n)' # Tip(n)
    <3>1. head.space = "heads" /\ head.name = n /\ HeadId = Tip(n)
      BY <1>4, <2>2 DEF FastForward, UpdateCurrentRef, WriteRef, PlainNames, Tip, HeadId, IInv, TypeOK, RefTable, Space
    <3>2. Tip(n)' = Find(m)
      <4>1. loose' = [loose EXCEPT !["heads"][n] = Find(m)] /\ Find(m) # None
        BY <1>4, <3>1 DEF FastForward, UpdateCurrentRef, WriteRef, PlainNames, IInv, TypeOK, Value
      <4> QED  BY <4>1 DEF Tip, IInv, TypeOK, RefTable, Space
    <3>3. HeadId \in Ancestors(Find(m)) /\ parents' = parents
      BY <1>4 DEF FastForward
    <3> QED  BY <3>1, <3>2, <3>3 DEF Ancestors, Stored
  <2> QED  BY <2>1, <2>2
<1>5. ASSUME NEW m \in BranchName, NEW start \in Target \cup {HeadWord}, CreateBranch(m, start)
      PROVE  Tip(n) \in (Ancestors(Tip(n)))'
  <2>1. n # m
    BY <1>5 DEF CreateBranch, PlainNames, Tip
  <2> QED  BY <1>2, <1>5, <2>1, CreateBranchKeeps DEF Tip, Stored
<1>6. ASSUME NEW m \in TagName, NEW target, CreateTag(m, target)
      PROVE  Tip(n) \in (Ancestors(Tip(n)))'
  BY <1>2, <1>6, CreateTagKeeps DEF Tip, Stored
<1>7. ASSUME NEW c \in Commit, NewCommit(c) PROVE Tip(n) \in (Ancestors(Tip(n)))'
  <2>1. /\ Stored' = Stored \cup {c} /\ parents'[c] = {HeadId} \ {None}
        /\ UpdateCurrentRef(c)
    BY <1>7, NewCommitKeeps DEF NewCommit
  <2>2. CASE Tip(n)' = Tip(n)
    BY <1>2, <2>1, <2>2
  <2>3. CASE Tip(n)' # Tip(n)
    <3>1. head.space = "heads" /\ head.name = n /\ HeadId = Tip(n)
      BY <2>1, <2>3 DEF UpdateCurrentRef, WriteRef, PlainNames, Tip, HeadId, IInv, TypeOK, RefTable, Space
    <3>2. Tip(n)' = c
      <4>1. loose' = [loose EXCEPT !["heads"][n] = c] /\ c # None
        BY <2>1, <3>1 DEF UpdateCurrentRef, WriteRef, PlainNames, Value
      <4> QED  BY <4>1 DEF Tip, IInv, TypeOK, RefTable, Space
    <3>3. Tip(n) \in parents'[c] /\ Tip(n) \in Stored'
      BY <1>1, <2>1, <3>1
    <3> QED  BY <2>1, <3>2, <3>3 DEF Ancestors
  <2> QED  BY <2>2, <2>3
<1> QED  BY <1>3, <1>4, <1>5, <1>6, <1>7 DEF Next

(* A branch, loose or packed, only moves to descendants of where it was.   *)
THEOREM BranchesAreForwardOnly ==
  ASSUME PlainNames
  PROVE  Spec => BranchesOnlyAdvance
<1>1. IInv /\ [Next]_vars => [\A n \in Name : Tip(n) # None => Tip(n) \in (Ancestors(Tip(n)))']_vars
  BY TipAdvances
<1> QED  BY <1>1, Invariant, PTL DEF Spec, BranchesOnlyAdvance
=============================================================================
