----------------------------- MODULE ObjectProofs -----------------------------
(***************************************************************************)
(* Proofs about the objects of a repository: about ObjectRead, that what   *)
(* is stored is read or refused, for every set of sizes; and about         *)
(* ObjectFormat, that a commit says what its text says, and that commits   *)
(* and trees read back as they were written, for any of them.              *)
(***************************************************************************)
EXTENDS ObjectRead, ObjectFormat, FiniteSetTheorems, SequenceTheorems, WellFoundedInduction, TLAPS

-----------------------------------------------------------------------------
(***************************************************************************)
(* Reading: the header of a stored object.                                 *)
(***************************************************************************)
(* What is known of the header while it is read: which byte was last, and  *)
(* that what was put together so far is the size below the next group.     *)
HeaderInv ==
  /\ phase = "header" => ~ file.loose
  /\ phase # "start" /\ ~ file.loose =>
       /\ at \in 1 .. file.groups + 1
       /\ byte = ByteAt(at)
       /\ shift = 4 + 7 * (at - 1)
       /\ type = IF file.kept > 0 THEN file.type ELSE {}
       /\ Small /\ Intact => size = file.size \cap 0 .. shift - 1
       /\ phase # "header" => ~ byte.more

(* What was decided so far, and why it was right to.                       *)
VerdictInv ==
  /\ phase \in {"parse", "built"} => type \in Kind \cup {Tag}
  /\ phase \in {"parse", "built"} /\ Small =>
       file.whole /\ file.stored = file.size /\ type = file.type
  /\ phase \in {"parse", "built"} /\ file.loose => type # Tag
  /\ phase \in {"threw", "aborted"} /\ Small => ~ Sound(file) /\ ~ EmptyTag(file)
  /\ phase = "built" => IF type = Tag THEN file.stored = {} /\ object = Tree ELSE object = type

IInv == TypeOK /\ HeaderInv /\ VerdictInv

-----------------------------------------------------------------------------
(* A group of a small size lies below bit 31, so that shifting it neither  *)
(* loses a bit nor makes the int negative.                                 *)
LEMMA GroupFits ==
  ASSUME NEW S \in SUBSET (0 .. 30), NEW s \in {4, 11, 18, 25}
  PROVE  Shifted({b \in 0 .. 6 : s + b \in S}, s) = S \cap s .. s + 6
<1>1. s % 32 = s
  OBVIOUS
<1> DEFINE low == {p \in 0 .. 31 : \E b \in {c \in 0 .. 6 : s + c \in S} : p = (s % 32) + b}
<1>2. low = S \cap s .. s + 6
  <2>1. ASSUME NEW p \in low PROVE p \in S \cap s .. s + 6
    BY <1>1
  <2>2. ASSUME NEW p \in S \cap s .. s + 6 PROVE p \in low
    <3>1. p - s \in 0 .. 6 /\ p = s + (p - s) /\ p \in 0 .. 31
      OBVIOUS
    <3> QED BY <3>1, <1>1
  <2> QED BY <2>1, <2>2
<1>3. 31 \notin low
  BY <1>2
<1> QED BY <1>2, <1>3 DEF Shifted

LEMMA ShiftedType == \A bits, s : Shifted(bits, s) \subseteq 0 .. 63
BY DEF Shifted

(* A small size needs at most four groups.                                 *)
LEMMA FourGroups ==
  ASSUME NEW S \in SUBSET (0 .. 30), NEW n \in 0 .. 9, Needs(S, n)
  PROVE  n <= 4
<1> SUFFICES ASSUME n >= 5 PROVE FALSE
  OBVIOUS
<1>1. S \subseteq 0 .. 3 + 7 * (n - 1)
  OBVIOUS
<1> QED BY <1>1 DEF Needs

LEMMA KindsDiffer == Tag \notin Kind /\ Commit # Blob /\ Kind \cup {Tag} \subseteq Type
<1>1. 6 \in Tag /\ 6 \notin Commit /\ 6 \notin Tree /\ 6 \notin Blob
  BY DEF Tag, Commit, Tree, Blob
<1>2. 5 \in Blob /\ 5 \notin Commit
  BY DEF Commit, Blob
<1>3. {4} \subseteq 4 .. 6 /\ {5} \subseteq 4 .. 6 /\ {6} \subseteq 4 .. 6 /\ {4, 5} \subseteq 4 .. 6
  OBVIOUS
<1>4. Kind \cup {Tag} \subseteq Type
  BY <1>3 DEF Kind, Tag, Commit, Tree, Blob, Type
<1> QED BY <1>1, <1>2, <1>4 DEF Kind

LEMMA ByteType ==
  ASSUME file \in Files, NEW i \in 1 .. 10
  PROVE  ByteAt(i) \in [more : BOOLEAN, bits : SUBSET (0 .. 6)]
BY DEF ByteAt, HeaderByte, NoByte, Files, Type

-----------------------------------------------------------------------------
LEMMA InitStep == Init => IInv
BY DEF Init, IInv, TypeOK, HeaderInv, VerdictInv, NoByte, Type, Ended

LEMMA OpenPackStep == IInv /\ OpenPack => IInv'
<1> SUFFICES ASSUME IInv, OpenPack PROVE IInv'
  OBVIOUS
<1> USE DEF OpenPack, IInv, TypeOK, header
<1>1. file \in Files /\ file.groups \in 0 .. 9 /\ file.kept \in 0 .. 10 /\ file.type \in Type
      /\ file.size \in SUBSET (0 .. 62)
  BY ObjectReadAssumption DEF Files
<1>2. byte' \in [more : BOOLEAN, bits : SUBSET (0 .. 6)]
  BY <1>1, ByteType
<1>3. byte' = ByteAt(1)'
  BY DEF ByteAt, HeaderByte
<1>4. type' = IF file.kept > 0 THEN file.type ELSE {}
  BY <1>1 DEF ByteAt, HeaderByte, NoByte, Type
<1>5. Intact => size' = file.size \cap 0 .. 3
  BY <1>1 DEF ByteAt, HeaderByte, Intact, Type
<1>6. TypeOK'
  BY <1>1, <1>2 DEF Type
<1>7. HeaderInv'
  BY <1>1, <1>3, <1>4, <1>5 DEF HeaderInv, Intact, Small
<1>8. VerdictInv'
  BY DEF VerdictInv
<1> QED BY <1>6, <1>7, <1>8

LEMMA NextGroupStep == IInv /\ NextGroup => IInv'
<1> SUFFICES ASSUME IInv, NextGroup PROVE IInv'
  OBVIOUS
<1> USE DEF NextGroup, IInv, TypeOK
<1>1. file \in Files /\ file.groups \in 0 .. 9 /\ file.kept \in 0 .. 10
      /\ file.size \in SUBSET (0 .. 62) /\ Needs(file.size, file.groups)
  BY ObjectReadAssumption DEF Files
<1>2. ~ file.loose /\ phase # "start"
  BY DEF HeaderInv
<1>3. at \in 1 .. file.groups
  BY <1>1, <1>2 DEF HeaderInv, ByteAt, HeaderByte, NoByte
<1>4. at' \in 1 .. 10 /\ at' \in 1 .. file.groups + 1 /\ shift' = 4 + 7 * (at' - 1)
  BY <1>1, <1>2, <1>3 DEF HeaderInv
<1>5. byte' \in [more : BOOLEAN, bits : SUBSET (0 .. 6)]
  BY <1>1, <1>4, ByteType
<1>6. byte' = ByteAt(at)'
  BY DEF ByteAt, HeaderByte
<1>7. TypeOK'
  <2>1. size' \subseteq 0 .. 63
    BY ShiftedType
  <2> QED BY <1>1, <1>4, <1>5, <2>1
<1>8. ASSUME Small, Intact PROVE size' = file.size \cap 0 .. shift' - 1
  <2>1. file.groups <= 4 /\ shift \in {4, 11, 18, 25}
    <3>1. file.groups <= 4
      BY <1>1, <1>8, FourGroups DEF Small
    <3>2. shift = 4 + 7 * (at - 1)
      BY <1>2 DEF HeaderInv
    <3> QED BY <1>1, <1>3, <3>1, <3>2
  <2>2. byte'.bits = {b \in 0 .. 6 : shift + b \in file.size}
    <3>1. at + 1 <= file.kept /\ at + 1 # 1
      BY <1>1, <1>3, <1>8 DEF Intact
    <3>2. shift = 4 + 7 * ((at + 1) - 2)
      BY <1>1, <1>2, <1>3 DEF HeaderInv
    <3> QED BY <3>1, <3>2 DEF ByteAt, HeaderByte
  <2>3. Shifted(byte'.bits, shift) = file.size \cap shift .. shift + 6
    <3>1. file.size \in SUBSET (0 .. 30)
      BY <1>8 DEF Small
    <3>2. Shifted({b \in 0 .. 6 : shift + b \in file.size}, shift) = file.size \cap shift .. shift + 6
      BY ONLY <3>1, <2>1, GroupFits
    <3> QED BY <3>2, <2>2
  <2>4. size = file.size \cap 0 .. shift - 1
    BY <1>2, <1>8 DEF HeaderInv
  <2> QED BY <1>1, <2>1, <2>3, <2>4
<1>9. HeaderInv'
  BY <1>2, <1>4, <1>6, <1>8 DEF HeaderInv, Small, Intact
<1>10. VerdictInv'
  BY DEF VerdictInv
<1> QED BY <1>7, <1>9, <1>10

(* When no byte says more, the whole size has been put together.           *)
LEMMA WholeSize ==
  ASSUME IInv, phase # "start", ~ file.loose, ~ byte.more, Small, Intact
  PROVE  size = file.size /\ type = file.type
<1>1. file \in Files /\ file.groups \in 0 .. 9 /\ file.kept \in 0 .. 10
      /\ Needs(file.size, file.groups)
  BY DEF IInv, TypeOK, Files
<1>2. at = file.groups + 1
  <2>1. at \in 1 .. file.groups + 1 /\ byte = ByteAt(at)
    BY DEF IInv, HeaderInv
  <2>2. ByteAt(at).more <=> at <= file.groups
    <3>1. ByteAt(at) = HeaderByte(at)
      BY <1>1, <2>1 DEF ByteAt, Intact
    <3>2. HeaderByte(at).more <=> at <= file.groups
      BY Zenon DEF HeaderByte
    <3> QED BY <3>1, <3>2
  <2> QED BY <1>1, <2>1, <2>2
<1>3. shift - 1 = 3 + 7 * file.groups
  BY <1>1, <1>2 DEF IInv, HeaderInv
<1>4. file.size \subseteq 0 .. shift - 1
  BY <1>1, <1>3 DEF Needs
<1>5. size = file.size \cap 0 .. shift - 1 /\ type = IF file.kept > 0 THEN file.type ELSE {}
  BY DEF IInv, HeaderInv
<1> QED BY <1>1, <1>4, <1>5 DEF Intact

LEMMA HeaderDoneStep == IInv /\ HeaderDone => IInv'
<1> SUFFICES ASSUME IInv, HeaderDone PROVE IInv'
  OBVIOUS
<1> USE DEF HeaderDone, header
<1>1. file \in Files
  BY DEF IInv, TypeOK
<1>2. TypeOK'
  BY DEF IInv, TypeOK, Ended
<1>3. HeaderInv'
  BY DEF IInv, HeaderInv, ByteAt, HeaderByte, Small, Intact
<1>4. VerdictInv'
  <2>1. IsDelta(type) => ~ Sound(file) /\ ~ EmptyTag(file)
    BY <1>1 DEF IInv, HeaderInv, IsDelta, Sound, EmptyTag, Files, Kind, Commit, Tree, Blob, Tag
  <2> QED BY <2>1 DEF VerdictInv, Small
<1> QED BY <1>2, <1>3, <1>4 DEF IInv

LEMMA InflateLooseStep == IInv /\ InflateLoose => IInv'
<1> SUFFICES ASSUME IInv, InflateLoose PROVE IInv'
  OBVIOUS
<1> USE DEF InflateLoose
<1>1. file \in Files /\ file.type \in Type
  BY DEF IInv, TypeOK, Files
<1>2. TypeOK'
  BY <1>1 DEF IInv, TypeOK, Ended
<1>3. HeaderInv'
  BY DEF IInv, HeaderInv
<1>4. VerdictInv'
  BY KindsDiffer DEF VerdictInv, Small, Sound, EmptyTag
<1> QED BY <1>2, <1>3, <1>4 DEF IInv

LEMMA InflatePackedStep == IInv /\ InflatePacked => IInv'
<1> SUFFICES ASSUME IInv, InflatePacked PROVE IInv'
  OBVIOUS
<1> USE DEF InflatePacked, header
<1>1. file \in Files /\ (file.whole => Intact)
  BY DEF IInv, TypeOK, Files, Intact
<1>2. TypeOK'
  BY DEF IInv, TypeOK, Ended
<1>3. HeaderInv'
  BY DEF IInv, HeaderInv, ByteAt, HeaderByte, Small, Intact
<1>4. file.whole /\ Small => size = file.size /\ type = file.type
  BY <1>1, WholeSize DEF IInv, HeaderInv
<1>5. VerdictInv'
  BY <1>4 DEF VerdictInv, Small, Sound, EmptyTag
<1> QED BY <1>2, <1>3, <1>5 DEF IInv

LEMMA BuildStep == IInv /\ Build => IInv'
<1> SUFFICES ASSUME IInv, Build PROVE IInv'
  OBVIOUS
<1> USE DEF Build, header
<1>1. TypeOK'
  <2>1. object' \in Type
    BY KindsDiffer DEF IInv, TypeOK, Kind
  <2> QED BY <2>1 DEF IInv, TypeOK, Ended
<1>2. HeaderInv'
  BY DEF IInv, HeaderInv, ByteAt, HeaderByte, Small, Intact
<1>3. VerdictInv'
  <2>1. type \in Kind \cup {Tag}
    BY DEF IInv, VerdictInv
  <2>2. CASE type = Tag /\ file.stored # {}
    BY <2>2, KindsDiffer DEF IInv, VerdictInv, Small, Sound, EmptyTag
  <2>3. CASE type = Tag /\ file.stored = {}
    <3>1. object' = Tree /\ phase' = "built"
      BY <2>3, KindsDiffer DEF Kind
    <3> QED BY <2>3, <3>1 DEF IInv, VerdictInv, Small
  <2>4. CASE type # Tag
    <3>1. type \in Kind /\ object' = type /\ phase' = "built"
      BY <2>1, <2>4 DEF Kind
    <3> QED BY <2>4, <3>1 DEF IInv, VerdictInv, Small
  <2> QED BY <2>1, <2>2, <2>3, <2>4
<1> QED BY <1>1, <1>2, <1>3 DEF IInv

LEMMA StutterStep == IInv /\ UNCHANGED vars => IInv'
BY DEF IInv, vars, header, TypeOK, HeaderInv, VerdictInv, ByteAt, HeaderByte, Small, Intact, Sound, EmptyTag

LEMMA NextStep == IInv /\ [Next]_vars => IInv'
<1> SUFFICES ASSUME IInv, [Next]_vars PROVE IInv'
  OBVIOUS
<1>1. CASE OpenLoose
  BY <1>1 DEF OpenLoose, IInv, header, TypeOK, HeaderInv, VerdictInv
<1>2. CASE OpenPack
  BY <1>2, OpenPackStep
<1>3. CASE NextGroup
  BY <1>3, NextGroupStep
<1>4. CASE HeaderDone
  BY <1>4, HeaderDoneStep
<1>5. CASE InflateLoose
  BY <1>5, InflateLooseStep
<1>6. CASE InflatePacked
  BY <1>6, InflatePackedStep
<1>7. CASE Build
  BY <1>7, BuildStep
<1>8. CASE UNCHANGED vars
  BY <1>8, StutterStep
<1> QED BY <1>1, <1>2, <1>3, <1>4, <1>5, <1>6, <1>7, <1>8 DEF Next

LEMMA Inductive == Spec => []IInv
<1> QED BY InitStep, NextStep, PTL DEF Spec

-----------------------------------------------------------------------------
(* The reader's state has the types it is declared with: however a file is *)
(* cut, the loop of read_pack_object_header ends within the header, and    *)
(* nothing it computes leaves 64 bits.                                     *)
THEOREM ReaderTypes == Spec => []TypeOK
<1>1. IInv => TypeOK
  BY DEF IInv
<1> QED BY Inductive, <1>1, PTL

(* Every size below two gigabytes is read from a pack as it was written.   *)
THEOREM SizesSurvive == Spec => []SizeReadBack
<1>1. IInv => SizeReadBack
  <2> SUFFICES ASSUME IInv, Small, Intact, ~ file.loose, phase \notin {"start", "header"}
               PROVE  size = file.size /\ type = file.type
    BY DEF SizeReadBack
  <2>1. ~ byte.more
    BY DEF IInv, HeaderInv
  <2> QED BY <2>1, WholeSize
<1> QED BY Inductive, <1>1, PTL

(* Every sound object below two gigabytes is read as what it is, and       *)
(* nothing else is read as anything.                                       *)
THEOREM SoundObjectsRead == Spec => []ReadsWhatIsStored
<1>1. IInv => ReadsWhatIsStored
  BY KindsDiffer DEF IInv, VerdictInv, ReadsWhatIsStored, Sound, EmptyTag, Ended
<1> QED BY Inductive, <1>1, PTL

-----------------------------------------------------------------------------
(***************************************************************************)
(* Texts: numbers in sets, parts of sequences.                             *)
(***************************************************************************)
LEMMA LeastNatural ==
  ASSUME NEW S \in SUBSET Nat, S # {}
  PROVE  \E m \in S : \A k \in S : m <= k
<1> DEFINE T == {1 .. n : n \in S}
<1>1. T \subseteq FiniteSubsetsOf(Nat) /\ T # {}
  <2>1. ASSUME NEW n \in S PROVE (1 .. n) \subseteq Nat /\ IsFiniteSet(1 .. n)
    BY FS_Interval
  <2> QED BY <2>1 DEF FiniteSubsetsOf
<1>2. PICK x \in T : \A y \in T : <<y, x>> \notin StrictSubsetOrdering(Nat)
  <2> HIDE DEF T
  <2> QED BY <1>1, FS_StrictSubsetOrderingWellFounded, WFMin
<1>3. PICK m \in S : x = 1 .. m
  OBVIOUS
<1>4. ASSUME NEW k \in S, k < m PROVE FALSE
  <2>1. 1 .. k \in T
    OBVIOUS
  <2>2. (1 .. k) \subseteq (1 .. m) /\ (1 .. k) # (1 .. m)
    <3>1. m \in 1 .. m /\ m \notin 1 .. k
      BY <1>4
    <3> QED BY <3>1, <1>4
  <2>3. <<1 .. k, x>> \in StrictSubsetOrdering(Nat)
    BY <2>2, <1>3 DEF StrictSubsetOrdering
  <2> QED BY <2>1, <2>3, <1>2
<1> QED BY <1>4

LEMMA GreatestNatural ==
  ASSUME NEW S \in SUBSET Nat, S # {}, NEW n \in Nat, \A k \in S : k <= n
  PROVE  \E m \in S : \A k \in S : k <= m
<1> DEFINE T == {n - k : k \in S}
<1>1. T \in SUBSET Nat /\ T # {}
  <2>1. ASSUME NEW k \in S PROVE n - k \in Nat
    <3>1. k <= n /\ k \in Nat
      OBVIOUS
    <3> QED BY <3>1
  <2> QED BY <2>1
<1>2. PICK t \in T : \A u \in T : t <= u
  <2> HIDE DEF T
  <2> QED BY <1>1, LeastNatural
<1>3. PICK m \in S : t = n - m
  OBVIOUS
<1>4. ASSUME NEW k \in S PROVE k <= m
  <2>1. n - m <= n - k
    BY <1>2, <1>3
  <2>2. k \in Nat /\ m \in Nat
    OBVIOUS
  <2> QED BY <2>1, <2>2
<1> QED BY <1>4

LEMMA MaxIs ==
  ASSUME NEW S \in SUBSET Nat, S # {}, NEW n \in Nat, \A k \in S : k <= n
  PROVE  Max(S) \in S /\ \A k \in S : k <= Max(S)
<1>1. \E m \in S : \A k \in S : m >= k
  BY GreatestNatural
<1> QED BY <1>1 DEF Max

LEMMA MinIs ==
  ASSUME NEW S \in SUBSET Nat, S # {}
  PROVE  Min(S) \in S /\ \A k \in S : Min(S) <= k
BY LeastNatural DEF Min

(* A property of one number, passed on to the next, is one of all up to a  *)
(* bound: induction, for a set instead of a predicate.                     *)
LEMMA Ladder ==
  ASSUME NEW S, NEW a \in Nat, NEW b \in Nat, a \in S,
         \A x \in a .. b - 1 : x \in S => x + 1 \in S
  PROVE  \A x \in a .. b : x \in S
<1> DEFINE Missed == {x \in a .. b : x \notin S}
<1>1. ASSUME Missed # {} PROVE FALSE
  <2>1. Missed \in SUBSET Nat
    OBVIOUS
  <2>2. PICK m \in Missed : \A k \in Missed : m <= k
    <3> HIDE DEF Missed
    <3> QED BY <1>1, <2>1, LeastNatural
  <2>3. m \in a .. b /\ m \notin S /\ m # a
    OBVIOUS
  <2>4. m - 1 \in a .. b - 1 /\ m - 1 \in a .. b /\ ~(m <= m - 1)
    BY <2>3
  <2>5. m - 1 \in S
    BY <2>2, <2>4
  <2>6. (m - 1) + 1 = m
    BY <2>3
  <2> QED BY <2>3, <2>4, <2>5, <2>6
<1> QED BY <1>1

-----------------------------------------------------------------------------
(* The part of a text between two places.                                  *)
LEMMA PartIs ==
  ASSUME NEW S, NEW v \in Seq(S), NEW m \in Nat, NEW n \in Int, m >= 1, n <= Len(v), n >= m - 1
  PROVE  /\ SubSeq(v, m, n) \in Seq(S) /\ Len(SubSeq(v, m, n)) = n - m + 1
         /\ \A k \in 1 .. n - m + 1 : SubSeq(v, m, n)[k] = v[m + k - 1]
<1>1. \A k \in m .. n : v[k] \in S
  <2> SUFFICES ASSUME NEW k \in m .. n PROVE v[k] \in S
    OBVIOUS
  <2>1. k \in 1 .. Len(v)
    OBVIOUS
  <2> QED BY <2>1, ElementOfSeq
<1>2. m \in Int
  OBVIOUS
<1>3. /\ SubSeq(v, m, n) \in Seq(S)
      /\ Len(SubSeq(v, m, n)) = IF m <= n THEN n - m + 1 ELSE 0
      /\ \A k \in 1 .. n - m + 1 : SubSeq(v, m, n)[k] = v[m + k - 1]
  BY <1>1, <1>2, SubSeqProperties
<1> QED BY <1>3

LEMMA Cut ==
  ASSUME NEW S, NEW v \in Seq(S), NEW n \in 0 .. Len(v)
  PROVE  v = SubSeq(v, 1, n) \o SubSeq(v, n + 1, Len(v))
<1> DEFINE a == SubSeq(v, 1, n)
           b == SubSeq(v, n + 1, Len(v))
<1>0. Len(v) \in Nat /\ 1 \in Nat /\ n + 1 \in Nat /\ n \in Int /\ Len(v) \in Int
  OBVIOUS
<1>1. a \in Seq(S) /\ Len(a) = n /\ \A k \in 1 .. n : a[k] = v[k]
  <2>1. /\ a \in Seq(S) /\ Len(a) = n - 1 + 1
        /\ \A k \in 1 .. n - 1 + 1 : a[k] = v[1 + k - 1]
    BY PartIs, <1>0
  <2>2. \A k \in 1 .. n : 1 + k - 1 = k
    OBVIOUS
  <2> QED BY <2>1, <2>2
<1>2. b \in Seq(S) /\ Len(b) = Len(v) - n /\ \A k \in 1 .. Len(v) - n : b[k] = v[n + k]
  <2>1. /\ b \in Seq(S) /\ Len(b) = Len(v) - (n + 1) + 1
        /\ \A k \in 1 .. Len(v) - (n + 1) + 1 : b[k] = v[(n + 1) + k - 1]
    BY PartIs, <1>0
  <2>2. \A k \in 1 .. Len(v) - n : (n + 1) + k - 1 = n + k
    OBVIOUS
  <2> QED BY <2>1, <2>2, <1>0
<1> HIDE DEF a, b
<1>3. a \o b \in Seq(S) /\ Len(a \o b) = Len(v)
  <2>1. a \o b \in Seq(S) /\ Len(a \o b) = Len(a) + Len(b)
    BY ONLY <1>1, <1>2, ConcatProperties
  <2> QED BY <2>1, <1>1, <1>2, <1>0
<1>4. \A k \in 1 .. Len(v) : v[k] = (a \o b)[k]
  <2> SUFFICES ASSUME NEW k \in 1 .. Len(v) PROVE v[k] = (a \o b)[k]
    OBVIOUS
  <2>1. (a \o b)[k] = IF k <= Len(a) THEN a[k] ELSE b[k - Len(a)]
    BY <1>1, <1>2, <1>0, ConcatProperties
  <2> QED BY <2>1, <1>1, <1>2, <1>0
<1>5. v = a \o b
  BY <1>3, <1>4, SeqEqual
<1> QED BY <1>5 DEF a, b

-----------------------------------------------------------------------------
(* Identities: where the text of one is cut.                               *)
LEMMA AtIs ==
  ASSUME NEW v \in Text, NEW a, NEW b
  PROVE  At(v, a, b) \in SUBSET Nat /\ \A n \in At(v, a, b) : n <= Len(v)
<1>1. Len(v) \in Nat
  BY DEF Text
<1>2. \A n \in At(v, a, b) : n \in Nat /\ n <= Len(v)
  BY <1>1 DEF At
<1> QED BY ONLY <1>2

(* The cuts of an identity, in their order.                                *)
LEMMA CutsAre ==
  ASSUME NEW v \in Text, IsIdentity(v)
  PROVE  /\ EmailStart(v) \in 1 .. Len(v) - 1
         /\ v[EmailStart(v)] = Space /\ v[EmailStart(v) + 1] = Less
         /\ EmailEnd(v) \in EmailStart(v) + 2 .. Len(v) - 1
         /\ v[EmailEnd(v)] = Greater /\ v[EmailEnd(v) + 1] = Space
         /\ Min(TimestampEnds(v)) \in EmailEnd(v) + 2 .. Len(v)
         /\ v[Min(TimestampEnds(v))] = Space
<1>1. Len(v) \in Nat
  BY DEF Text
<1>2. EmailStart(v) \in At(v, Space, Less)
  BY AtIs, MaxIs, <1>1 DEF EmailStart, IsIdentity
<1>3. EmailStart(v) \in 1 .. Len(v) - 1 /\ v[EmailStart(v)] = Space /\ v[EmailStart(v) + 1] = Less
  BY <1>2 DEF At
<1>4. EmailEnd(v) \in EmailEnds(v)
  <2>1. EmailEnds(v) \in SUBSET Nat
    BY AtIs DEF EmailEnds
  <2> QED BY <2>1, MinIs DEF EmailEnd, IsIdentity
<1>5. EmailEnd(v) \in 1 .. Len(v) - 1 /\ EmailEnd(v) >= EmailStart(v)
      /\ v[EmailEnd(v)] = Greater /\ v[EmailEnd(v) + 1] = Space
  BY <1>4 DEF EmailEnds, At
<1>6. EmailEnd(v) # EmailStart(v) /\ EmailEnd(v) # EmailStart(v) + 1
  BY <1>3, <1>5 DEF Space, Less, Greater
<1>7. Min(TimestampEnds(v)) \in TimestampEnds(v)
  <2>1. TimestampEnds(v) \in SUBSET Nat
    BY DEF TimestampEnds
  <2> QED BY <2>1, MinIs DEF IsIdentity
<1>8. Min(TimestampEnds(v)) \in 1 .. Len(v) /\ Min(TimestampEnds(v)) >= EmailEnd(v) + 2
      /\ v[Min(TimestampEnds(v))] = Space
  BY <1>7 DEF TimestampEnds
<1>9. EmailStart(v) \in Nat /\ EmailEnd(v) \in Nat
  BY <1>1, <1>3, <1>5
<1>10. EmailEnd(v) \in EmailStart(v) + 2 .. Len(v) - 1
  BY <1>1, <1>5, <1>6, <1>9
<1>11. Min(TimestampEnds(v)) \in EmailEnd(v) + 2 .. Len(v)
  BY <1>1, <1>8, <1>9
<1> QED BY <1>3, <1>5, <1>8, <1>10, <1>11

(* Two sequences in one.                                                   *)
LEMMA Joined ==
  ASSUME NEW S, NEW a \in Seq(S), NEW b \in Seq(S)
  PROVE  /\ a \o b \in Seq(S) /\ Len(a \o b) = Len(a) + Len(b)
         /\ \A k \in 1 .. Len(a) : (a \o b)[k] = a[k]
         /\ \A k \in 1 .. Len(b) : (a \o b)[Len(a) + k] = b[k]
<1>1. /\ a \o b \in Seq(S) /\ Len(a \o b) = Len(a) + Len(b)
      /\ \A k \in 1 .. Len(a) + Len(b) :
           (a \o b)[k] = IF k <= Len(a) THEN a[k] ELSE b[k - Len(a)]
  BY ConcatProperties
<1>2. Len(a) \in Nat /\ Len(b) \in Nat
  OBVIOUS
<1>3. ASSUME NEW k \in 1 .. Len(b)
      PROVE  Len(a) + k \in 1 .. Len(a) + Len(b) /\ ~(Len(a) + k <= Len(a)) /\ Len(a) + k - Len(a) = k
  BY <1>2
<1>4. \A k \in 1 .. Len(a) : k \in 1 .. Len(a) + Len(b) /\ k <= Len(a)
  BY <1>2
<1> DEFINE ab == a \o b
<1> HIDE DEF ab
<1>5. /\ \A k \in 1 .. Len(a) : ab[k] = a[k]
      /\ \A k \in 1 .. Len(b) : ab[Len(a) + k] = b[k]
  BY <1>1, <1>3, <1>4 DEF ab
<1> QED BY <1>1, <1>5 DEF ab

(* A part with the bytes of a text is that text.                           *)
LEMMA PieceIs ==
  ASSUME NEW S, NEW w \in Seq(S), NEW x \in Seq(S), NEW d \in Nat, d + Len(x) <= Len(w),
         \A k \in 1 .. Len(x) : w[d + k] = x[k]
  PROVE  SubSeq(w, d + 1, d + Len(x)) = x
<1> DEFINE m == d + 1  n == d + Len(x)
<1>1. /\ m \in Nat /\ n \in Int /\ m >= 1 /\ n <= Len(w) /\ n >= m - 1 /\ Len(x) \in Nat
      /\ n - m + 1 = Len(x)
  OBVIOUS
<1>2. \A k \in 1 .. Len(x) : m + k - 1 = d + k
  OBVIOUS
<1> HIDE DEF m, n
<1>3. /\ SubSeq(w, m, n) \in Seq(S) /\ Len(SubSeq(w, m, n)) = n - m + 1
      /\ \A k \in 1 .. n - m + 1 : SubSeq(w, m, n)[k] = w[m + k - 1]
  BY <1>1, PartIs
<1> DEFINE y == SubSeq(w, m, n)
<1> HIDE DEF y
<1>4. y \in Seq(S) /\ Len(y) = Len(x) /\ \A k \in 1 .. Len(x) : y[k] = x[k]
  BY <1>1, <1>2, <1>3 DEF y
<1>5. y = x
  BY <1>4, SeqEqual
<1> QED BY <1>5 DEF y, m, n

LEMMA WithTimeIs ==
  ASSUME NEW i \in Person, NEW c \in Text
  PROVE  LET w == WithTime(i, c)
             n == Len(i.name)
             e == n + Len(i.email)
             t == e + Len(c)
             z == Len(i.timezone)
         IN /\ w \in Text /\ Len(w) = t + z + 5
            /\ \A k \in 1 .. n : w[k] = i.name[k]
            /\ w[n + 1] = Space /\ w[n + 2] = Less
            /\ \A k \in 1 .. Len(i.email) : w[n + 2 + k] = i.email[k]
            /\ w[e + 3] = Greater /\ w[e + 4] = Space
            /\ \A k \in 1 .. Len(c) : w[e + 4 + k] = c[k]
            /\ w[t + 5] = Space
            /\ \A k \in 1 .. z : w[t + 5 + k] = i.timezone[k]
<1> DEFINE a == i.name  b == i.email  d == i.timezone
           p == <<Space, Less>>  q == <<Greater, Space>>  r == <<Space>>
           w1 == a \o p  w2 == w1 \o b  w3 == w2 \o q  w4 == w3 \o c  w5 == w4 \o r  w6 == w5 \o d
<1>1. a \in Seq(Byte) /\ b \in Seq(Byte) /\ c \in Seq(Byte) /\ d \in Seq(Byte)
  BY DEF Person, Text
<1>2. p \in Seq(Byte) /\ q \in Seq(Byte) /\ r \in Seq(Byte)
  BY DEF Space, Less, Greater, Byte
<1>3. Len(p) = 2 /\ Len(q) = 2 /\ Len(r) = 1
      /\ p[1] = Space /\ p[2] = Less /\ q[1] = Greater /\ q[2] = Space /\ r[1] = Space
  OBVIOUS
<1>4. WithTime(i, c) = w6
  BY DEF WithTime
<1> HIDE DEF a, b, d, p, q, r, w1, w2, w3, w4, w5, w6
<1>5. w1 \in Seq(Byte) /\ w2 \in Seq(Byte) /\ w3 \in Seq(Byte) /\ w4 \in Seq(Byte) /\ w5 \in Seq(Byte)
  <2>1. w1 \in Seq(Byte)
    BY ONLY <1>1, <1>2, Joined DEF w1
  <2>2. w2 \in Seq(Byte)
    BY ONLY <2>1, <1>1, <1>2, Joined DEF w2
  <2>3. w3 \in Seq(Byte)
    BY ONLY <2>2, <1>1, <1>2, Joined DEF w3
  <2>4. w4 \in Seq(Byte)
    BY ONLY <2>3, <1>1, <1>2, Joined DEF w4
  <2>5. w5 \in Seq(Byte)
    BY ONLY <2>4, <1>1, <1>2, Joined DEF w5
  <2> QED BY <2>1, <2>2, <2>3, <2>4, <2>5
<1>w1. /\ Len(w1) = Len(a) + Len(p)
       /\ \A k \in 1 .. Len(a) : w1[k] = a[k]
       /\ \A k \in 1 .. Len(p) : w1[Len(a) + k] = p[k]
  BY ONLY <1>1, <1>2, <1>5, Joined DEF w1
<1>w2. /\ Len(w2) = Len(w1) + Len(b)
       /\ \A k \in 1 .. Len(w1) : w2[k] = w1[k]
       /\ \A k \in 1 .. Len(b) : w2[Len(w1) + k] = b[k]
  BY ONLY <1>1, <1>2, <1>5, Joined DEF w2
<1>w3. /\ Len(w3) = Len(w2) + Len(q)
       /\ \A k \in 1 .. Len(w2) : w3[k] = w2[k]
       /\ \A k \in 1 .. Len(q) : w3[Len(w2) + k] = q[k]
  BY ONLY <1>1, <1>2, <1>5, Joined DEF w3
<1>w4. /\ Len(w4) = Len(w3) + Len(c)
       /\ \A k \in 1 .. Len(w3) : w4[k] = w3[k]
       /\ \A k \in 1 .. Len(c) : w4[Len(w3) + k] = c[k]
  BY ONLY <1>1, <1>2, <1>5, Joined DEF w4
<1>w5. /\ Len(w5) = Len(w4) + Len(r)
       /\ \A k \in 1 .. Len(w4) : w5[k] = w4[k]
       /\ \A k \in 1 .. Len(r) : w5[Len(w4) + k] = r[k]
  BY ONLY <1>1, <1>2, <1>5, Joined DEF w5
<1>w6. /\ Len(w6) = Len(w5) + Len(d)
       /\ \A k \in 1 .. Len(w5) : w6[k] = w5[k]
       /\ \A k \in 1 .. Len(d) : w6[Len(w5) + k] = d[k]
  BY ONLY <1>1, <1>2, <1>5, Joined DEF w6
<1>6. w6 \in Seq(Byte)
  BY ONLY <1>1, <1>5, Joined DEF w6
<1>11. Len(a) \in Nat /\ Len(b) \in Nat /\ Len(c) \in Nat /\ Len(d) \in Nat
  BY <1>1
<1>12. /\ Len(w1) = Len(a) + 2 /\ Len(w2) = Len(a) + Len(b) + 2 /\ Len(w3) = Len(a) + Len(b) + 4
       /\ Len(w4) = Len(a) + Len(b) + Len(c) + 4 /\ Len(w5) = Len(a) + Len(b) + Len(c) + 5
       /\ Len(w6) = Len(a) + Len(b) + Len(c) + Len(d) + 5
  BY ONLY <1>3, <1>w1, <1>w2, <1>w3, <1>w4, <1>w5, <1>w6, <1>11
<1>x4. \A k \in 1 .. Len(w4) : w6[k] = w4[k]
  BY ONLY <1>w5, <1>w6, <1>11, <1>12
<1>x3. \A k \in 1 .. Len(w3) : w6[k] = w3[k]
  BY ONLY <1>w4, <1>x4, <1>11, <1>12
<1>x2. \A k \in 1 .. Len(w2) : w6[k] = w2[k]
  BY ONLY <1>w3, <1>x3, <1>11, <1>12
<1>x1. \A k \in 1 .. Len(w1) : w6[k] = w1[k]
  BY ONLY <1>w2, <1>x2, <1>11, <1>12
<1>13. \A k \in 1 .. Len(a) : w6[k] = a[k]
  BY ONLY <1>w1, <1>x1, <1>11, <1>12
<1>14. w6[Len(a) + 1] = Space /\ w6[Len(a) + 2] = Less
  <2>1. w1[Len(a) + 1] = Space /\ w1[Len(a) + 2] = Less
    <3>1. 1 \in 1 .. Len(p) /\ 2 \in 1 .. Len(p)
      BY ONLY <1>3
    <3>2. \A k \in 1 .. Len(p) : w1[Len(a) + k] = p[k]
      BY ONLY <1>1, <1>2, Joined DEF w1
    <3> QED BY ONLY <3>1, <3>2, <1>3, <1>11
  <2> QED BY ONLY <2>1, <1>x1, <1>11, <1>12
<1>15. \A k \in 1 .. Len(b) : w6[Len(a) + 2 + k] = b[k]
  BY ONLY <1>w2, <1>x2, <1>11, <1>12
<1>16. w6[Len(a) + Len(b) + 3] = Greater /\ w6[Len(a) + Len(b) + 4] = Space
  <2>1. w3[Len(w2) + 1] = Greater /\ w3[Len(w2) + 2] = Space
    <3>1. 1 \in 1 .. Len(q) /\ 2 \in 1 .. Len(q)
      BY ONLY <1>3
    <3>2. w3[Len(w2) + 1] = q[1] /\ w3[Len(w2) + 2] = q[2]
      BY ONLY <3>1, <1>w3, <1>11, <1>12
    <3> QED BY ONLY <3>2, <1>3
  <2>2. /\ Len(w2) + 1 = Len(a) + Len(b) + 3 /\ Len(w2) + 2 = Len(a) + Len(b) + 4
        /\ Len(w2) + 1 \in 1 .. Len(w3) /\ Len(w2) + 2 \in 1 .. Len(w3)
    BY ONLY <1>11, <1>12
  <2> QED BY ONLY <2>1, <2>2, <1>x3
<1>17. \A k \in 1 .. Len(c) : w6[Len(a) + Len(b) + 4 + k] = c[k]
  BY ONLY <1>w4, <1>x4, <1>11, <1>12
<1>18. w6[Len(a) + Len(b) + Len(c) + 5] = Space
  <2>1. w5[Len(w4) + 1] = r[1] /\ Len(w4) + 1 = Len(a) + Len(b) + Len(c) + 5
    BY ONLY <1>3, <1>w5, <1>11, <1>12
  <2> QED BY <2>1, <1>3, <1>w6, <1>11, <1>12
<1>19. \A k \in 1 .. Len(d) : w6[Len(a) + Len(b) + Len(c) + 5 + k] = d[k]
  BY ONLY <1>w6, <1>12
<1>20. w6 \in Text
  BY <1>6 DEF Text
<1> QED BY ONLY <1>4, <1>12, <1>13, <1>14, <1>15, <1>16, <1>17, <1>18, <1>19, <1>20 DEF a, b, d

(* What is cut out of an identity makes its text again.                    *)
LEMMA IdentityRejoined ==
  ASSUME NEW v \in Text, IsIdentity(v)
  PROVE  /\ Parts(v) \in Person /\ Parts(v).timestamp \in Times
         /\ SaysWho(v, Parts(v))
<1> DEFINE s == EmailStart(v)
           e == EmailEnd(v)
           t == Min(TimestampEnds(v))
           name == SubSeq(v, 1, s - 1)
           email == SubSeq(v, s + 2, e - 1)
           time == SubSeq(v, e + 2, t - 1)
           timezone == SubSeq(v, t + 1, Len(v))
<1>0. v \in Seq(Byte) /\ Len(v) \in Nat
  BY DEF Text
<1>1. /\ s \in 1 .. Len(v) - 1 /\ v[s] = Space /\ v[s + 1] = Less
      /\ e \in s + 2 .. Len(v) - 1 /\ v[e] = Greater /\ v[e + 1] = Space
      /\ t \in e + 2 .. Len(v) /\ v[t] = Space
  BY CutsAre
<1> HIDE DEF s, e, t
<1>2. s \in Nat /\ e \in Nat /\ t \in Nat
  BY <1>0, <1>1
<1>3. /\ name \in Seq(Byte) /\ Len(name) = s - 1
      /\ \A k \in 1 .. s - 1 : name[k] = v[k]
  <2>1. /\ name \in Seq(Byte) /\ Len(name) = s - 1 - 1 + 1
        /\ \A k \in 1 .. s - 1 - 1 + 1 : name[k] = v[1 + k - 1]
    BY <1>0, <1>1, <1>2, PartIs
  <2>2. s - 1 - 1 + 1 = s - 1 /\ \A k \in 1 .. s - 1 : 1 + k - 1 = k
    BY <1>2
  <2> HIDE DEF name
  <2> QED BY <2>1, <2>2
<1>4. /\ email \in Seq(Byte) /\ Len(email) = e - s - 2
      /\ \A k \in 1 .. e - s - 2 : email[k] = v[s + 1 + k]
  <2>1. /\ email \in Seq(Byte) /\ Len(email) = e - 1 - (s + 2) + 1
        /\ \A k \in 1 .. e - 1 - (s + 2) + 1 : email[k] = v[s + 2 + k - 1]
    BY <1>0, <1>1, <1>2, PartIs
  <2>2. e - 1 - (s + 2) + 1 = e - s - 2 /\ \A k \in 1 .. e - s - 2 : s + 2 + k - 1 = s + 1 + k
    BY <1>2
  <2> HIDE DEF email
  <2> QED BY <2>1, <2>2
<1>5. /\ time \in Seq(Byte) /\ Len(time) = t - e - 2
      /\ \A k \in 1 .. t - e - 2 : time[k] = v[e + 1 + k]
  <2>1. /\ time \in Seq(Byte) /\ Len(time) = t - 1 - (e + 2) + 1
        /\ \A k \in 1 .. t - 1 - (e + 2) + 1 : time[k] = v[e + 2 + k - 1]
    BY <1>0, <1>1, <1>2, PartIs
  <2>2. t - 1 - (e + 2) + 1 = t - e - 2 /\ \A k \in 1 .. t - e - 2 : e + 2 + k - 1 = e + 1 + k
    BY <1>2
  <2> HIDE DEF time
  <2> QED BY <2>1, <2>2
<1>6. /\ timezone \in Seq(Byte) /\ Len(timezone) = Len(v) - t
      /\ \A k \in 1 .. Len(v) - t : timezone[k] = v[t + k]
  <2>1. /\ timezone \in Seq(Byte) /\ Len(timezone) = Len(v) - (t + 1) + 1
        /\ \A k \in 1 .. Len(v) - (t + 1) + 1 : timezone[k] = v[t + 1 + k - 1]
    BY <1>0, <1>1, <1>2, PartIs
  <2>2. Len(v) - (t + 1) + 1 = Len(v) - t /\ \A k \in 1 .. Len(v) - t : t + 1 + k - 1 = t + k
    BY <1>0, <1>2
  <2> HIDE DEF timezone
  <2> QED BY <2>1, <2>2
<1>7. TimestampText(v) = time /\ Parts(v) = [name |-> name, email |-> email, timestamp |-> Value(time), timezone |-> timezone]
  BY DEF Parts, TimestampText, s, e, t
<1> HIDE DEF name, email, time, timezone
<1>n. Number(time) /\ Value(time) \in Times
  BY <1>7 DEF IsIdentity
<1>8. Parts(v) \in Person /\ Parts(v).timestamp = Value(time)
  BY <1>3, <1>4, <1>6, <1>7, <1>n DEF Person, Text
<1> DEFINE w == WithTime(Parts(v), time)
<1>9. /\ w \in Seq(Byte) /\ Len(w) = Len(v)
      /\ \A k \in 1 .. s - 1 : w[k] = name[k]
      /\ w[s] = Space /\ w[s + 1] = Less
      /\ \A k \in 1 .. e - s - 2 : w[s + 1 + k] = email[k]
      /\ w[e] = Greater /\ w[e + 1] = Space
      /\ \A k \in 1 .. t - e - 2 : w[e + 1 + k] = time[k]
      /\ w[t] = Space
      /\ \A k \in 1 .. Len(v) - t : w[t + k] = timezone[k]
  <2> DEFINE i == Parts(v)
  <2>1. i.name = name /\ i.email = email /\ i.timezone = timezone /\ i \in Person
    BY <1>7, <1>8
  <2> HIDE DEF i
  <2>2. LET n == Len(i.name)
            f == n + Len(i.email)
            u == f + Len(time)
            z == Len(i.timezone)
        IN /\ n = s - 1 /\ n + 1 = s /\ n + 2 = s + 1 /\ f + 3 = e /\ f + 4 = e + 1 /\ u + 5 = t
           /\ u + z + 5 = Len(v) /\ Len(i.email) = e - s - 2 /\ Len(time) = t - e - 2
           /\ z = Len(v) - t
    BY <2>1, <1>0, <1>1, <1>2, <1>3, <1>4, <1>5, <1>6
  <2>3. LET x == WithTime(i, time)
            n == Len(i.name)
            f == n + Len(i.email)
            u == f + Len(time)
            z == Len(i.timezone)
        IN /\ x \in Text /\ Len(x) = u + z + 5
           /\ \A k \in 1 .. n : x[k] = i.name[k]
           /\ x[n + 1] = Space /\ x[n + 2] = Less
           /\ \A k \in 1 .. Len(i.email) : x[n + 2 + k] = i.email[k]
           /\ x[f + 3] = Greater /\ x[f + 4] = Space
           /\ \A k \in 1 .. Len(time) : x[f + 4 + k] = time[k]
           /\ x[u + 5] = Space
           /\ \A k \in 1 .. z : x[u + 5 + k] = i.timezone[k]
    BY <2>1, <1>5, WithTimeIs DEF Text
  <2> QED BY ONLY <2>1, <2>2, <2>3 DEF Text, i
<1> HIDE DEF w
<1>10. \A k \in 1 .. Len(v) : w[k] = v[k]
  <2> SUFFICES ASSUME NEW k \in 1 .. Len(v) PROVE w[k] = v[k]
    OBVIOUS
  <2>1. CASE k <= s - 1
    BY <2>1, <1>2, <1>3, <1>9
  <2>2. CASE k = s \/ k = s + 1
    BY <2>2, <1>1, <1>9
  <2>3. CASE k > s + 1 /\ k < e
    <3>1. k - s - 1 \in 1 .. e - s - 2 /\ s + 1 + (k - s - 1) = k
      BY <2>3, <1>2
    <3> QED BY <3>1, <1>4, <1>9
  <2>4. CASE k = e \/ k = e + 1
    BY <2>4, <1>1, <1>9
  <2>5. CASE k > e + 1 /\ k < t
    <3>1. k - e - 1 \in 1 .. t - e - 2 /\ e + 1 + (k - e - 1) = k
      BY <2>5, <1>2
    <3> QED BY <3>1, <1>5, <1>9
  <2>6. CASE k = t
    BY <2>6, <1>1, <1>9
  <2>7. CASE k > t
    <3>1. k - t \in 1 .. Len(v) - t /\ t + (k - t) = k
      BY <2>7, <1>0, <1>2
    <3> QED BY <3>1, <1>6, <1>9
  <2> QED BY <2>1, <2>2, <2>3, <2>4, <2>5, <2>6, <2>7, <1>0, <1>1, <1>2
<1>11. w = v
  BY <1>0, <1>9, <1>10, SeqEqual
<1>12. \E a, b \in DOMAIN v : time = SubSeq(v, a, b)
  <2>1. DOMAIN v = 1 .. Len(v) /\ e + 2 \in 1 .. Len(v)
    BY <1>0, <1>1, <1>2
  <2>2. t # e + 2
    <3> SUFFICES ASSUME t = e + 2 PROVE FALSE
      OBVIOUS
    <3>1. time = <<>>
      BY <1>2, <1>5
    <3>2. ~ Signed(time) /\ Digits(time) = <<>>
      BY <3>1 DEF Digits, Signed
    <3> QED BY <3>2, <1>n DEF Number
  <2>3. t - 1 \in 1 .. Len(v)
    BY <2>2, <1>0, <1>1, <1>2
  <2> QED BY ONLY <2>1, <2>3 DEF time
<1>13. SaysWho(v, Parts(v))
  BY <1>8, <1>11, <1>12, <1>n DEF SaysWho, w
<1> QED BY <1>8, <1>13, <1>n

(* A least and a greatest element are the only ones.                       *)
LEMMA MinUnique ==
  ASSUME NEW S \in SUBSET Nat, NEW m \in S, \A k \in S : m <= k
  PROVE  Min(S) = m
<1>1. Min(S) \in S /\ \A k \in S : Min(S) <= k
  BY MinIs
<1>2. Min(S) <= m /\ m <= Min(S) /\ Min(S) \in Nat /\ m \in Nat
  BY <1>1
<1> QED BY ONLY <1>2

LEMMA MaxUnique ==
  ASSUME NEW S \in SUBSET Nat, NEW m \in S, \A k \in S : k <= m
  PROVE  Max(S) = m
<1>1. Max(S) \in S /\ \A k \in S : k <= Max(S)
  BY MaxIs
<1>2. Max(S) <= m /\ m <= Max(S) /\ Max(S) \in Nat /\ m \in Nat
  BY <1>1
<1> QED BY ONLY <1>2

(* A number's bytes are neither spaces nor brackets.                       *)
LEMMA NumberBytes ==
  ASSUME NEW t \in Text, Number(t), NEW k \in 1 .. Len(t)
  PROVE  t[k] \notin {Space, Less, Greater}
<1> DEFINE digits == Digits(t)
<1>1. digits # <<>> /\ ToSet(digits) \subseteq Digit
  BY DEF Number
<1>0. /\ t # <<>> /\ t[1] = Minus => digits = Tail(t)
      /\ ~(t # <<>> /\ t[1] = Minus) => digits = t
  BY DEF Digits, Signed
<1> HIDE DEF digits
<1>2. t \in Seq(Byte) /\ Len(t) \in Nat
  BY DEF Text
<1>3. \A n \in DOMAIN digits : digits[n] \in 48 .. 57
  <2>1. Digit = 48 .. 57
    BY DEF Digit, Zero
  <2> QED BY <1>1, <2>1 DEF ToSet
<1>4. CASE ~(t # <<>> /\ t[1] = Minus)
  <2>1. digits = t /\ DOMAIN t = 1 .. Len(t)
    BY <1>4, <1>2, <1>0
  <2>2. t[k] \in 48 .. 57
    BY ONLY <2>1, <1>3, k \in 1 .. Len(t)
  <2> QED BY ONLY <2>2, SMTT(30) DEF Space, Less, Greater
<1>5. CASE t # <<>> /\ t[1] = Minus
  <2>1. digits = Tail(t)
    BY <1>5, <1>0
  <2>2. Tail(t) \in Seq(Byte) /\ Len(Tail(t)) = Len(t) - 1 /\ \A n \in 1 .. Len(Tail(t)) : Tail(t)[n] = t[n + 1]
    BY ONLY <1>2, <1>5, HeadTailProperties
  <2>3. CASE k = 1
    BY <2>3, <1>5 DEF Minus, Space, Less, Greater
  <2>4. CASE k # 1
    <3>1. k - 1 \in 1 .. Len(Tail(t)) /\ (k - 1) + 1 = k
      BY <2>2, <2>4, <1>2
    <3>2. k - 1 \in DOMAIN Tail(t)
      BY <2>2, <3>1, SMTT(30)
    <3>3. t[k] \in 48 .. 57
      BY <2>1, <2>2, <3>1, <3>2, <1>3
    <3> QED BY ONLY <3>3 DEF Space, Less, Greater
  <2> QED BY <2>3, <2>4
<1> QED BY <1>4, <1>5

(* Reading digits: one more makes ten times as much.                       *)
LEMMA InBaseIs ==
  ASSUME NEW base \in Nat, NEW s \in Seq(Int)
  PROVE  \E f \in [0 .. Len(s) -> Int] :
           /\ InBase(base, s) = f[Len(s)] /\ f[0] = 0
           /\ \A n \in 1 .. Len(s) : f[n] = base * f[n - 1] + s[n] - Zero
<1> DEFINE L == Len(s)
           Next1(f, n) == base * f[n - 1] + s[n] - Zero
           Reads(f, m) == f[0] = 0 /\ \A n \in 1 .. m : f[n] = Next1(f, n)
           Known == {m \in 0 .. L : \E f \in [0 .. m -> Int] : Reads(f, m)}
<1>0. L \in Nat /\ Zero \in Int /\ \A n \in 1 .. L : s[n] \in Int
  BY DEF Zero
<1> HIDE DEF L
<1>1. 0 \in Known
  <2> DEFINE f == [n \in 0 .. 0 |-> 0]
  <2>1. f \in [0 .. 0 -> Int] /\ f[0] = 0 /\ \A n \in 1 .. 0 : FALSE
    OBVIOUS
  <2> HIDE DEF f
  <2>2. Reads(f, 0)
    BY <2>1
  <2> HIDE DEF Reads
  <2> QED BY <2>1, <2>2, <1>0
<1>2. ASSUME NEW m \in 0 .. L - 1, m \in Known PROVE m + 1 \in Known
  <2>1. PICK f \in [0 .. m -> Int] : Reads(f, m)
    BY <1>2
  <2> DEFINE last == base * f[m] + s[m + 1] - Zero
             g == [n \in 0 .. m + 1 |-> IF n = m + 1 THEN last ELSE f[n]]
  <2>2. f[m] \in Int /\ s[m + 1] \in Int /\ m \in Nat /\ m + 1 \in 0 .. L
    BY <1>0
  <2>3. base * f[m] \in Int
    BY <2>2
  <2>4. last \in Int
    BY <2>2, <2>3, <1>0
  <2>5. g \in [0 .. m + 1 -> Int]
    <3> HIDE DEF last
    <3> QED BY <2>2, <2>4
  <2>6. /\ g[0] = f[0] /\ g[m + 1] = last /\ g[m] = f[m]
        /\ \A n \in 1 .. m : g[n] = f[n] /\ g[n - 1] = f[n - 1]
    <3> HIDE DEF last
    <3> QED BY <2>2
  <2>7. Reads(g, m + 1)
    <3>1. ASSUME NEW n \in 1 .. m + 1 PROVE g[n] = base * g[n - 1] + s[n] - Zero
      <4> HIDE DEF g
      <4>1. CASE n = m + 1
        <5>1. n - 1 = m
          BY <4>1, <2>2
        <5> QED BY <5>1, <4>1, <2>6
      <4>2. CASE n \in 1 .. m
        BY <4>2, <2>1, <2>6
      <4> QED BY <4>1, <4>2, <2>2
    <3> QED BY <3>1, <2>1, <2>6
  <2> HIDE DEF g
  <2> QED BY <2>2, <2>5, <2>7
<1>3. L \in Known
  <2> HIDE DEF Known
  <2>1. \A m \in 0 .. L - 1 : m \in Known => m + 1 \in Known
    BY <1>2
  <2>2. \A m \in 0 .. L : m \in Known
    BY ONLY <1>0, <1>1, <2>1, Ladder
  <2> QED BY <2>2, <1>0
<1>4. PICK f \in [0 .. L -> Int] : Reads(f, L)
  BY <1>3
<1> DEFINE number[n \in 0 .. L] == IF n = 0 THEN 0 ELSE base * number[n - 1] + s[n] - Zero
<1>5. f = [n \in 0 .. L |-> IF n = 0 THEN 0 ELSE base * f[n - 1] + s[n] - Zero]
  BY <1>4, <1>0
<1>6. number = [n \in 0 .. L |-> IF n = 0 THEN 0 ELSE base * number[n - 1] + s[n] - Zero]
  BY <1>5
<1>7. InBase(base, s) = number[L]
  BY DEF InBase, L
<1> HIDE DEF number
<1>8. number[0] = 0 /\ \A n \in 1 .. L : number[n] = base * number[n - 1] + s[n] - Zero
  BY <1>6, <1>0
<1> DEFINE Same == {n \in 0 .. L : number[n] = f[n]}
<1>9. \A n \in 0 .. L : n \in Same
  <2>1. 0 \in Same
    BY <1>4, <1>8, <1>0
  <2>2. ASSUME NEW n \in 0 .. L - 1, n \in Same PROVE n + 1 \in Same
    <3>1. n + 1 \in 1 .. L /\ (n + 1) - 1 = n
      BY <1>0
    <3> QED BY <3>1, <2>2, <1>4, <1>8
  <2> HIDE DEF Same
  <2>3. \A n \in 0 .. L - 1 : n \in Same => n + 1 \in Same
    BY <2>2
  <2> QED BY ONLY <1>0, <2>1, <2>3, Ladder
<1>10. InBase(base, s) = f[L]
  BY <1>7, <1>9, <1>0
<1> QED BY <1>4, <1>10 DEF L

LEMMA InBaseMore ==
  ASSUME NEW base \in Nat, NEW s \in Seq(Int), NEW d \in Int
  PROVE  /\ InBase(base, s) \in Int /\ InBase(base, <<>>) = 0
         /\ InBase(base, Append(s, d)) = base * InBase(base, s) + d - Zero
<1> DEFINE a == Append(s, d)
           L == Len(s)
<1>1. /\ a \in Seq(Int) /\ Len(a) = L + 1 /\ L \in Nat /\ a[L + 1] = d
      /\ \A n \in 1 .. L : a[n] = s[n]
  BY AppendProperties
<1> HIDE DEF a, L
<1>2. PICK f \in [0 .. L -> Int] :
        /\ InBase(base, s) = f[L] /\ f[0] = 0
        /\ \A n \in 1 .. L : f[n] = base * f[n - 1] + s[n] - Zero
  BY InBaseIs DEF L
<1>3. PICK g \in [0 .. L + 1 -> Int] :
        /\ InBase(base, a) = g[L + 1] /\ g[0] = 0
        /\ \A n \in 1 .. L + 1 : g[n] = base * g[n - 1] + a[n] - Zero
  <2>1. \E g \in [0 .. Len(a) -> Int] :
          /\ InBase(base, a) = g[Len(a)] /\ g[0] = 0
          /\ \A n \in 1 .. Len(a) : g[n] = base * g[n - 1] + a[n] - Zero
    BY ONLY <1>1, base \in Nat, InBaseIs
  <2>2. Len(a) = L + 1
    BY <1>1
  <2> QED BY ONLY <2>1, <2>2
<1> DEFINE Same == {n \in 0 .. L : g[n] = f[n]}
<1>4. \A n \in 0 .. L : n \in Same
  <2>1. 0 \in Same
    BY <1>1, <1>2, <1>3
  <2>2. ASSUME NEW n \in 0 .. L - 1, n \in Same PROVE n + 1 \in Same
    <3>1. n + 1 \in 1 .. L /\ n + 1 \in 1 .. L + 1 /\ (n + 1) - 1 = n
      BY <1>1
    <3>2. g[n + 1] = base * g[(n + 1) - 1] + a[n + 1] - Zero
      BY ONLY <3>1, <1>3
    <3>3. f[n + 1] = base * f[(n + 1) - 1] + s[n + 1] - Zero
      BY ONLY <3>1, <1>2
    <3>4. g[n] = f[n] /\ a[n + 1] = s[n + 1]
      BY ONLY <3>1, <2>2, <1>1
    <3>5. g[n + 1] = f[n + 1] /\ n + 1 \in 0 .. L
      BY ONLY <3>1, <3>2, <3>3, <3>4, <1>1
    <3> QED BY ONLY <3>5
  <2> HIDE DEF Same
  <2>3. \A n \in 0 .. L - 1 : n \in Same => n + 1 \in Same
    BY <2>2
  <2> QED BY ONLY <1>1, <2>1, <2>3, Ladder
<1>5. g[L] = f[L] /\ L + 1 \in 1 .. L + 1 /\ (L + 1) - 1 = L
  BY <1>1, <1>4
<1>6. InBase(base, a) = base * InBase(base, s) + d - Zero
  BY <1>1, <1>2, <1>3, <1>5
<1>7. InBase(base, s) \in Int
  BY <1>1, <1>2
<1>8. InBase(base, <<>>) = 0
  <2> DEFINE e == <<>>
  <2>1. e \in Seq(Int) /\ Len(e) = 0
    OBVIOUS
  <2> HIDE DEF e
  <2>2. PICK h \in [0 .. Len(e) -> Int] : InBase(base, e) = h[Len(e)] /\ h[0] = 0
    BY ONLY <2>1, base \in Nat, InBaseIs
  <2>3. InBase(base, e) = 0
    BY <2>1, <2>2
  <2> QED BY <2>3 DEF e
<1> QED BY <1>6, <1>7, <1>8 DEF a

(* The digits of a number make that number.                                *)
LEMMA TensExist ==
  ASSUME NEW N \in Nat
  PROVE  \E f \in [0 .. N -> Seq(Digit)] :
           \A m \in 0 .. N :
             f[m] = IF m < 10 THEN <<Zero + m>> ELSE Append(f[m \div 10], Zero + (m % 10))
<1> DEFINE Reads(f, b) == \A m \in 0 .. b :
             f[m] = IF m < 10 THEN <<Zero + m>> ELSE Append(f[m \div 10], Zero + (m % 10))
           Known == {b \in 0 .. N : \E f \in [0 .. b -> Seq(Digit)] : Reads(f, b)}
<1>d. ASSUME NEW m \in Nat
      PROVE  /\ m < 10 => Zero + m \in Digit
             /\ Zero + (m % 10) \in Digit
             /\ m >= 10 => m \div 10 \in 0 .. m - 1
  BY SMT DEF Digit, Zero
<1>1. 0 \in Known
  <2> DEFINE f == [n \in 0 .. 0 |-> <<Zero + 0>>]
  <2>1. f \in [0 .. 0 -> Seq(Digit)]
    BY <1>d
  <2>2. f[0] = <<Zero + 0>> /\ 0 \in 0 .. N
    OBVIOUS
  <2> HIDE DEF f
  <2>3. Reads(f, 0)
    BY <2>2
  <2> HIDE DEF Reads
  <2> QED BY <2>1, <2>2, <2>3
<1>2. ASSUME NEW b \in 0 .. N - 1, b \in Known PROVE b + 1 \in Known
  <2>1. PICK f \in [0 .. b -> Seq(Digit)] : Reads(f, b)
    BY <1>2
  <2> DEFINE top == IF b + 1 < 10 THEN <<Zero + (b + 1)>>
                    ELSE Append(f[(b + 1) \div 10], Zero + ((b + 1) % 10))
             g == [n \in 0 .. b + 1 |-> IF n = b + 1 THEN top ELSE f[n]]
  <2>2. b + 1 \in 0 .. N /\ b + 1 \in Nat /\ b \in Nat
    OBVIOUS
  <2>3. top \in Seq(Digit)
    <3>1. CASE b + 1 < 10
      BY <3>1, <2>2, <1>d
    <3>2. CASE ~(b + 1 < 10)
      <4>1. (b + 1) \div 10 \in 0 .. b /\ Zero + ((b + 1) % 10) \in Digit
        <5>1. (b + 1) \div 10 \in 0 .. (b + 1) - 1
          BY <3>2, <2>2, <1>d
        <5> QED BY <5>1, <2>2, <1>d
      <4>2. f[(b + 1) \div 10] \in Seq(Digit)
        BY <4>1
      <4>3. Append(f[(b + 1) \div 10], Zero + ((b + 1) % 10)) \in Seq(Digit)
        BY ONLY <4>1, <4>2, AppendProperties
      <4> QED BY <4>3, <3>2
    <3> QED BY <3>1, <3>2
  <2>4. g \in [0 .. b + 1 -> Seq(Digit)]
    <3> HIDE DEF top
    <3> QED BY <2>2, <2>3
  <2>5. g[b + 1] = top /\ \A m \in 0 .. b : g[m] = f[m]
    <3> HIDE DEF top
    <3> QED BY <2>2
  <2>6. Reads(g, b + 1)
    <3> SUFFICES ASSUME NEW m \in 0 .. b + 1
                 PROVE  g[m] = IF m < 10 THEN <<Zero + m>> ELSE Append(g[m \div 10], Zero + (m % 10))
      OBVIOUS
    <3> HIDE DEF g
    <3>1. m \in Nat /\ (m >= 10 => g[m \div 10] = f[m \div 10])
      <4>1. m \in Nat
        OBVIOUS
      <4>2. m >= 10 => m \div 10 \in 0 .. b
        <5>1. m >= 10 => m \div 10 \in 0 .. m - 1
          BY ONLY <4>1, <1>d
        <5>2. m <= b + 1 /\ b \in Nat
          OBVIOUS
        <5> QED BY ONLY <4>1, <5>1, <5>2
      <4> QED BY <4>1, <4>2, <2>5
    <3>2. CASE m = b + 1
      BY <3>1, <3>2, <2>5
    <3>3. CASE m \in 0 .. b
      <4>1. f[m] = IF m < 10 THEN <<Zero + m>> ELSE Append(f[m \div 10], Zero + (m % 10))
        BY ONLY <3>3, <2>1
      <4>2. g[m] = f[m]
        BY ONLY <3>3, <2>5
      <4>3. CASE m < 10
        BY ONLY <4>1, <4>2, <4>3
      <4>4. CASE ~(m < 10)
        BY ONLY <4>1, <4>2, <4>4, <3>1
      <4> QED BY <4>3, <4>4
    <3> QED BY <3>2, <3>3, <2>2
  <2> HIDE DEF g
  <2> QED BY <2>2, <2>4, <2>6
<1> HIDE DEF Known
<1>3. N \in Known
  <2>1. \A b \in 0 .. N - 1 : b \in Known => b + 1 \in Known
    BY <1>2
  <2>2. \A b \in 0 .. N : b \in Known
    BY ONLY <1>1, <2>1, Ladder
  <2> QED BY <2>2
<1> QED BY <1>3 DEF Known

LEMMA TensAre ==
  ASSUME NEW N \in Nat, NEW f \in [0 .. N -> Seq(Digit)],
         \A m \in 0 .. N :
           f[m] = IF m < 10 THEN <<Zero + m>> ELSE Append(f[m \div 10], Zero + (m % 10)),
         NEW n \in 0 .. N
  PROVE  f[n] # <<>> /\ InBase(10, f[n]) = n
<1> DEFINE Good == {m \in 0 .. N : f[m] # <<>> /\ InBase(10, f[m]) = m}
           Low == {b \in 0 .. N : 0 .. b \subseteq Good}
<1>d. Digit \subseteq Int /\ Zero \in Int
  BY DEF Digit, Zero
<1>s. ASSUME NEW s \in Seq(Digit) PROVE s \in Seq(Int)
  <2>1. Len(s) \in Nat /\ s \in [1 .. Len(s) -> Digit]
    BY LenProperties
  <2>2. s \in [1 .. Len(s) -> Int]
    BY <2>1, <1>d
  <2>3. s \in UNION {[1 .. j -> Int] : j \in Nat}
    BY ONLY <2>1, <2>2
  <2> QED BY ONLY <2>3, SeqDef
<1>1. ASSUME NEW m \in 0 .. N, m < 10 PROVE m \in Good
  <2>1. f[m] = <<Zero + m>> /\ Zero + m \in Int
    BY <1>1, <1>d
  <2>2. <<Zero + m>> = Append(<<>>, Zero + m) /\ <<>> \in Seq(Int)
    OBVIOUS
  <2>3. InBase(10, Append(<<>>, Zero + m)) = 10 * InBase(10, <<>>) + (Zero + m) - Zero /\ InBase(10, <<>>) = 0
    BY ONLY <2>1, <2>2, InBaseMore
  <2>4. InBase(10, f[m]) = m
    BY <2>1, <2>2, <2>3, <1>d
  <2>5. f[m] # <<>>
    BY <2>1
  <2> QED BY ONLY <2>4, <2>5, m \in 0 .. N
<1>2. ASSUME NEW m \in 0 .. N, m >= 10, m \div 10 \in Good PROVE m \in Good
  <2> DEFINE q == m \div 10  r == m % 10
  <2>1. m = 10 * q + r /\ q \in Nat /\ r \in Nat
    BY SMT
  <2>2. f[m] = Append(f[q], Zero + r) /\ InBase(10, f[q]) = q /\ f[q] \in Seq(Int)
    <3>1. q \in Good
      BY <1>2
    <3>2. InBase(10, f[q]) = q /\ q \in 0 .. N
      BY <3>1
    <3>3. f[q] \in Seq(Int)
      BY <3>2, <1>s
    <3>4. f[m] = Append(f[q], Zero + r)
      <4>1. ~(m < 10)
        BY <1>2
      <4> QED BY <4>1
    <3> QED BY <3>2, <3>3, <3>4
  <2> HIDE DEF q, r
  <2>3. Zero + r \in Int
    BY <1>d, <2>1
  <2>4. InBase(10, f[m]) = 10 * q + (Zero + r) - Zero
    BY <2>2, <2>3, InBaseMore
  <2>5. InBase(10, f[m]) = m
    BY <2>1, <2>4, <1>d
  <2>6. f[m] # <<>>
    <3> DEFINE x == f[q]  y == Zero + r
    <3>1. f[m] = Append(x, y) /\ x \in Seq(Int) /\ y \in Int
      BY <2>2, <2>3
    <3> HIDE DEF x, y
    <3>2. Append(x, y) # <<>>
      BY ONLY <3>1, AppendProperties
    <3> QED BY <3>1, <3>2
  <2> QED BY <2>5, <2>6
<1>3. 0 \in Low
  <2>1. 0 \in Good
    BY <1>1
  <2> HIDE DEF Good
  <2> QED BY <2>1
<1>4. ASSUME NEW b \in 0 .. N - 1, b \in Low PROVE b + 1 \in Low
  <2>1. b + 1 \in 0 .. N /\ 0 .. b \subseteq Good
    BY <1>4
  <2>2. b + 1 \in Good
    <3>1. CASE b + 1 < 10
      BY <3>1, <2>1, <1>1
    <3>2. CASE b + 1 >= 10
      <4>1. (b + 1) \div 10 \in 0 .. b
        BY <3>2, SMT
      <4> HIDE DEF Good
      <4> QED BY <4>1, <3>2, <2>1, <1>2
    <3> QED BY <3>1, <3>2
  <2>3. 0 .. b + 1 = 0 .. b \cup {b + 1}
    OBVIOUS
  <2> HIDE DEF Good
  <2> QED BY <2>1, <2>2, <2>3
<1> HIDE DEF Low
<1>5. n \in Low
  <2>1. \A b \in 0 .. N - 1 : b \in Low => b + 1 \in Low
    BY <1>4
  <2> QED BY ONLY <1>3, <2>1, Ladder
<1> QED BY <1>5 DEF Low

(* A number of seconds is written so that stoll finds it again.            *)
LEMMA DecimalIs ==
  ASSUME NEW n \in Times
  PROVE  Decimal(n) \in Text /\ Number(Decimal(n)) /\ Value(Decimal(n)) = n
<1> DEFINE N == MaxTime + 1
           digits[m \in 0 .. N] ==
             IF m < 10 THEN <<Zero + m>> ELSE Append(digits[m \div 10], Zero + (m % 10))
<1>0. MaxTime \in Nat /\ N \in Nat /\ n \in Int /\ n <= MaxTime /\ -N <= n
  BY ObjectFormatAssumption DEF Times
<1>1. PICK f \in [0 .. N -> Seq(Digit)] :
        \A m \in 0 .. N :
          f[m] = IF m < 10 THEN <<Zero + m>> ELSE Append(f[m \div 10], Zero + (m % 10))
  BY <1>0, TensExist
<1>2. f = [m \in 0 .. N |-> IF m < 10 THEN <<Zero + m>> ELSE Append(f[m \div 10], Zero + (m % 10))]
  BY <1>1
<1>3. digits = [m \in 0 .. N |-> IF m < 10 THEN <<Zero + m>> ELSE Append(digits[m \div 10], Zero + (m % 10))]
  BY <1>2
<1>4. Decimal(n) = IF n < 0 THEN <<Minus>> \o digits[-n] ELSE digits[n]
  BY DEF Decimal
<1> HIDE DEF digits, N
<1>e. \A m \in 0 .. N : digits[m] = IF m < 10 THEN <<Zero + m>> ELSE Append(digits[m \div 10], Zero + (m % 10))
  BY <1>3
<1>5. ASSUME NEW m \in 0 .. N PROVE digits[m] = f[m]
  <2> DEFINE Same == {k \in 0 .. N : digits[k] = f[k]}
             Low == {b \in 0 .. N : 0 .. b \subseteq Same}
  <2>1. 0 \in Low
    <3>1. 0 \in Same
      BY <1>0, <1>1, <1>e
    <3> HIDE DEF Same
    <3> QED BY <3>1, <1>0
  <2>2. ASSUME NEW b \in 0 .. N - 1, b \in Low PROVE b + 1 \in Low
    <3>1. b + 1 \in 0 .. N /\ 0 .. b \subseteq Same
      BY <2>2, <1>0
    <3>2. b + 1 \in Same
      <4>1. CASE b + 1 < 10
        <5>1. digits[b + 1] = <<Zero + (b + 1)>> /\ f[b + 1] = <<Zero + (b + 1)>>
          BY ONLY <4>1, <3>1, <1>1, <1>e
        <5> QED BY <5>1, <3>1
      <4>2. CASE ~(b + 1 < 10)
        <5>1. (b + 1) \div 10 \in 0 .. b
          BY <4>2, <1>0, SMT
        <5>2. digits[(b + 1) \div 10] = f[(b + 1) \div 10]
          BY <5>1, <3>1
        <5> QED BY <5>2, <4>2, <3>1, <1>1, <1>e
      <4> QED BY <4>1, <4>2
    <3>3. 0 .. b + 1 = 0 .. b \cup {b + 1}
      BY <1>0
    <3> HIDE DEF Same
    <3> QED BY <3>1, <3>2, <3>3
  <2> HIDE DEF Low
  <2>3. \A b \in 0 .. N - 1 : b \in Low => b + 1 \in Low
    BY <2>2
  <2>4. \A b \in 0 .. N : b \in Low
    BY ONLY <1>0, <2>1, <2>3, Ladder
  <2> QED BY <2>4 DEF Low
<1>d. Digit \subseteq Byte /\ Minus \in Byte /\ Minus \notin Digit
  BY SMT DEF Digit, Byte, Minus, Zero
<1>6. ASSUME NEW m \in 0 .. N
      PROVE  /\ digits[m] \in Seq(Digit) /\ digits[m] # <<>> /\ InBase(10, digits[m]) = m
             /\ digits[m] \in Text /\ ToSet(digits[m]) \subseteq Digit
  <2>1. f[m] \in Seq(Digit) /\ f[m] # <<>> /\ InBase(10, f[m]) = m
    BY ONLY <1>0, <1>1, m \in 0 .. N, TensAre
  <2>2. f[m] \in Seq(Byte) /\ ToSet(f[m]) \subseteq Digit
    BY <2>1, <1>d DEF ToSet
  <2> QED BY <2>1, <2>2, <1>5 DEF Text
<1>7. CASE n < 0
  <2> DEFINE t == digits[-n]
             w == <<Minus>> \o t
  <2>1. -n \in 0 .. N /\ -(-n) = n
    BY <1>0, <1>7 DEF N
  <2>2. t \in Seq(Byte) /\ t # <<>> /\ InBase(10, t) = -n /\ ToSet(t) \subseteq Digit
    BY <1>6, <2>1 DEF Text
  <2> HIDE DEF t
  <2>3. <<Minus>> \in Seq(Byte) /\ Len(<<Minus>>) = 1 /\ <<Minus>>[1] = Minus
    BY <1>d
  <2>4. w \in Seq(Byte) /\ Len(w) = 1 + Len(t) /\ w[1] = Minus /\ \A k \in 1 .. Len(t) : w[1 + k] = t[k]
    BY ONLY <2>2, <2>3, Joined
  <2> HIDE DEF w
  <2>5. w # <<>> /\ Len(t) \in Nat
    BY <2>2, <2>4
  <2>6. Tail(w) \in Seq(Byte) /\ Len(Tail(w)) = Len(t) /\ \A k \in 1 .. Len(t) : Tail(w)[k] = w[k + 1]
    BY ONLY <2>4, <2>5, HeadTailProperties
  <2>7. \A k \in 1 .. Len(t) : Tail(w)[k] = t[k]
    BY ONLY <2>4, <2>5, <2>6
  <2>8. Tail(w) = t
    BY ONLY <2>2, <2>6, <2>7, SeqEqual
  <2>9. Signed(w) /\ Digits(w) = t
    BY <2>4, <2>5, <2>8 DEF Signed, Digits
  <2>10. Decimal(n) = w
    BY <1>4, <1>7 DEF w, t
  <2>11. Value(w) = n
    BY <2>1, <2>2, <2>9 DEF Value
  <2> QED BY <2>2, <2>4, <2>9, <2>10, <2>11 DEF Number, Text
<1>8. CASE ~(n < 0)
  <2> DEFINE t == digits[n]
  <2>1. n \in 0 .. N
    BY <1>0, <1>8 DEF N
  <2>2. t \in Text /\ t \in Seq(Digit) /\ t # <<>> /\ InBase(10, t) = n /\ ToSet(t) \subseteq Digit
    BY <1>6, <2>1
  <2>3. Decimal(n) = t
    BY <1>4, <1>8
  <2> HIDE DEF t
  <2>4. ~ Signed(t)
    <3>1. 1 \in 1 .. Len(t)
      BY <2>2
    <3>2. t[1] \in Digit
      BY ONLY <3>1, <2>2
    <3> QED BY <3>2, <1>d DEF Signed
  <2> QED BY <2>2, <2>3, <2>4 DEF Number, Digits, Value
<1> QED BY <1>7, <1>8

(* What is written of an identity that commit lets through is cut at the   *)
(* right places.                                                           *)
LEMMA IdentityReadBack ==
  ASSUME NEW i \in Committer
  PROVE  IdentityText(i) \in Text /\ IsIdentity(IdentityText(i)) /\ Parts(IdentityText(i)) = i
<1> DEFINE w == IdentityText(i)
           a == i.name  b == i.email  c == Decimal(i.timestamp)  d == i.timezone
           n == Len(a)
           e == n + Len(b)
           t == e + Len(c)
           z == Len(d)
<1>1. i \in Person
  BY DEF Committer
<1>c. c \in Text /\ Number(c) /\ Value(c) = i.timestamp /\ i.timestamp \in Times
  <2>1. i.timestamp \in Times
    BY <1>1 DEF Person
  <2> QED BY <2>1, DecimalIs
<1>2. /\ a \in Seq(Byte) /\ b \in Seq(Byte) /\ c \in Seq(Byte) /\ d \in Seq(Byte)
      /\ i = [name |-> a, email |-> b, timestamp |-> i.timestamp, timezone |-> d]
  BY <1>1, <1>c DEF Person, Text
<1>3. n \in Nat /\ Len(b) \in Nat /\ Len(c) \in Nat /\ z \in Nat /\ e \in Nat /\ t \in Nat
  <2>1. n \in Nat /\ Len(b) \in Nat /\ Len(c) \in Nat /\ z \in Nat
    BY <1>2
  <2> HIDE DEF a, b, c, d
  <2> QED BY <2>1
<1>4. /\ w \in Text /\ Len(w) = t + z + 5
      /\ \A k \in 1 .. n : w[k] = a[k]
      /\ w[n + 1] = Space /\ w[n + 2] = Less
      /\ \A k \in 1 .. Len(b) : w[n + 2 + k] = b[k]
      /\ w[e + 3] = Greater /\ w[e + 4] = Space
      /\ \A k \in 1 .. Len(c) : w[e + 4 + k] = c[k]
      /\ w[t + 5] = Space
      /\ \A k \in 1 .. z : w[t + 5 + k] = d[k]
  BY <1>1, <1>c, WithTimeIs DEF IdentityText
<1>5. /\ \A k \in 1 .. n : a[k] \notin {Less, Greater}
      /\ \A k \in 1 .. Len(b) : b[k] \notin {Less, Greater}
      /\ \A k \in 1 .. z : d[k] \notin {Less, Greater}
  <2>1. ToSet(a \o b \o d) \cap {Less, Greater} = {}
    BY DEF Committer
  <2>2. /\ a \o b \in Seq(Byte) /\ Len(a \o b) = Len(a) + Len(b)
        /\ \A k \in 1 .. Len(a) : (a \o b)[k] = a[k]
        /\ \A k \in 1 .. Len(b) : (a \o b)[Len(a) + k] = b[k]
    BY ONLY <1>2, Joined
  <2>3. /\ (a \o b) \o d \in Seq(Byte) /\ Len((a \o b) \o d) = Len(a \o b) + Len(d)
        /\ \A k \in 1 .. Len(a \o b) : ((a \o b) \o d)[k] = (a \o b)[k]
        /\ \A k \in 1 .. Len(d) : ((a \o b) \o d)[Len(a \o b) + k] = d[k]
    BY ONLY <1>2, <2>2, Joined
  <2> DEFINE ab == a \o b
             abd == ab \o d
  <2>4. /\ \A k \in 1 .. Len(abd) : abd[k] \notin {Less, Greater}
    <3>1. DOMAIN abd = 1 .. Len(abd)
      BY <2>3
    <3> QED BY <3>1, <2>1 DEF ToSet
  <2> HIDE DEF ab, abd
  <2>5. /\ Len(ab) = n + Len(b) /\ Len(abd) = n + Len(b) + z
        /\ \A k \in 1 .. n : ab[k] = a[k]
        /\ \A k \in 1 .. Len(b) : ab[n + k] = b[k]
        /\ \A k \in 1 .. n + Len(b) : abd[k] = ab[k]
        /\ \A k \in 1 .. z : abd[n + Len(b) + k] = d[k]
    BY <2>2, <2>3 DEF ab, abd
  <2> HIDE DEF a, b, d, n, z
  <2>6. \A k \in 1 .. n : a[k] \notin {Less, Greater}
    BY ONLY <2>4, <2>5, <1>3
  <2>7. \A k \in 1 .. Len(b) : b[k] \notin {Less, Greater}
    BY ONLY <2>4, <2>5, <1>3
  <2>8. \A k \in 1 .. z : d[k] \notin {Less, Greater}
    BY ONLY <2>4, <2>5, <1>3
  <2> QED BY <2>6, <2>7, <2>8
<1>6. \A k \in 1 .. Len(c) : c[k] \notin {Space, Less, Greater}
  BY <1>c, NumberBytes
<1> HIDE DEF w, a, b, c, d, n, e, t, z
<1>7. e = n + Len(b) /\ t = e + Len(c) /\ n = Len(a) /\ z = Len(d)
  BY DEF n, e, t, z
<1>8. Space # Less /\ Space # Greater /\ Less # Greater
  BY DEF Space, Less, Greater
<1>9. \A k \in n + 3 .. Len(w) : w[k] # Less
  <2> SUFFICES ASSUME NEW k \in n + 3 .. Len(w), w[k] = Less PROVE FALSE
    OBVIOUS
  <2>1. k >= e + 3
    <3>1. ASSUME k < e + 3 PROVE FALSE
      <4>1. k - n - 2 \in 1 .. Len(b) /\ n + 2 + (k - n - 2) = k
        BY <3>1, <1>3, <1>7
      <4> QED BY <4>1, <1>4, <1>5
    <3> QED BY <3>1, <1>3
  <2>2. k >= e + 5
    <3>1. w[e + 3] # Less /\ w[e + 4] # Less
      BY ONLY <1>4, <1>8
    <3>2. k # e + 3 /\ k # e + 4
      BY ONLY <3>1, w[k] = Less
    <3>3. k \in Int
      BY <1>3
    <3> QED BY ONLY <2>1, <3>2, <3>3, <1>3
  <2>3. k >= t + 5
    <3>1. ASSUME k < t + 5 PROVE FALSE
      <4>1. k - e - 4 \in 1 .. Len(c) /\ e + 4 + (k - e - 4) = k
        BY <3>1, <2>2, <1>3, <1>7
      <4> QED BY <4>1, <1>4, <1>6
    <3> QED BY <3>1, <1>3
  <2>4. k # t + 5
    BY <1>4, <1>8
  <2>5. k - t - 5 \in 1 .. z /\ t + 5 + (k - t - 5) = k
    BY <2>3, <2>4, <1>3, <1>4
  <2> QED BY <2>5, <1>4, <1>5
<1>10. EmailStart(w) = n + 1 /\ At(w, Space, Less) # {}
  <2>1. At(w, Space, Less) \in SUBSET Nat
    BY <1>4, AtIs
  <2>2. n + 1 \in At(w, Space, Less)
    BY <1>3, <1>4, <1>7 DEF At
  <2>3. \A k \in At(w, Space, Less) : k <= n + 1
    <3> SUFFICES ASSUME NEW k \in At(w, Space, Less), k > n + 1 PROVE FALSE
      BY <2>1, <1>3
    <3>1. k \in 1 .. Len(w) - 1 /\ w[k + 1] = Less
      BY DEF At
    <3>2. k + 1 \in n + 3 .. Len(w)
      BY <3>1, <1>3, <1>4
    <3> QED BY <3>1, <3>2, <1>9
  <2> QED BY <2>1, <2>2, <2>3, MaxUnique DEF EmailStart
<1>11. EmailEnd(w) = e + 3 /\ EmailEnds(w) # {}
  <2>1. EmailEnds(w) \in SUBSET Nat
    BY <1>4, AtIs DEF EmailEnds
  <2>2. e + 3 \in EmailEnds(w)
    BY <1>3, <1>4, <1>7, <1>10 DEF At, EmailEnds
  <2>3. \A k \in EmailEnds(w) : e + 3 <= k
    <3> SUFFICES ASSUME NEW k \in EmailEnds(w), k < e + 3 PROVE FALSE
      BY <2>1, <1>3
    <3>1. k \in 1 .. Len(w) - 1 /\ w[k] = Greater /\ k >= n + 1
      BY <1>10 DEF At, EmailEnds
    <3>2. k # n + 1 /\ k # n + 2
      BY <3>1, <1>4, <1>8
    <3>3. k - n - 2 \in 1 .. Len(b) /\ n + 2 + (k - n - 2) = k
      BY <3>1, <3>2, <1>3, <1>7
    <3> QED BY <3>1, <3>3, <1>4, <1>5
  <2> QED BY <2>1, <2>2, <2>3, MinUnique DEF EmailEnd
<1>12. Min(TimestampEnds(w)) = t + 5 /\ TimestampEnds(w) # {}
  <2>1. \A k \in TimestampEnds(w) : k \in 1 .. Len(w) /\ w[k] = Space /\ k >= e + 5
    BY <1>3, <1>11 DEF TimestampEnds
  <2>2. TimestampEnds(w) \in SUBSET Nat
    BY <2>1
  <2>3. t + 5 \in TimestampEnds(w)
    BY <1>3, <1>4, <1>7, <1>11 DEF TimestampEnds
  <2>4. \A k \in TimestampEnds(w) : t + 5 <= k
    <3> SUFFICES ASSUME NEW k \in TimestampEnds(w), k < t + 5 PROVE FALSE
      BY <2>2, <1>3
    <3>1. k - e - 4 \in 1 .. Len(c) /\ e + 4 + (k - e - 4) = k
      BY <2>1, <1>3, <1>7, SMTT(30)
    <3> QED BY <2>1, <3>1, <1>4, <1>6
  <2> QED BY <2>2, <2>3, <2>4, MinUnique
<1>13. /\ Parts(w).name = SubSeq(w, 1, n) /\ Parts(w).email = SubSeq(w, n + 3, e + 2)
       /\ TimestampText(w) = SubSeq(w, e + 5, t + 4) /\ Parts(w).timestamp = Value(TimestampText(w))
       /\ Parts(w).timezone = SubSeq(w, t + 6, Len(w))
       /\ Parts(w) = [name |-> Parts(w).name, email |-> Parts(w).email,
                      timestamp |-> Parts(w).timestamp, timezone |-> Parts(w).timezone]
  <2>1. /\ EmailStart(w) - 1 = n /\ EmailStart(w) + 2 = n + 3 /\ EmailEnd(w) - 1 = e + 2
        /\ EmailEnd(w) + 2 = e + 5 /\ Min(TimestampEnds(w)) - 1 = t + 4 /\ Min(TimestampEnds(w)) + 1 = t + 6
    BY <1>3, <1>10, <1>11, <1>12
  <2> QED BY <2>1 DEF Parts, TimestampText
<1>14. w \in Seq(Byte)
  BY <1>4 DEF Text
<1>15. SubSeq(w, 1, n) = a
  <2>1. 0 \in Nat /\ 0 + Len(a) <= Len(w) /\ \A k \in 1 .. Len(a) : w[(0) + k] = a[k]
    BY ONLY <1>3, <1>4, <1>7
  <2>2. SubSeq(w, (0) + 1, (0) + Len(a)) = a
    BY ONLY <1>2, <1>14, <2>1, PieceIs
  <2>3. (0) + 1 = 1 /\ (0) + Len(a) = n
    BY ONLY <1>3, <1>4, <1>7
  <2> QED BY ONLY <2>2, <2>3
<1>16. SubSeq(w, n + 3, e + 2) = b
  <2>1. n + 2 \in Nat /\ n + 2 + Len(b) <= Len(w) /\ \A k \in 1 .. Len(b) : w[(n + 2) + k] = b[k]
    BY ONLY <1>3, <1>4, <1>7
  <2>2. SubSeq(w, (n + 2) + 1, (n + 2) + Len(b)) = b
    BY ONLY <1>2, <1>14, <2>1, PieceIs
  <2>3. (n + 2) + 1 = n + 3 /\ (n + 2) + Len(b) = e + 2
    BY ONLY <1>3, <1>4, <1>7
  <2> QED BY ONLY <2>2, <2>3
<1>17. SubSeq(w, e + 5, t + 4) = c
  <2>1. e + 4 \in Nat /\ e + 4 + Len(c) <= Len(w) /\ \A k \in 1 .. Len(c) : w[(e + 4) + k] = c[k]
    BY ONLY <1>3, <1>4, <1>7
  <2>2. SubSeq(w, (e + 4) + 1, (e + 4) + Len(c)) = c
    BY ONLY <1>2, <1>14, <2>1, PieceIs
  <2>3. (e + 4) + 1 = e + 5 /\ (e + 4) + Len(c) = t + 4
    BY ONLY <1>3, <1>4, <1>7
  <2> QED BY ONLY <2>2, <2>3
<1>18. SubSeq(w, t + 6, Len(w)) = d
  <2>1. t + 5 \in Nat /\ t + 5 + Len(d) <= Len(w) /\ \A k \in 1 .. Len(d) : w[(t + 5) + k] = d[k]
    BY ONLY <1>3, <1>4, <1>7
  <2>2. SubSeq(w, (t + 5) + 1, (t + 5) + Len(d)) = d
    BY ONLY <1>2, <1>14, <2>1, PieceIs
  <2>3. (t + 5) + 1 = t + 6 /\ (t + 5) + Len(d) = Len(w)
    BY ONLY <1>3, <1>4, <1>7
  <2> QED BY ONLY <2>2, <2>3
<1>19. Parts(w) = i
  BY <1>2, <1>13, <1>15, <1>16, <1>17, <1>18, <1>c
<1>20. Number(TimestampText(w)) /\ Value(TimestampText(w)) \in Times
  BY <1>13, <1>17, <1>c
<1>22. IsIdentity(w)
  BY <1>20, <1>10, <1>11, <1>12 DEF IsIdentity
<1> QED BY <1>4, <1>19, <1>22 DEF w

-----------------------------------------------------------------------------
(***************************************************************************)
(* Commits: lines and headers.                                             *)
(***************************************************************************)
(* A function on the numbers up to one is a sequence of that length.       *)
LEMMA LengthOf ==
  ASSUME NEW S, NEW n \in Nat, NEW f \in [1 .. n -> S]
  PROVE  f \in Seq(S) /\ Len(f) = n
<1>1. f \in Seq(S)
  BY SeqDef
<1>2. DOMAIN f = 1 .. Len(f) /\ Len(f) \in Nat
  BY <1>1, LenProperties
<1>3. 1 .. n = 1 .. Len(f)
  BY <1>2
<1>4. ASSUME NEW a \in Nat, NEW b \in Nat, 1 .. a = 1 .. b, a < b PROVE FALSE
  <2>1. b \in 1 .. b /\ b \notin 1 .. a
    BY <1>4
  <2> QED BY <2>1, <1>4
<1> QED BY <1>1, <1>2, <1>3, <1>4

LEMMA PairIs ==
  ASSUME NEW S, NEW T, NEW l \in S \X T
  PROVE  Len(l) = 2 /\ l[1] \in S /\ l[2] \in T /\ l # <<>> /\ l = <<l[1], l[2]>>
OBVIOUS

LEMMA LineIs ==
  ASSUME NEW l \in AnyLine
  PROVE  /\ Len(l) \in 0 .. 2 /\ (Len(l) = 0 <=> l = Blank)
         /\ Len(l) = 2 => l[1] \in Words /\ l[2] \in Text
<1>1. CASE l = Blank
  BY <1>1 DEF Blank
<1>2. CASE l \in [1 .. 1 -> Words]
  <2>1. Len(l) = 1
    BY ONLY <1>2, LengthOf, 1 \in Nat
  <2>2. Len(Blank) = 0
    BY DEF Blank
  <2> QED BY ONLY <2>1, <2>2
<1>3. CASE l \in Words \X Text
  <2>1. Len(l) = 2 /\ l[1] \in Words /\ l[2] \in Text
    BY ONLY <1>3, PairIs
  <2>2. Len(Blank) = 0
    BY DEF Blank
  <2> QED BY ONLY <2>1, <2>2
<1> QED BY <1>1, <1>2, <1>3 DEF AnyLine

(* A text with a separator.                                                *)
LEMMA HeaderIs ==
  ASSUME NEW text \in Seq(AnyLine), Separators(text) # {}
  PROVE  LET s == Separator(text)
             h == Header(text)
         IN /\ s \in 2 .. Len(text) - 1 /\ text[s] = Blank
            /\ h \in Seq(AnyLine) /\ Len(h) = s - 1
            /\ \A n \in 1 .. s - 1 : h[n] = text[n]
            /\ \A n \in 2 .. s - 1 : h[n] # Blank
            /\ text = h \o <<Blank>> \o SubSeq(text, s + 1, Len(text))
<1> DEFINE s == Separator(text)
           h == Header(text)
<1>0. Len(text) \in Nat
  OBVIOUS
<1>1. s \in Separators(text) /\ \A k \in Separators(text) : s <= k
  <2>1. \A k \in Separators(text) : k \in Nat
    BY <1>0 DEF Separators
  <2>2. Separators(text) \in SUBSET Nat
    BY ONLY <2>1
  <2> QED BY <2>2, MinIs DEF Separator
<1>2. s \in 2 .. Len(text) - 1 /\ text[s] = Blank
  BY <1>1 DEF Separators
<1> HIDE DEF s
<1>3. /\ h \in Seq(AnyLine) /\ Len(h) = s - 1
      /\ \A n \in 1 .. s - 1 : h[n] = text[n]
  <2>0. h = SubSeq(text, 1, s - 1)
    BY DEF Header, s
  <2>1. /\ h \in Seq(AnyLine) /\ Len(h) = s - 1 - 1 + 1
        /\ \A n \in 1 .. s - 1 - 1 + 1 : h[n] = text[1 + n - 1]
    BY <2>0, <1>0, <1>2, PartIs
  <2>2. s - 1 - 1 + 1 = s - 1 /\ \A n \in 1 .. s - 1 : 1 + n - 1 = n
    BY <1>0, <1>2
  <2> HIDE DEF h
  <2> QED BY <2>1, <2>2
<1>4. ASSUME NEW n \in 2 .. s - 1 PROVE h[n] # Blank
  <2>1. n \in 2 .. Len(text) - 1 /\ n \in 1 .. s - 1 /\ ~(s <= n)
    BY <1>0, <1>2
  <2>2. n \notin Separators(text)
    BY <2>1, <1>1
  <2>3. text[n] # Blank
    BY <2>1, <2>2, SMTT(30) DEF Separators
  <2> QED BY <2>1, <2>3, <1>3
<1>5. text = h \o <<Blank>> \o SubSeq(text, s + 1, Len(text))
  <2> DEFINE b == SubSeq(text, s, Len(text))
             m == SubSeq(text, s + 1, Len(text))
  <2>1. h = SubSeq(text, 1, s - 1)
    BY DEF Header, s
  <2>2. text = h \o b
    <3>1. s - 1 \in 0 .. Len(text) /\ (s - 1) + 1 = s
      BY <1>0, <1>2
    <3>2. text = SubSeq(text, 1, s - 1) \o SubSeq(text, (s - 1) + 1, Len(text))
      BY ONLY text \in Seq(AnyLine), <3>1, Cut
    <3> QED BY <2>1, <3>1, <3>2
  <2>3. b = <<text[s]>> \o m
    <3>1. s \in 1 .. Len(text) /\ Len(text) \in s .. Len(text)
      BY <1>0, <1>2
    <3> QED BY ONLY text \in Seq(AnyLine), <3>1, SubSeqRecursiveFirst
  <2>4. m \in Seq(AnyLine) /\ <<text[s]>> \in Seq(AnyLine)
    <3>1. s + 1 \in Nat /\ Len(text) \in Int /\ s + 1 >= 1 /\ Len(text) <= Len(text) /\ Len(text) >= s + 1 - 1
          /\ s \in 1 .. Len(text)
      BY <1>0, <1>2
    <3>2. m \in Seq(AnyLine)
      BY ONLY <3>1, text \in Seq(AnyLine), PartIs
    <3>3. text[s] \in AnyLine
      BY ONLY <3>1, text \in Seq(AnyLine), ElementOfSeq
    <3> QED BY <3>2, <3>3
  <2> HIDE DEF m, b, h
  <2>5. h \o (<<text[s]>> \o m) = (h \o <<text[s]>>) \o m
    BY ONLY <2>4, <1>3, ConcatAssociative
  <2> QED BY <2>2, <2>3, <2>5, <1>2 DEF m
<1> QED BY <1>2, <1>3, <1>4, <1>5 DEF s

(***************************************************************************)
(* Commits: what is known while one is read.                               *)
(***************************************************************************)
(* The lines deserialise splits into headers.                              *)
Rows(text) == IF Header(text) = <<Blank>> THEN <<>> ELSE Header(text)

Seen(h, key, d) == Of(h, key) \cap 1 .. d

(* Header f has line a and its continuations, up to line b.                *)
FieldIs(h, f, a, b) ==
  /\ a <= b /\ b <= Len(h)
  /\ h[a][1] # Nothing /\ \A n \in a + 1 .. b : h[n][1] = Nothing
  /\ f.key = h[a][1]
  /\ Len(f.values) = b - a + 1 /\ \A k \in 1 .. b - a + 1 : f.values[k] = h[a + k - 1][2]

(* The headers not taken yet are cut out of the lines after d, up to e:    *)
(* header i begins at line s[i].                                           *)
CutAt(h, d, e, s, f) ==
  /\ s \in [1 .. Len(f) + 1 -> d + 1 .. e + 1]
  /\ s[1] = d + 1 /\ s[Len(f) + 1] = e + 1
  /\ \A i \in 1 .. Len(f) : FieldIs(h, f[i], s[i], s[i + 1] - 1)

(* The lines up to e are headers, or continue one that may be continued.   *)
Orderly(h, e) ==
  /\ \A n \in 1 .. e : Len(h[n]) = 2
  /\ \A n \in Seen(h, Nothing, e) : n > 1 /\ h[1][1] # Nothing /\ h[Owner(h, n)][1] \notin SingleLine

Signature(h, n, g) ==
  /\ FieldIs(h, [key |-> "gpgsig", values |-> g], n, n + Len(g) - 1)
  /\ n + Len(g) <= Len(h) => h[n + Len(g)][1] # Nothing

(* Header key was seen once if x is set, and never if it is not.           *)
Once(h, d, key, x) ==
  /\ x = None <=> Seen(h, key, d) = {}
  /\ \A m, n \in Seen(h, key, d) : m = n

ParentsUpTo(h, d, p) ==
  /\ Len(p) = Cardinality(Seen(h, "parent", d))
  /\ \A n \in Seen(h, "parent", d) :
       h[n][2] # <<>> /\ p[Cardinality(Seen(h, "parent", n))] = h[n][2]

(* Commit c has what the lines up to d say.                                *)
TakenUpTo(h, d, c) ==
  /\ Once(h, d, "tree", c.tree) /\ Once(h, d, "gpgsig", c.gpgsig)
  /\ Once(h, d, "author", c.author) /\ Once(h, d, "committer", c.committer)
  /\ \A n \in Seen(h, "tree", d) : h[n][2] # <<>> /\ c.tree = h[n][2]
  /\ \A n \in Seen(h, "author", d) : IsIdentity(h[n][2]) /\ c.author = Parts(h[n][2])
  /\ \A n \in Seen(h, "committer", d) : IsIdentity(h[n][2]) /\ c.committer = Parts(h[n][2])
  /\ \A n \in Seen(h, "gpgsig", d) : Signature(h, n, c.gpgsig)
  /\ ParentsUpTo(h, d, c.parent)

Split == Separators(data) # {} /\ message = SubSeq(data, Separator(data) + 1, Len(data))

HeaderField == [key : Words, values : Seq(Text)]
Reading ==
  [tree : Text \cup {None}, parent : Seq(Text), author : Person \cup {None},
   committer : Person \cup {None}, gpgsig : Seq(Text) \cup {None}]

CommitTypes == data \in Seq(AnyLine) /\ fields \in Seq(HeaderField) /\ commit \in Reading

LinesInv ==
  \E e \in 0 .. Len(Rows(data)) :
    /\ rest = SubSeq(Rows(data), e + 1, Len(Rows(data)))
    /\ Orderly(Rows(data), e)
    /\ \E s : CutAt(Rows(data), 0, e, s, fields)

FieldsInv ==
  \E d \in 0 .. Len(Rows(data)) :
    /\ TakenUpTo(Rows(data), d, commit)
    /\ \E s : CutAt(Rows(data), d, Len(Rows(data)), s, fields)

CommitInv ==
  /\ stage \in {"open", "lines", "fields", "done", "threw"} => CommitTypes
  /\ stage = "open" => fields = <<>> /\ commit = Empty
  /\ stage = "lines" => Split /\ commit = Empty /\ LinesInv
  /\ stage = "fields" => Split /\ Orderly(Rows(data), Len(Rows(data))) /\ FieldsInv
  /\ stage = "done" /\ data # <<Blank>> =>
       /\ Split /\ Orderly(Rows(data), Len(Rows(data)))
       /\ TakenUpTo(Rows(data), Len(Rows(data)), commit)
       /\ None \notin {commit.tree, commit.author, commit.committer}
  /\ stage = "threw" => ~ WellFormed(data)

(* Nothing is no key.                                                      *)
LEMMA KeysAreNot ==
  ASSUME NEW k \in SingleLine \cup {"gpgsig"}
  PROVE  k # Nothing
BY Zenon DEF SingleLine, Nothing

LEMMA SeenIs ==
  ASSUME NEW h \in Seq(AnyLine), NEW k, NEW d \in Nat, d <= Len(h)
  PROVE  Seen(h, k, d) = {n \in 1 .. d : h[n][1] = k}
<1>1. DOMAIN h = 1 .. Len(h) /\ Len(h) \in Nat
  OBVIOUS
<1>2. \A n \in 1 .. d : n \in DOMAIN h
  BY <1>1
<1> QED BY <1>2 DEF Seen, Of

(* The lines of one header more.                                           *)
LEMMA SeenMore ==
  ASSUME NEW h \in Seq(AnyLine), NEW k, k # Nothing, NEW d \in Nat, NEW b \in Nat, NEW f,
         FieldIs(h, f, d + 1, b)
  PROVE  Seen(h, k, b) = Seen(h, k, d) \cup {n \in {d + 1} : h[n][1] = k}
<1>1. d + 1 <= b /\ b <= Len(h) /\ \A n \in d + 1 + 1 .. b : h[n][1] = Nothing
  BY DEF FieldIs
<1>2. Len(h) \in Nat
  OBVIOUS
<1>3. d <= Len(h) /\ d <= b
  BY <1>1, <1>2
<1>4. Seen(h, k, b) = {n \in 1 .. b : h[n][1] = k} /\ Seen(h, k, d) = {n \in 1 .. d : h[n][1] = k}
  BY <1>1, <1>3, SeenIs
<1>5. ASSUME NEW n \in 1 .. b, h[n][1] = k PROVE n \in 1 .. d \/ n = d + 1
  BY <1>1, <1>5
<1>6. \A n \in 1 .. d : n \in 1 .. b
  BY <1>3
<1>7. d + 1 \in 1 .. b
  BY <1>1
<1> HIDE DEF Seen, FieldIs
<1> QED BY ONLY <1>4, <1>5, <1>6, <1>7

LEMMA OwnerIs ==
  ASSUME NEW h \in Seq(AnyLine), NEW n \in 1 .. Len(h), NEW m \in 1 .. n, h[m][1] # Nothing,
         \A k \in m + 1 .. n : h[k][1] = Nothing
  PROVE  Owner(h, n) = m
<1> DEFINE S == {k \in 1 .. n : h[k][1] # Nothing}
<1>1. \A k \in S : k \in Nat
  OBVIOUS
<1>2. S \in SUBSET Nat
  BY ONLY <1>1
<1>3. m \in S
  OBVIOUS
<1>4. ASSUME NEW k \in S PROVE k <= m
  <2>1. k \in 1 .. n /\ h[k][1] # Nothing
    OBVIOUS
  <2>2. k \notin m + 1 .. n
    BY <2>1
  <2> QED BY ONLY <2>1, <2>2, m \in 1 .. n, n \in 1 .. Len(h), Len(h) \in Nat
<1> HIDE DEF S
<1>5. Max(S) = m
  BY <1>2, <1>3, <1>4, MaxUnique
<1> QED BY <1>5 DEF Owner, S

(* The line another one continues.                                         *)
LEMMA OwnerOf ==
  ASSUME NEW h \in Seq(AnyLine), NEW n \in 1 .. Len(h), h[1][1] # Nothing
  PROVE  /\ Owner(h, n) \in 1 .. n /\ h[Owner(h, n)][1] # Nothing
         /\ \A k \in 1 .. n : h[k][1] # Nothing => k <= Owner(h, n)
<1> DEFINE S == {k \in 1 .. n : h[k][1] # Nothing}
<1>1. \A k \in S : k \in Nat /\ k <= n
  OBVIOUS
<1>2. S \in SUBSET Nat
  BY ONLY <1>1
<1>3. 1 \in S
  OBVIOUS
<1> HIDE DEF S
<1>4. Max(S) \in S /\ \A k \in S : k <= Max(S)
  <2>1. n \in Nat /\ \A k \in S : k <= n
    BY <1>1
  <2> QED BY ONLY <1>2, <1>3, <2>1, MaxIs
<1> QED BY <1>4 DEF Owner, S

(* A header more, or one line more for the last.                           *)
LEMMA CutMore ==
  ASSUME NEW h \in Seq(AnyLine), NEW d \in Nat, NEW e \in Nat, d <= e, e < Len(h),
         NEW f \in Seq(HeaderField), NEW s, CutAt(h, d, e, s, f),
         Len(h[e + 1]) = 2, h[e + 1][1] # Nothing
  PROVE  LET x == [key |-> h[e + 1][1], values |-> <<h[e + 1][2]>>]
         IN x \in HeaderField /\ \E t : CutAt(h, d, e + 1, t, Append(f, x))
<1> DEFINE x == [key |-> h[e + 1][1], values |-> <<h[e + 1][2]>>]
           g == Append(f, x)
           t == [i \in 1 .. Len(g) + 1 |-> IF i <= Len(f) + 1 THEN s[i] ELSE e + 2]
<1>1. x \in HeaderField
  <2>1. h[e + 1] \in AnyLine
    <3>1. e + 1 \in 1 .. Len(h)
      OBVIOUS
    <3> QED BY <3>1, ElementOfSeq
  <2>2. h[e + 1][1] \in Words /\ h[e + 1][2] \in Text
    BY <2>1, LineIs
  <2> QED BY <2>2 DEF HeaderField
<1>2. g \in Seq(HeaderField) /\ Len(g) = Len(f) + 1 /\ (\A i \in 1 .. Len(f) : g[i] = f[i]) /\ g[Len(f) + 1] = x
  <2> HIDE DEF x
  <2>1. /\ g \in Seq(HeaderField) /\ Len(g) = Len(f) + 1
        /\ \A i \in 1 .. Len(f) + 1 : g[i] = IF i <= Len(f) THEN f[i] ELSE x
    BY ONLY <1>1, f \in Seq(HeaderField), AppendProperties
  <2>2. Len(f) \in Nat
    OBVIOUS
  <2> HIDE DEF g
  <2> QED BY ONLY <2>1, <2>2
<1>3. /\ s \in [1 .. Len(f) + 1 -> d + 1 .. e + 1] /\ s[1] = d + 1 /\ s[Len(f) + 1] = e + 1
      /\ \A i \in 1 .. Len(f) : FieldIs(h, f[i], s[i], s[i + 1] - 1)
  BY DEF CutAt
<1>4. Len(f) \in Nat /\ Len(h) \in Nat
  OBVIOUS
<1>5. FieldIs(h, x, e + 1, e + 1)
  <2>1. /\ x.key = h[e + 1][1] /\ Len(x.values) = 1 /\ x.values[1] = h[e + 1][2]
    OBVIOUS
  <2>2. e + 1 <= e + 1 /\ e + 1 <= Len(h) /\ e + 1 - (e + 1) + 1 = 1
        /\ \A k \in 1 .. 1 : k = 1 /\ e + 1 + k - 1 = e + 1
    BY <1>4
  <2>3. \A n \in e + 1 + 1 .. e + 1 : FALSE
    OBVIOUS
  <2> HIDE DEF x
  <2>4. \A k \in 1 .. e + 1 - (e + 1) + 1 : x.values[k] = h[e + 1 + k - 1][2]
    <3> SUFFICES ASSUME NEW k \in 1 .. 1 PROVE x.values[k] = h[e + 1 + k - 1][2]
      BY <2>2
    <3>1. k = 1 /\ e + 1 + k - 1 = e + 1
      BY <2>2
    <3> QED BY <3>1, <2>1
  <2> QED BY ONLY <2>1, <2>2, <2>3, <2>4, h[e + 1][1] # Nothing DEF FieldIs
<1> HIDE DEF x, g, t
<1>6. /\ t \in [1 .. Len(g) + 1 -> d + 1 .. e + 1 + 1]
      /\ (\A i \in 1 .. Len(f) + 1 : t[i] = s[i]) /\ t[Len(g) + 1] = e + 1 + 1
  <2> DEFINE N == Len(f)
  <2>1. Len(g) = N + 1 /\ N \in Nat /\ s \in [1 .. N + 1 -> d + 1 .. e + 1]
    BY <1>2, <1>3, <1>4
  <2> HIDE DEF N
  <2>2. t = [i \in 1 .. N + 2 |-> IF i <= N + 1 THEN s[i] ELSE e + 2]
    BY <2>1 DEF t, N
  <2>3. /\ t \in [1 .. N + 2 -> d + 1 .. e + 1 + 1]
        /\ (\A i \in 1 .. N + 1 : t[i] = s[i]) /\ t[N + 2] = e + 1 + 1
    BY ONLY <2>1, <2>2, d \in Nat, e \in Nat, d <= e
  <2>4. Len(g) + 1 = N + 2
    BY <2>1
  <2> QED BY ONLY <2>3, <2>4 DEF N
<1>7. ASSUME NEW i \in 1 .. Len(g) PROVE FieldIs(h, g[i], t[i], t[i + 1] - 1)
  <2>1. CASE i <= Len(f)
    <3>1. i \in 1 .. Len(f) /\ i \in 1 .. Len(f) + 1 /\ i + 1 \in 1 .. Len(f) + 1
      BY <2>1, <1>4
    <3>2. g[i] = f[i] /\ t[i] = s[i] /\ t[i + 1] = s[i + 1]
      BY <3>1, <1>2, <1>6
    <3> QED BY <3>1, <3>2, <1>3
  <2>2. CASE i = Len(f) + 1
    <3>1. i \in 1 .. Len(f) + 1 /\ i + 1 = Len(g) + 1
      BY <2>2, <1>2, <1>4
    <3>2. g[i] = x /\ t[i] = e + 1 /\ t[i + 1] = e + 1 + 1
      BY <3>1, <2>2, <1>2, <1>3, <1>6
    <3>3. t[i + 1] - 1 = e + 1
      BY <3>2
    <3> QED BY <3>2, <3>3, <1>5
  <2> QED BY <2>1, <2>2, <1>2, <1>4
<1>8. t[1] = d + 1
  BY <1>3, <1>4, <1>6
<1>9. CutAt(h, d, e + 1, t, g)
  BY ONLY <1>6, <1>7, <1>8 DEF CutAt
<1> QED BY <1>1, <1>9 DEF x, g

(* A continuation line goes to the header whose lines it follows.          *)
LEMMA CutLonger ==
  ASSUME NEW h \in Seq(AnyLine), NEW d \in Nat, NEW e \in Nat, d <= e, e < Len(h),
         NEW f \in Seq(HeaderField), NEW s, CutAt(h, d, e, s, f), f # <<>>,
         Len(h[e + 1]) = 2, h[e + 1][1] = Nothing
  PROVE  LET g == [f EXCEPT ![Len(f)].values = Append(@, h[e + 1][2])]
         IN g \in Seq(HeaderField) /\ \E t : CutAt(h, d, e + 1, t, g)
<1> DEFINE g == [f EXCEPT ![Len(f)].values = Append(@, h[e + 1][2])]
           x == f[Len(f)]
           y == [x EXCEPT !.values = Append(x.values, h[e + 1][2])]
           t == [s EXCEPT ![Len(f) + 1] = e + 2]
<1>1. Len(f) \in Nat /\ Len(f) >= 1 /\ Len(h) \in Nat
  BY EmptySeq
<1>2. h[e + 1] \in AnyLine
  <2>1. e + 1 \in 1 .. Len(h)
    OBVIOUS
  <2> QED BY <2>1, ElementOfSeq
<1>3. h[e + 1][2] \in Text
  BY <1>2, LineIs
<1>4. x \in HeaderField
  BY <1>1, ElementOfSeq
<1>5. /\ y \in HeaderField /\ y.key = x.key
      /\ Len(y.values) = Len(x.values) + 1 /\ Len(x.values) \in Nat
      /\ \A k \in 1 .. Len(x.values) : y.values[k] = x.values[k]
      /\ y.values[Len(x.values) + 1] = h[e + 1][2]
  <2> DEFINE v == x.values
             z == h[e + 1][2]
  <2>1. v \in Seq(Text) /\ z \in Text
    BY <1>3, <1>4 DEF HeaderField
  <2>2. y.values = Append(v, z) /\ y.key = x.key /\ y = [key |-> x.key, values |-> Append(v, z)]
    <3> HIDE DEF x
    <3> DEFINE a == Append(v, z)
    <3>1. y = [x EXCEPT !.values = a] /\ x \in [key : Words, values : Seq(Text)]
      BY <1>4 DEF HeaderField
    <3> HIDE DEF a, y
    <3>2. y.values = a /\ y.key = x.key /\ y = [key |-> x.key, values |-> a]
      BY ONLY <3>1
    <3> QED BY <3>2 DEF a
  <2> HIDE DEF v, z, y
  <2>3. /\ Append(v, z) \in Seq(Text) /\ Len(Append(v, z)) = Len(v) + 1
        /\ \A k \in 1 .. Len(v) + 1 : Append(v, z)[k] = IF k <= Len(v) THEN v[k] ELSE z
    BY ONLY <2>1, AppendProperties
  <2>4. y \in HeaderField
    BY <2>2, <2>3, <1>4 DEF HeaderField
  <2>5. Len(v) \in Nat
    BY <2>1
  <2> DEFINE a == Append(v, z)
  <2> HIDE DEF a
  <2>6. (\A k \in 1 .. Len(v) : a[k] = v[k]) /\ a[Len(v) + 1] = z
    BY ONLY <2>3, <2>5 DEF a
  <2> QED BY <2>2, <2>3, <2>4, <2>5, <2>6 DEF v, z, a
<1>6. g = [f EXCEPT ![Len(f)] = y]
  OBVIOUS
<1> HIDE DEF g, x, y, t
<1>7. g \in Seq(HeaderField) /\ Len(g) = Len(f) /\ g[Len(f)] = y /\ \A i \in 1 .. Len(f) - 1 : g[i] = f[i]
  <2>1. Len(f) \in 1 .. Len(f)
    BY <1>1
  <2>2. /\ g \in Seq(HeaderField) /\ Len(g) = Len(f)
        /\ \A i \in 1 .. Len(f) : g[i] = IF i = Len(f) THEN y ELSE f[i]
    BY ONLY <2>1, <1>5, <1>6, f \in Seq(HeaderField), ExceptSeq
  <2> QED BY <2>1, <2>2, <1>1
<1>8. /\ s \in [1 .. Len(f) + 1 -> d + 1 .. e + 1] /\ s[1] = d + 1 /\ s[Len(f) + 1] = e + 1
      /\ \A i \in 1 .. Len(f) : FieldIs(h, f[i], s[i], s[i + 1] - 1)
  BY DEF CutAt
<1>9. /\ t \in [1 .. Len(g) + 1 -> d + 1 .. e + 1 + 1] /\ t[Len(g) + 1] = e + 1 + 1
      /\ \A i \in 1 .. Len(f) : t[i] = s[i]
  <2> DEFINE N == Len(f)
  <2>1. N \in Nat /\ s \in [1 .. N + 1 -> d + 1 .. e + 1] /\ t = [s EXCEPT ![N + 1] = e + 2]
    BY <1>1, <1>8 DEF t
  <2> HIDE DEF N
  <2>2. /\ t \in [1 .. N + 1 -> d + 1 .. e + 1 + 1] /\ t[N + 1] = e + 1 + 1
        /\ \A i \in 1 .. N : t[i] = s[i]
    BY ONLY <2>1, d \in Nat, e \in Nat, d <= e
  <2>3. N = Len(f) /\ N = Len(g)
    BY <1>7 DEF N
  <2> QED BY ONLY <2>2, <2>3
<1>10. FieldIs(h, y, s[Len(f)], e + 1)
  <2> DEFINE a == s[Len(f)]
  <2>1. FieldIs(h, x, a, e) /\ a \in Nat /\ a >= 1
    <3>1. Len(f) \in 1 .. Len(f) /\ Len(f) \in 1 .. Len(f) + 1
      BY <1>1
    <3>2. s[Len(f) + 1] - 1 = e
      BY <1>8
    <3>3. a \in d + 1 .. e + 1
      BY ONLY <3>1, <1>8
    <3> QED BY <3>1, <3>2, <3>3, <1>8 DEF x
  <2> HIDE DEF a
  <2>2. /\ a <= e /\ h[a][1] # Nothing /\ \A n \in a + 1 .. e : h[n][1] = Nothing
        /\ x.key = h[a][1]
        /\ Len(x.values) = e - a + 1 /\ \A k \in 1 .. e - a + 1 : x.values[k] = h[a + k - 1][2]
    BY <2>1 DEF FieldIs
  <2>3. \A n \in a + 1 .. e + 1 : h[n][1] = Nothing
    <3> SUFFICES ASSUME NEW n \in a + 1 .. e + 1, n # e + 1 PROVE n \in a + 1 .. e
      BY <2>2
    <3> QED BY <2>1
  <2>4. ASSUME NEW k \in 1 .. e + 1 - a + 1 PROVE y.values[k] = h[a + k - 1][2]
    <3>1. CASE k = e - a + 2
      <4>1. k = Len(x.values) + 1 /\ a + k - 1 = e + 1
        BY <3>1, <2>1, <2>2
      <4> QED BY <4>1, <1>5
    <3>2. CASE k # e - a + 2
      <4>1. k \in 1 .. e - a + 1
        BY <3>2, <2>1
      <4> QED BY <4>1, <2>2, <1>5
    <3> QED BY <3>1, <3>2
  <2>5. a <= e + 1 /\ e + 1 <= Len(h) /\ Len(y.values) = e + 1 - a + 1
    BY <2>1, <2>2, <1>1, <1>5
  <2>6. FieldIs(h, y, a, e + 1)
    <3>1. y.key = h[a][1] /\ h[a][1] # Nothing
      BY <2>2, <1>5
    <3>2. \A k \in 1 .. e + 1 - a + 1 : y.values[k] = h[a + k - 1][2]
      BY ONLY <2>4
    <3> QED BY ONLY <2>1, <2>3, <3>2, <2>5, <3>1, e \in Nat DEF FieldIs
  <2> QED BY <2>6 DEF a
<1>11. ASSUME NEW i \in 1 .. Len(g) PROVE FieldIs(h, g[i], t[i], t[i + 1] - 1)
  <2>1. CASE i < Len(f)
    <3>1. i \in 1 .. Len(f) /\ i \in 1 .. Len(f) - 1 /\ i + 1 \in 1 .. Len(f)
      BY <2>1, <1>1
    <3>2. g[i] = f[i] /\ t[i] = s[i] /\ t[i + 1] = s[i + 1]
      BY <3>1, <1>7, <1>9
    <3> QED BY <3>1, <3>2, <1>8
  <2>2. CASE i = Len(f)
    <3>1. i + 1 = Len(g) + 1 /\ i \in 1 .. Len(f)
      BY <2>2, <1>7, <1>1
    <3>2. g[i] = y /\ t[i] = s[Len(f)] /\ t[i + 1] - 1 = e + 1
      BY <3>1, <2>2, <1>7, <1>9
    <3> QED BY <3>2, <1>10
  <2> QED BY <2>1, <2>2, <1>1, <1>7
<1>12. t[1] = d + 1
  BY <1>1, <1>8, <1>9
<1>13. CutAt(h, d, e + 1, t, g)
  BY ONLY <1>9, <1>11, <1>12 DEF CutAt
<1> QED BY <1>7, <1>13 DEF g

(* The first header, and what it leaves.                                   *)
LEMMA CutFirst ==
  ASSUME NEW h \in Seq(AnyLine), NEW d \in Nat, NEW e \in Nat, d <= e, e <= Len(h),
         NEW f \in Seq(HeaderField), NEW s, CutAt(h, d, e, s, f), f # <<>>
  PROVE  \E b \in d + 1 .. e :
           /\ FieldIs(h, Head(f), d + 1, b)
           /\ b < e => h[b + 1][1] # Nothing
           /\ \E t : CutAt(h, b, e, t, Tail(f))
<1> DEFINE N == Len(f)
           g == Tail(f)
           b == s[2] - 1
           t == [i \in 1 .. N |-> s[i + 1]]
<1>1. N \in Nat /\ N >= 1 /\ Len(h) \in Nat
  BY EmptySeq
<1>2. /\ g \in Seq(HeaderField) /\ Len(g) = N - 1 /\ Head(f) = f[1]
      /\ \A i \in 1 .. N - 1 : g[i] = f[i + 1]
  <2>1. /\ g \in Seq(HeaderField) /\ Len(g) = Len(f) - 1 /\ Head(f) = f[1]
        /\ \A i \in 1 .. Len(g) : g[i] = f[i + 1]
    BY HeadTailProperties
  <2> QED BY <2>1
<1>3. /\ s \in [1 .. N + 1 -> d + 1 .. e + 1] /\ s[1] = d + 1 /\ s[N + 1] = e + 1
      /\ \A i \in 1 .. N : FieldIs(h, f[i], s[i], s[i + 1] - 1)
  BY DEF CutAt
<1> HIDE DEF N, g
<1>4. FieldIs(h, Head(f), d + 1, b)
  <2>1. 1 \in 1 .. N
    BY <1>1
  <2>2. FieldIs(h, f[1], s[1], s[1 + 1] - 1)
    BY ONLY <2>1, <1>3
  <2> QED BY <2>2, <1>2, <1>3
<1>5. b \in d + 1 .. e
  <2>1. 2 \in 1 .. N + 1
    BY <1>1
  <2>2. s[2] \in d + 1 .. e + 1
    BY <2>1, <1>3
  <2>3. d + 1 <= b
    BY <1>4 DEF FieldIs
  <2> QED BY <2>2, <2>3
<1>6. \A i \in 2 .. N : FieldIs(h, f[i], s[i], s[i + 1] - 1) /\ s[i] >= b + 1 /\ s[i + 1] > s[i]
  <2> DEFINE S == {i \in 2 .. N + 1 : s[i] >= b + 1}
  <2>1. \A i \in 2 .. N : FieldIs(h, f[i], s[i], s[i + 1] - 1) /\ s[i] \in Int /\ s[i + 1] \in Int
    <3> SUFFICES ASSUME NEW i \in 2 .. N PROVE FieldIs(h, f[i], s[i], s[i + 1] - 1) /\ s[i] \in Int /\ s[i + 1] \in Int
      OBVIOUS
    <3>1. i \in 1 .. N /\ i \in 1 .. N + 1 /\ i + 1 \in 1 .. N + 1
      BY <1>1
    <3> QED BY <3>1, <1>3
  <2>2. \A i \in 2 .. N : s[i + 1] > s[i]
    <3> SUFFICES ASSUME NEW i \in 2 .. N PROVE s[i + 1] > s[i]
      OBVIOUS
    <3>1. s[i] <= s[i + 1] - 1
      BY <2>1 DEF FieldIs
    <3> QED BY <3>1, <2>1
  <2>3. \A i \in 2 .. N : i \in S
    <3>1. CASE N < 2
      BY <3>1, <1>1
    <3>2. CASE N >= 2
      <4>1. 2 \in S
        <5>1. s[2] \in Int /\ 2 \in 2 .. N + 1
          BY <3>2, <1>1, <2>1
        <5> QED BY <5>1
      <4>2. \A i \in 2 .. N - 1 : i \in S => i + 1 \in S
        <5> SUFFICES ASSUME NEW i \in 2 .. N - 1, i \in S PROVE i + 1 \in S
          OBVIOUS
        <5>1. i \in 2 .. N /\ i + 1 \in 2 .. N + 1 /\ s[i] >= b + 1
          BY <1>1
        <5>2. s[i + 1] >= b + 1
          BY <5>1, <2>1, <2>2, <1>5
        <5> QED BY <5>1, <5>2
      <4> HIDE DEF S
      <4> QED BY <4>1, <4>2, <1>1, 2 \in Nat, Ladder
    <3> QED BY <3>1, <3>2, <1>1
  <2> QED BY <2>1, <2>2, <2>3
<1>7. ASSUME b < e PROVE h[b + 1][1] # Nothing
  <2>1. N >= 2
    <3>1. ASSUME N = 1 PROVE FALSE
      BY <3>1, <1>3, <1>5, <1>7
    <3> QED BY <3>1, <1>1
  <2>2. FieldIs(h, f[2], s[2], s[2 + 1] - 1)
    BY <2>1, <1>1, <1>6
  <2>3. h[s[2]][1] # Nothing
    BY <2>2 DEF FieldIs
  <2>4. s[2] = b + 1
    <3>1. 2 \in 1 .. N + 1
      BY <2>1, <1>1
    <3> QED BY <3>1, <1>3
  <2> QED BY <2>3, <2>4
<1>8. CutAt(h, b, e, t, g)
  <2>1. Len(g) + 1 = N /\ Len(g) = N - 1
    BY <1>1, <1>2
  <2>2. ASSUME NEW i \in 1 .. N PROVE s[i + 1] \in b + 1 .. e + 1
    <3>1. i + 1 \in 1 .. N + 1
      BY <1>1
    <3>2. s[i + 1] \in d + 1 .. e + 1
      BY <3>1, <1>3
    <3>3. s[i + 1] >= b + 1
      <4>1. CASE i = 1
        BY <4>1, <3>2
      <4>2. CASE i > 1
        <5>1. i \in 2 .. N
          BY <4>2, <1>1
        <5>2. i \in 1 .. N + 1
          BY <1>1
        <5>3. s[i] \in Int
          BY <5>2, <1>3
        <5> QED BY <5>1, <5>3, <3>2, <1>5, <1>6
      <4> QED BY <4>1, <4>2, <1>1
    <3> QED BY <3>2, <3>3
  <2>3. t \in [1 .. N -> b + 1 .. e + 1]
    BY <2>2
  <2>4. t[1] = b + 1 /\ t[N] = e + 1
    <3>1. 1 \in 1 .. N /\ N \in 1 .. N /\ 2 \in 1 .. N + 1
      BY <1>1
    <3>2. t[1] = s[2] /\ t[N] = e + 1
      BY <3>1, <1>3
    <3> QED BY <3>1, <3>2, <1>3, SMTT(30)
  <2>5. ASSUME NEW i \in 1 .. N - 1 PROVE FieldIs(h, g[i], t[i], t[i + 1] - 1)
    <3>1. i \in 1 .. N /\ i + 1 \in 1 .. N /\ i + 1 \in 2 .. N
      BY <1>1
    <3>2. g[i] = f[i + 1] /\ t[i] = s[i + 1] /\ t[i + 1] = s[i + 1 + 1]
      BY <3>1, <1>2
    <3> HIDE DEF t
    <3>3. FieldIs(h, f[i + 1], s[i + 1], s[i + 1 + 1] - 1)
      BY ONLY <3>1, <1>6
    <3> QED BY <3>2, <3>3
  <2> HIDE DEF t, b
  <2> QED BY ONLY <2>1, <2>3, <2>4, <2>5 DEF CutAt
<1> QED BY <1>4, <1>5, <1>7, <1>8 DEF g

(* One header more leaves what was seen of the others as it is.            *)
LEMMA OnceMore ==
  ASSUME NEW h \in Seq(AnyLine), NEW d \in Nat, NEW b \in Nat, NEW f, FieldIs(h, f, d + 1, b)
  PROVE  /\ f.key = h[d + 1][1] /\ f.values[1] = h[d + 1][2]
         /\ \A k : k # Nothing =>
              /\ f.key # k => Seen(h, k, b) = Seen(h, k, d)
              /\ f.key = k => Seen(h, k, b) = Seen(h, k, d) \cup {d + 1} /\ d + 1 \notin Seen(h, k, d)
<1>1. \A k : k # Nothing => Seen(h, k, b) = Seen(h, k, d) \cup {n \in {d + 1} : h[n][1] = k}
  BY SeenMore
<1>2. f.key = h[d + 1][1] /\ f.values[1] = h[d + 1][2]
  <2>1. f.key = h[d + 1][1] /\ d + 1 <= b /\ \A n \in 1 .. b - (d + 1) + 1 : f.values[n] = h[d + 1 + n - 1][2]
    BY DEF FieldIs
  <2>2. 1 \in 1 .. b - (d + 1) + 1 /\ d + 1 + 1 - 1 = d + 1
    BY <2>1
  <2> QED BY <2>1, <2>2
<1>3. \A k : d + 1 \notin Seen(h, k, d)
  BY DEF Seen
<1> QED BY ONLY <1>1, <1>2, <1>3

LEMMA ParentsMore ==
  ASSUME NEW h \in Seq(AnyLine), NEW d \in Nat, NEW b \in Nat, b <= Len(h), NEW f, FieldIs(h, f, d + 1, b),
         NEW p \in Seq(Text), ParentsUpTo(h, d, p),
         f.key = "parent", f.values[1] # <<>>, f.values[1] \in Text
  PROVE  ParentsUpTo(h, b, Append(p, f.values[1]))
<1> DEFINE S == Seen(h, "parent", d)
           v == f.values[1]
           q == Append(p, v)
<1>0. "parent" # Nothing
  BY KeysAreNot DEF SingleLine
<1>1. f.key = h[d + 1][1] /\ v = h[d + 1][2] /\ Seen(h, "parent", b) = S \cup {d + 1} /\ d + 1 \notin S
  <2> HIDE DEF v, S, q
  <2>1. /\ f.key = h[d + 1][1] /\ f.values[1] = h[d + 1][2]
        /\ \A k : k # Nothing =>
             (f.key = k => Seen(h, k, b) = Seen(h, k, d) \cup {d + 1} /\ d + 1 \notin Seen(h, k, d))
    BY OnceMore
  <2> QED BY ONLY <2>1, <1>0, f.key = "parent" DEF v, S
<1>2. d + 1 <= b /\ d < Len(h) /\ Len(h) \in Nat
  <2>1. d + 1 <= b
    BY DEF FieldIs
  <2>2. Len(h) \in Nat
    OBVIOUS
  <2> QED BY <2>1, <2>2
<1>3. IsFiniteSet(S) /\ Cardinality(S) \in Nat /\ S \subseteq 1 .. d
  <2>1. S \subseteq 1 .. d
    BY DEF Seen
  <2>2. IsFiniteSet(1 .. d)
    BY FS_Interval
  <2> QED BY <2>1, <2>2, FS_Subset, FS_CardinalityType
<1>4. Cardinality(Seen(h, "parent", b)) = Cardinality(S) + 1
  BY <1>1, <1>3, FS_AddElement
<1>5. /\ q \in Seq(Text) /\ Len(q) = Len(p) + 1
      /\ \A k \in 1 .. Len(p) + 1 : q[k] = IF k <= Len(p) THEN p[k] ELSE v
  BY AppendProperties
<1>6. Len(p) = Cardinality(S) /\ \A n \in S : h[n][2] # <<>> /\ p[Cardinality(Seen(h, "parent", n))] = h[n][2]
  BY DEF ParentsUpTo
<1> HIDE DEF S, v, q
<1>7. ASSUME NEW n \in S PROVE h[n][2] # <<>> /\ q[Cardinality(Seen(h, "parent", n))] = h[n][2]
  <2> DEFINE R == Seen(h, "parent", n)
  <2>1. n \in 1 .. d /\ n \in Nat
    BY <1>3
  <2>2. R \subseteq S /\ n \in R
    <3>1. n <= Len(h) /\ d <= Len(h)
      BY <2>1, <1>2
    <3>2. R = {m \in 1 .. n : h[m][1] = "parent"} /\ S = {m \in 1 .. d : h[m][1] = "parent"}
      BY ONLY <3>1, <2>1, SeenIs, h \in Seq(AnyLine), d \in Nat DEF S
    <3> QED BY ONLY <3>2, <2>1, n \in S, d \in Nat
  <2>3. IsFiniteSet(R) /\ Cardinality(R) \in Nat /\ Cardinality(R) <= Cardinality(S)
    BY <2>2, <1>3, FS_Subset, FS_CardinalityType
  <2>4. Cardinality(R) # 0
    BY <2>2, <2>3, FS_EmptySet
  <2> HIDE DEF R
  <2>5. Cardinality(R) \in 1 .. Len(p) + 1 /\ Cardinality(R) <= Len(p)
    BY ONLY <2>3, <2>4, <1>3, <1>6
  <2>6. q[Cardinality(R)] = p[Cardinality(R)]
    BY ONLY <2>5, <1>5
  <2> QED BY <2>6, <1>6 DEF R
<1>8. q[Cardinality(Seen(h, "parent", d + 1))] = h[d + 1][2] /\ h[d + 1][2] # <<>>
  <2>1. Seen(h, "parent", d + 1) = S \cup {d + 1}
    <3>1. d + 1 <= Len(h) /\ d <= Len(h) /\ d + 1 \in Nat
      BY <1>2
    <3>2. /\ Seen(h, "parent", d + 1) = {m \in 1 .. d + 1 : h[m][1] = "parent"}
          /\ S = {m \in 1 .. d : h[m][1] = "parent"}
      BY ONLY <3>1, SeenIs, h \in Seq(AnyLine), d \in Nat DEF S
    <3>3. h[d + 1][1] = "parent"
      BY <1>1
    <3> QED BY ONLY <3>2, <3>3, d \in Nat
  <2>2. Cardinality(Seen(h, "parent", d + 1)) = Len(p) + 1
    BY <2>1, <1>1, <1>3, <1>6, FS_AddElement
  <2>3. q[Len(p) + 1] = v
    BY ONLY <1>5, <1>6, <1>3
  <2>4. v # <<>>
    BY DEF v
  <2> QED BY <2>2, <2>3, <2>4, <1>1
<1> QED BY <1>1, <1>4, <1>5, <1>6, <1>7, <1>8 DEF ParentsUpTo, q, v

(* What is taken of a header is what its lines say.                        *)
LEMMA TakenMore ==
  ASSUME NEW h \in Seq(AnyLine), NEW d \in Nat, NEW b \in Nat, b <= Len(h), NEW f \in HeaderField,
         FieldIs(h, f, d + 1, b), b < Len(h) => h[b + 1][1] # Nothing,
         commit \in Reading, TakenUpTo(h, d, commit), Accepts(f)
  PROVE  Taken(f) \in Reading /\ TakenUpTo(h, b, Taken(f))
<1> DEFINE c == commit
           w == Taken(f)
           v == f.values[1]
           S(k, n) == Seen(h, k, n)
<1>c. c \in Reading /\ TakenUpTo(h, d, c)
  OBVIOUS
<1>1. /\ f.key = h[d + 1][1] /\ v = h[d + 1][2]
      /\ \A k : k # Nothing =>
           /\ f.key # k => S(k, b) = S(k, d)
           /\ f.key = k => S(k, b) = S(k, d) \cup {d + 1}
  BY OnceMore
<1>2. \A k \in {"tree", "parent", "author", "committer", "gpgsig"} : k # Nothing
  BY KeysAreNot DEF SingleLine
<1>3. \A k \in {"tree", "parent", "author", "committer", "gpgsig"} :
        /\ f.key # k => S(k, b) = S(k, d)
        /\ f.key = k => S(k, b) = S(k, d) \cup {d + 1}
  BY ONLY <1>1, <1>2
<1>4. /\ f.key # "tree" => S("tree", b) = S("tree", d)
      /\ f.key # "parent" => S("parent", b) = S("parent", d)
      /\ f.key # "author" => S("author", b) = S("author", d)
      /\ f.key # "committer" => S("committer", b) = S("committer", d)
      /\ f.key # "gpgsig" => S("gpgsig", b) = S("gpgsig", d)
  BY ONLY <1>3
<1>5. f.values \in Seq(Text) /\ v \in Text
  <2>1. f.values \in Seq(Text)
    BY DEF HeaderField
  <2>2. Len(f.values) = b - (d + 1) + 1 /\ d + 1 <= b
    BY DEF FieldIs
  <2>3. 1 \in 1 .. Len(f.values)
    BY <2>2
  <2> QED BY <2>1, <2>3, ElementOfSeq
<1>6. None \notin Text /\ None \notin Seq(Text) /\ None \notin Person
  BY ObjectFormatAssumption
<1> HIDE DEF S, v
<1>7. CASE f.key = "tree"
  <2>1. c.tree = None /\ v # <<>>
    BY <1>7 DEF Accepts, v
  <2>2. w = [c EXCEPT !.tree = v]
    BY <1>7 DEF Taken, v
  <2> HIDE DEF w, c
  <2>3. w \in Reading /\ w.tree = v /\ w.parent = c.parent /\ w.author = c.author
        /\ w.committer = c.committer /\ w.gpgsig = c.gpgsig
    BY ONLY <2>2, <1>5, <1>c DEF Reading
  <2>4. S("tree", d) = {}
    BY ONLY <2>1, <1>c DEF TakenUpTo, Once, S
  <2>5. S("tree", b) = {d + 1}
    BY ONLY <2>4, <1>3, <1>7
  <2>6. Once(h, b, "tree", w.tree) /\ \A n \in S("tree", b) : h[n][2] # <<>> /\ w.tree = h[n][2]
    BY ONLY <2>1, <2>3, <2>5, <1>1, <1>5, <1>6 DEF Once, S
  <2>7. S("parent", b) = S("parent", d) /\ S("author", b) = S("author", d)
        /\ S("committer", b) = S("committer", d) /\ S("gpgsig", b) = S("gpgsig", d)
    BY ONLY <1>4, <1>7
  <2>8. TakenUpTo(h, b, w)
    BY ONLY <2>3, <2>6, <2>7, <1>c DEF TakenUpTo, Once, ParentsUpTo, S
  <2> QED BY <2>3, <2>8 DEF w
<1>8. CASE f.key = "author"
  <2>1. c.author = None /\ IsIdentity(v)
    BY <1>8 DEF Accepts, v
  <2>2. w = [c EXCEPT !.author = Parts(v)]
    BY <1>8 DEF Taken, v
  <2>p. Parts(v) \in Person
    BY <2>1, <1>5, IdentityRejoined
  <2> HIDE DEF w, c
  <2>3. w \in Reading /\ w.author = Parts(v) /\ w.parent = c.parent /\ w.tree = c.tree
        /\ w.committer = c.committer /\ w.gpgsig = c.gpgsig
    BY ONLY <2>2, <2>p, <1>c DEF Reading
  <2>4. S("author", d) = {}
    BY ONLY <2>1, <1>c DEF TakenUpTo, Once, S
  <2>5. S("author", b) = {d + 1}
    BY ONLY <2>4, <1>3, <1>8
  <2>6. Once(h, b, "author", w.author) /\ \A n \in S("author", b) : IsIdentity(h[n][2]) /\ w.author = Parts(h[n][2])
    BY ONLY <2>1, <2>p, <2>3, <2>5, <1>1, <1>6 DEF Once, S
  <2>7. S("parent", b) = S("parent", d) /\ S("tree", b) = S("tree", d)
        /\ S("committer", b) = S("committer", d) /\ S("gpgsig", b) = S("gpgsig", d)
    BY ONLY <1>4, <1>8
  <2>8. TakenUpTo(h, b, w)
    BY ONLY <2>3, <2>6, <2>7, <1>c DEF TakenUpTo, Once, ParentsUpTo, S
  <2> QED BY <2>3, <2>8 DEF w
<1>9. CASE f.key = "committer"
  <2>1. c.committer = None /\ IsIdentity(v)
    BY <1>9 DEF Accepts, v
  <2>2. w = [c EXCEPT !.committer = Parts(v)]
    BY <1>9 DEF Taken, v
  <2>p. Parts(v) \in Person
    BY <2>1, <1>5, IdentityRejoined
  <2> HIDE DEF w, c
  <2>3. w \in Reading /\ w.committer = Parts(v) /\ w.parent = c.parent /\ w.tree = c.tree
        /\ w.author = c.author /\ w.gpgsig = c.gpgsig
    BY ONLY <2>2, <2>p, <1>c DEF Reading
  <2>4. S("committer", d) = {}
    BY ONLY <2>1, <1>c DEF TakenUpTo, Once, S
  <2>5. S("committer", b) = {d + 1}
    BY ONLY <2>4, <1>3, <1>9
  <2>6. Once(h, b, "committer", w.committer)
        /\ \A n \in S("committer", b) : IsIdentity(h[n][2]) /\ w.committer = Parts(h[n][2])
    BY ONLY <2>1, <2>p, <2>3, <2>5, <1>1, <1>6 DEF Once, S
  <2>7. S("parent", b) = S("parent", d) /\ S("tree", b) = S("tree", d)
        /\ S("author", b) = S("author", d) /\ S("gpgsig", b) = S("gpgsig", d)
    BY ONLY <1>4, <1>9
  <2>8. TakenUpTo(h, b, w)
    BY ONLY <2>3, <2>6, <2>7, <1>c DEF TakenUpTo, Once, ParentsUpTo, S
  <2> QED BY <2>3, <2>8 DEF w
<1>10. CASE f.key = "gpgsig"
  <2>1. c.gpgsig = None
    BY <1>10 DEF Accepts
  <2>2. w = [c EXCEPT !.gpgsig = f.values]
    BY <1>10 DEF Taken
  <2> HIDE DEF w, c
  <2>3. w \in Reading /\ w.committer = c.committer /\ w.parent = c.parent /\ w.tree = c.tree
        /\ w.author = c.author /\ w.gpgsig = f.values
    BY ONLY <2>2, <1>5, <1>c DEF Reading
  <2>4. S("gpgsig", d) = {}
    BY ONLY <2>1, <1>c DEF TakenUpTo, Once, S
  <2>5. S("gpgsig", b) = {d + 1}
    BY ONLY <2>4, <1>3, <1>10
  <2>s. Signature(h, d + 1, f.values)
    <3> DEFINE g == f.values
    <3>1. /\ d + 1 <= b /\ b <= Len(h)
          /\ h[d + 1][1] # Nothing /\ \A n \in d + 1 + 1 .. b : h[n][1] = Nothing
          /\ f.key = h[d + 1][1]
          /\ Len(g) = b - (d + 1) + 1 /\ \A k \in 1 .. b - (d + 1) + 1 : g[k] = h[d + 1 + k - 1][2]
      BY DEF FieldIs
    <3> HIDE DEF g
    <3>2. d + 1 + Len(g) - 1 = b /\ d + 1 + Len(g) = b + 1
      <4>1. Len(g) = b - (d + 1) + 1
        BY <3>1
      <4> QED BY ONLY <4>1, d \in Nat, b \in Nat
    <3>3. FieldIs(h, [key |-> "gpgsig", values |-> g], d + 1, b)
      BY <3>1, <1>10 DEF FieldIs
    <3>4. b + 1 <= Len(h) => b < Len(h)
      <4>1. Len(h) \in Nat
        OBVIOUS
      <4> QED BY <4>1
    <3>5. Signature(h, d + 1, g)
      BY <3>2, <3>3, <3>4 DEF Signature
    <3> QED BY <3>5 DEF g
  <2>6. Once(h, b, "gpgsig", w.gpgsig) /\ \A n \in S("gpgsig", b) : Signature(h, n, w.gpgsig)
    BY ONLY <2>s, <2>3, <2>5, <1>5, <1>6 DEF Once, S
  <2>7. S("parent", b) = S("parent", d) /\ S("tree", b) = S("tree", d)
        /\ S("author", b) = S("author", d) /\ S("committer", b) = S("committer", d)
    BY ONLY <1>4, <1>10
  <2>8. TakenUpTo(h, b, w)
    BY ONLY <2>3, <2>6, <2>7, <1>c DEF TakenUpTo, Once, ParentsUpTo, S
  <2> QED BY <2>3, <2>8 DEF w
<1>11. CASE f.key = "parent"
  <2>1. v # <<>>
    BY <1>11 DEF Accepts, v
  <2>2. w = [c EXCEPT !.parent = Append(c.parent, v)]
    BY <1>11 DEF Taken, v
  <2> HIDE DEF w, c
  <2>p. c.parent \in Seq(Text) /\ Append(c.parent, v) \in Seq(Text)
    <3>1. c.parent \in Seq(Text)
      BY DEF c, Reading
    <3> QED BY ONLY <3>1, <1>5, AppendProperties
  <2>3. w \in Reading /\ w.committer = c.committer /\ w.parent = Append(c.parent, v) /\ w.tree = c.tree
        /\ w.author = c.author /\ w.gpgsig = c.gpgsig
    <3> DEFINE q == Append(c.parent, v)
    <3> HIDE DEF q
    <3>1. w = [c EXCEPT !.parent = q] /\ q \in Seq(Text)
      BY <2>2, <2>p DEF q
    <3>2. w \in Reading /\ w.committer = c.committer /\ w.parent = q /\ w.tree = c.tree
          /\ w.author = c.author /\ w.gpgsig = c.gpgsig
      BY ONLY <3>1, <1>c DEF Reading
    <3> QED BY <3>2 DEF q
  <2>4. ParentsUpTo(h, d, c.parent)
    BY ONLY <1>c DEF TakenUpTo
  <2>5. ParentsUpTo(h, b, w.parent)
    BY <2>1, <2>p, <2>3, <2>4, <1>5, <1>11, ParentsMore DEF v
  <2>7. S("gpgsig", b) = S("gpgsig", d) /\ S("tree", b) = S("tree", d)
        /\ S("author", b) = S("author", d) /\ S("committer", b) = S("committer", d)
    BY ONLY <1>4, <1>11
  <2>8. TakenUpTo(h, b, w)
    BY ONLY <2>3, <2>5, <2>7, <1>c DEF TakenUpTo, Once, S
  <2> QED BY <2>3, <2>8 DEF w
<1>12. CASE f.key \notin {"tree", "parent", "author", "committer", "gpgsig"}
  <2>1. w = c
    BY <1>12 DEF Taken
  <2>2. S("gpgsig", b) = S("gpgsig", d) /\ S("tree", b) = S("tree", d) /\ S("parent", b) = S("parent", d)
        /\ S("author", b) = S("author", d) /\ S("committer", b) = S("committer", d)
    BY ONLY <1>4, <1>12
  <2> HIDE DEF w, c
  <2>3. TakenUpTo(h, b, c)
    BY ONLY <2>2, <1>c DEF TakenUpTo, Once, ParentsUpTo, S
  <2> QED BY ONLY <2>1, <2>3, <1>c DEF w
<1> QED BY <1>7, <1>8, <1>9, <1>10, <1>11, <1>12

(* What is refused of a header should not be there.                        *)
LEMMA Refused ==
  ASSUME NEW h \in Seq(AnyLine), NEW d \in Nat, NEW b \in Nat, b <= Len(h), NEW f \in HeaderField,
         FieldIs(h, f, d + 1, b), commit \in Reading, TakenUpTo(h, d, commit), ~ Accepts(f),
         \A key \in {"tree", "author", "committer"} : \E n \in DOMAIN h : Of(h, key) = {n},
         \A m, n \in Of(h, "gpgsig") : m = n,
         \A n \in Of(h, "tree") \cup Of(h, "parent") : h[n][2] # <<>>,
         \A n \in Of(h, "author") \cup Of(h, "committer") : IsIdentity(h[n][2])
  PROVE  FALSE
<1> DEFINE v == f.values[1]
           c == commit
<1>1. f.key = h[d + 1][1] /\ v = h[d + 1][2]
  BY OnceMore
<1>2. d + 1 \in DOMAIN h
  <2>1. d + 1 <= b /\ Len(h) \in Nat
    BY DEF FieldIs
  <2> QED BY <2>1
<1>3. d + 1 \in Of(h, f.key)
  BY <1>1, <1>2 DEF Of
<1>4. ASSUME NEW k, k = f.key, Seen(h, k, d) # {} PROVE \E m, n \in Of(h, k) : m # n
  <2>1. PICK n \in Seen(h, k, d) : TRUE
    BY <1>4
  <2>2. n \in Of(h, k) /\ n \in 1 .. d
    BY DEF Seen
  <2>3. n # d + 1
    BY <2>2
  <2> QED BY <2>2, <2>3, <1>3, <1>4
<1>5. TakenUpTo(h, d, c)
  OBVIOUS
<1>6. f.key = "tree" => c.tree # None \/ v = <<>>
  BY DEF Accepts
<1>7. f.key = "parent" => v = <<>>
  BY DEF Accepts
<1>8. f.key = "author" => c.author # None \/ ~ IsIdentity(v)
  BY DEF Accepts
<1>9. f.key = "committer" => c.committer # None \/ ~ IsIdentity(v)
  BY DEF Accepts
<1>10. f.key = "gpgsig" => c.gpgsig # None
  BY DEF Accepts
<1>11. f.key \in {"tree", "parent", "author", "committer", "gpgsig"}
  BY DEF Accepts
<1> HIDE DEF v, c
<1>12. CASE f.key = "tree"
  <2>1. v # <<>>
    BY <1>12, <1>1, <1>3
  <2>2. Seen(h, "tree", d) # {}
    BY ONLY <2>1, <1>6, <1>12, <1>5 DEF TakenUpTo, Once
  <2> QED BY <2>2, <1>4, <1>12
<1>13. CASE f.key = "parent"
  BY <1>13, <1>1, <1>3, <1>7
<1>14. CASE f.key = "author"
  <2>1. IsIdentity(v)
    BY <1>14, <1>1, <1>3
  <2>2. Seen(h, "author", d) # {}
    BY ONLY <2>1, <1>8, <1>14, <1>5 DEF TakenUpTo, Once
  <2> QED BY <2>2, <1>4, <1>14
<1>15. CASE f.key = "committer"
  <2>1. IsIdentity(v)
    BY <1>15, <1>1, <1>3
  <2>2. Seen(h, "committer", d) # {}
    BY ONLY <2>1, <1>9, <1>15, <1>5 DEF TakenUpTo, Once
  <2> QED BY <2>2, <1>4, <1>15
<1>16. CASE f.key = "gpgsig"
  <2>2. Seen(h, "gpgsig", d) # {}
    BY ONLY <1>10, <1>16, <1>5 DEF TakenUpTo, Once
  <2> QED BY <2>2, <1>4, <1>16
<1> QED BY <1>11, <1>12, <1>13, <1>14, <1>15, <1>16

(* The lines of a text that is well formed.                                *)
LEMMA RowsAre ==
  ASSUME NEW text \in Seq(AnyLine), Separators(text) # {}
  PROVE  /\ Rows(text) \in Seq(AnyLine) /\ Len(Rows(text)) \in Nat
         /\ Rows(text) # <<>> => Rows(text) = Header(text)
         /\ WellFormed(text) => Rows(text) = Header(text)
<1>1. Header(text) \in Seq(AnyLine) /\ Len(Header(text)) = Separator(text) - 1 /\ Separator(text) >= 2
  BY HeaderIs
<1>2. Rows(text) \in Seq(AnyLine)
  <2>1. <<>> \in Seq(AnyLine)
    OBVIOUS
  <2> QED BY <2>1, <1>1 DEF Rows
<1>3. ASSUME WellFormed(text) PROVE Header(text) # <<Blank>>
  <2> SUFFICES ASSUME Header(text) = <<Blank>> PROVE FALSE
    OBVIOUS
  <2> DEFINE h == Header(text)
  <2>1. \A n \in DOMAIN h : Len(h[n]) = 2
    BY <1>3 DEF WellFormed
  <2>2. h = <<Blank>>
    OBVIOUS
  <2>3. Len(Blank) = 0
    BY DEF Blank
  <2> HIDE DEF h
  <2>4. 1 \in DOMAIN h /\ h[1] = Blank
    BY <2>2
  <2>5. Len(Blank) = 2
    BY ONLY <2>1, <2>4, Zenon
  <2> QED BY ONLY <2>3, <2>5
<1> QED BY <1>2, <1>3 DEF Rows

-----------------------------------------------------------------------------
(***************************************************************************)
(* Commits: what is written.                                               *)
(***************************************************************************)
LEMMA PairLine ==
  ASSUME NEW k \in Words, NEW v \in Text
  PROVE  <<k, v>> \in AnyLine /\ Len(<<k, v>>) = 2 /\ <<k, v>>[1] = k /\ <<k, v>>[2] = v
BY DEF AnyLine

LEMMA SerialiseIs ==
  ASSUME NEW c \in Commits, NEW m \in Message
  PROVE  LET w == Serialise(c, m)
             P == Len(c.parent)
             G == IF c.gpgsig = None THEN 0 ELSE Len(c.gpgsig)
         IN /\ w \in Seq(AnyLine) /\ Len(w) = P + G + 4 + Len(m)
            /\ w[1] = <<"tree", c.tree>>
            /\ \A k \in 1 .. P : w[1 + k] = <<"parent", c.parent[k]>>
            /\ w[P + 2] = <<"author", IdentityText(c.author)>>
            /\ w[P + 3] = <<"committer", IdentityText(c.committer)>>
            /\ \A k \in 1 .. G : w[P + 3 + k] = <<IF k = 1 THEN "gpgsig" ELSE Nothing, c.gpgsig[k]>>
            /\ w[P + G + 4] = Blank
            /\ \A k \in 1 .. Len(m) : w[P + G + 4 + k] = m[k]
<1> DEFINE P == Len(c.parent)
           G == IF c.gpgsig = None THEN 0 ELSE Len(c.gpgsig)
           x1 == <<"tree", c.tree>>
           x2 == <<"author", IdentityText(c.author)>>
           x3 == <<"committer", IdentityText(c.committer)>>
           y(k) == <<"parent", c.parent[k]>>
           z(k) == <<IF k = 1 THEN "gpgsig" ELSE Nothing, c.gpgsig[k]>>
           p == <<x1>>
           q == [n \in DOMAIN c.parent |-> y(n)]
           r == <<x2, x3>>
           g == IF c.gpgsig = None THEN <<>> ELSE GpgsigLines(c.gpgsig)
           u == <<Blank>>
           w1 == p \o q  w2 == w1 \o r  w3 == w2 \o g  w4 == w3 \o u  w5 == w4 \o m
<1>1. /\ c.tree \in Text /\ c.parent \in Seq(Text) /\ c.author \in Committer /\ c.committer \in Committer
      /\ c.gpgsig = None \/ c.gpgsig \in Seq(Text)
  <2>1. c \in [tree : Text \ {<<>>}, parent : Seq(Text \ {<<>>}), author : Committer, committer : Committer,
               gpgsig : {None} \cup (Seq(Text) \ {<<>>})]
    BY ObjectFormatAssumption
  <2>2. \A v \in Seq(Text \ {<<>>}) : v \in Seq(Text)
    BY SeqMonotonic
  <2> QED BY ONLY <2>1, <2>2
<1>2. m \in Seq(AnyLine)
  BY ObjectFormatAssumption
<1>3. P \in Nat /\ DOMAIN c.parent = 1 .. P /\ \A k \in 1 .. P : c.parent[k] \in Text
  BY ONLY <1>1, LenProperties, ElementOfSeq
<1>4. G \in Nat /\ \A k \in 1 .. G : c.gpgsig[k] \in Text
  <2>1. CASE c.gpgsig = None
    BY <2>1
  <2>2. CASE c.gpgsig # None
    <3>1. c.gpgsig \in Seq(Text) /\ G = Len(c.gpgsig)
      BY <2>2, <1>1
    <3> QED BY ONLY <3>1, LenProperties, ElementOfSeq
  <2> QED BY <2>1, <2>2
<1>5. IdentityText(c.author) \in Text /\ IdentityText(c.committer) \in Text
  BY <1>1, IdentityReadBack
<1>6. x1 \in AnyLine /\ x2 \in AnyLine /\ x3 \in AnyLine /\ \A k \in 1 .. P : y(k) \in AnyLine
  <2>1. "tree" \in Words /\ "author" \in Words /\ "committer" \in Words /\ "parent" \in Words
    BY ObjectFormatAssumption DEF SingleLine
  <2> QED BY <2>1, <1>1, <1>3, <1>5, PairLine
<1>7. \A k \in 1 .. G : z(k) \in AnyLine
  <2>1. "gpgsig" \in Words /\ Nothing \in Words
    BY ObjectFormatAssumption
  <2> SUFFICES ASSUME NEW k \in 1 .. G PROVE z(k) \in AnyLine
    OBVIOUS
  <2> DEFINE i == IF k = 1 THEN "gpgsig" ELSE Nothing
  <2>2. i \in Words
    BY <2>1
  <2>3. c.gpgsig[k] \in Text
    BY <1>4
  <2> HIDE DEF i
  <2>4. <<i, c.gpgsig[k]>> \in AnyLine
    BY ONLY <2>2, <2>3, PairLine
  <2> QED BY <2>4 DEF i
<1>8. Serialise(c, m) = w5
  BY DEF Serialise
<1> HIDE DEF P, x1, x2, x3, y, z
<1>p. p \in Seq(AnyLine) /\ Len(p) = 1 /\ p[1] = x1
  BY <1>6
<1>q. q \in Seq(AnyLine) /\ Len(q) = P /\ \A k \in 1 .. P : q[k] = y(k)
  <2>1. q = [k \in 1 .. P |-> y(k)]
    BY <1>3
  <2> HIDE DEF q
  <2>2. q \in [1 .. P -> AnyLine] /\ \A k \in 1 .. P : q[k] = y(k)
    BY <2>1, <1>6
  <2> QED BY ONLY <2>2, <1>3, LengthOf
<1>r. r \in Seq(AnyLine) /\ Len(r) = 2 /\ r[1] = x2 /\ r[2] = x3
  BY <1>6
<1>g. g \in Seq(AnyLine) /\ Len(g) = G /\ \A k \in 1 .. G : g[k] = z(k)
  <2>1. CASE c.gpgsig = None
    <3>1. g = <<>> /\ G = 0
      BY <2>1
    <3> HIDE DEF g, G
    <3> QED BY ONLY <3>1
  <2>2. CASE c.gpgsig # None
    <3>1. DOMAIN c.gpgsig = 1 .. G
      BY <2>2, <1>1, LenProperties
    <3>2. g = [k \in 1 .. G |-> z(k)]
      BY <2>2, <3>1 DEF GpgsigLines, z
    <3> HIDE DEF g, G
    <3>3. g \in [1 .. G -> AnyLine] /\ \A k \in 1 .. G : g[k] = z(k)
      BY <3>2, <1>7
    <3> QED BY ONLY <3>3, <1>4, LengthOf
  <2> QED BY <2>1, <2>2
<1>u. u \in Seq(AnyLine) /\ Len(u) = 1 /\ u[1] = Blank
  <2>1. Blank \in AnyLine
    BY DEF AnyLine
  <2> QED BY <2>1
<1>m. m \in Seq(AnyLine) /\ Len(m) \in Nat
  BY <1>2
<1> HIDE DEF G, p, q, r, g, u, w1, w2, w3, w4, w5
<1>s. /\ p \in Seq(AnyLine) /\ q \in Seq(AnyLine) /\ r \in Seq(AnyLine) /\ g \in Seq(AnyLine)
      /\ u \in Seq(AnyLine) /\ m \in Seq(AnyLine)
  BY <1>p, <1>q, <1>r, <1>g, <1>u, <1>m
<1>t. w1 \in Seq(AnyLine) /\ w2 \in Seq(AnyLine) /\ w3 \in Seq(AnyLine) /\ w4 \in Seq(AnyLine)
  <2>1. w1 \in Seq(AnyLine)
    BY ONLY <1>s, Joined DEF w1
  <2>2. w2 \in Seq(AnyLine)
    BY ONLY <1>s, <2>1, Joined DEF w2
  <2>3. w3 \in Seq(AnyLine)
    BY ONLY <1>s, <2>2, Joined DEF w3
  <2>4. w4 \in Seq(AnyLine)
    BY ONLY <1>s, <2>3, Joined DEF w4
  <2> QED BY <2>1, <2>2, <2>3, <2>4
<1>w1. /\ w1 \in Seq(AnyLine) /\ Len(w1) = Len(p) + Len(q)
       /\ \A k \in 1 .. Len(p) : w1[k] = p[k]
       /\ \A k \in 1 .. Len(q) : w1[Len(p) + k] = q[k]
  BY ONLY <1>s, <1>t, Joined DEF w1
<1>w2. /\ w2 \in Seq(AnyLine) /\ Len(w2) = Len(w1) + Len(r)
       /\ \A k \in 1 .. Len(w1) : w2[k] = w1[k]
       /\ \A k \in 1 .. Len(r) : w2[Len(w1) + k] = r[k]
  BY ONLY <1>s, <1>t, Joined DEF w2
<1>w3. /\ w3 \in Seq(AnyLine) /\ Len(w3) = Len(w2) + Len(g)
       /\ \A k \in 1 .. Len(w2) : w3[k] = w2[k]
       /\ \A k \in 1 .. Len(g) : w3[Len(w2) + k] = g[k]
  BY ONLY <1>s, <1>t, Joined DEF w3
<1>w4. /\ w4 \in Seq(AnyLine) /\ Len(w4) = Len(w3) + Len(u)
       /\ \A k \in 1 .. Len(w3) : w4[k] = w3[k]
       /\ \A k \in 1 .. Len(u) : w4[Len(w3) + k] = u[k]
  BY ONLY <1>s, <1>t, Joined DEF w4
<1>w5. /\ w5 \in Seq(AnyLine) /\ Len(w5) = Len(w4) + Len(m)
       /\ \A k \in 1 .. Len(w4) : w5[k] = w4[k]
       /\ \A k \in 1 .. Len(m) : w5[Len(w4) + k] = m[k]
  BY ONLY <1>s, <1>t, Joined DEF w5
<1>9. /\ Len(w1) = P + 1 /\ Len(w2) = P + 3 /\ Len(w3) = P + G + 3 /\ Len(w4) = P + G + 4
      /\ Len(w5) = P + G + 4 + Len(m)
  BY ONLY <1>3, <1>4, <1>p, <1>q, <1>r, <1>g, <1>u, <1>m, <1>w1, <1>w2, <1>w3, <1>w4, <1>w5
<1>x3. \A k \in 1 .. P + G + 3 : w5[k] = w3[k]
  BY ONLY <1>3, <1>4, <1>9, <1>w4, <1>w5
<1>x2. \A k \in 1 .. P + 3 : w5[k] = w2[k]
  BY ONLY <1>3, <1>4, <1>9, <1>w3, <1>x3
<1>x1. \A k \in 1 .. P + 1 : w5[k] = w1[k]
  BY ONLY <1>3, <1>4, <1>9, <1>w2, <1>x2
<1>10. w5[1] = x1
  BY ONLY <1>3, <1>p, <1>w1, <1>x1
<1>11. \A k \in 1 .. P : w5[1 + k] = y(k)
  BY ONLY <1>3, <1>p, <1>q, <1>w1, <1>x1
<1>12. w5[P + 2] = x2 /\ w5[P + 3] = x3
  <2>1. 1 \in 1 .. Len(r) /\ 2 \in 1 .. Len(r)
    BY <1>r
  <2>2. w2[P + 1 + 1] = x2 /\ w2[P + 1 + 2] = x3
    BY ONLY <2>1, <1>r, <1>w2, <1>9
  <2>3. P + 1 + 1 = P + 2 /\ P + 1 + 2 = P + 3 /\ P + 2 \in 1 .. P + 3 /\ P + 3 \in 1 .. P + 3
    BY <1>3
  <2> QED BY ONLY <2>2, <2>3, <1>x2
<1>13. \A k \in 1 .. G : w5[P + 3 + k] = z(k)
  BY ONLY <1>3, <1>4, <1>9, <1>g, <1>w3, <1>x3
<1>14. w5[P + G + 4] = Blank
  <2>1. 1 \in 1 .. Len(u)
    BY <1>u
  <2>2. w4[P + G + 3 + 1] = Blank
    BY ONLY <2>1, <1>u, <1>w4, <1>9
  <2>3. P + G + 3 + 1 = P + G + 4 /\ P + G + 4 \in 1 .. P + G + 4
    BY <1>3, <1>4
  <2> QED BY ONLY <2>2, <2>3, <1>9, <1>w5
<1>15. \A k \in 1 .. Len(m) : w5[P + G + 4 + k] = m[k]
  BY ONLY <1>9, <1>w5
<1> QED BY ONLY <1>8, <1>w5, <1>9, <1>10, <1>11, <1>12, <1>13, <1>14, <1>15 DEF P, G, x1, x2, x3, y, z

(* The lines of what is written, and where its message begins.             *)
LEMMA WrittenLines ==
  ASSUME NEW c \in Commits, NEW m \in Message
  PROVE  LET w == Serialise(c, m)
             h == Header(w)
             P == Len(c.parent)
             G == IF c.gpgsig = None THEN 0 ELSE Len(c.gpgsig)
         IN /\ w \in Seq(AnyLine) /\ w # <<Blank>> /\ Separators(w) # {}
            /\ SubSeq(w, Separator(w) + 1, Len(w)) = m
            /\ P \in Nat /\ G \in Nat
            /\ h \in Seq(AnyLine) /\ Len(h) = P + G + 3
            /\ h[1] = <<"tree", c.tree>>
            /\ \A n \in 2 .. P + 1 : h[n] = <<"parent", c.parent[n - 1]>>
            /\ h[P + 2] = <<"author", IdentityText(c.author)>>
            /\ h[P + 3] = <<"committer", IdentityText(c.committer)>>
            /\ \A n \in P + 4 .. P + G + 3 :
                 h[n] = <<IF n = P + 4 THEN "gpgsig" ELSE Nothing, c.gpgsig[n - P - 3]>>
<1> DEFINE w == Serialise(c, m)
           h == Header(w)
           P == Len(c.parent)
           G == IF c.gpgsig = None THEN 0 ELSE Len(c.gpgsig)
           S == P + G + 4
<1>1. c.parent \in Seq(Text) /\ (c.gpgsig = None \/ c.gpgsig \in Seq(Text))
  <2>1. c \in [tree : Text \ {<<>>}, parent : Seq(Text \ {<<>>}), author : Committer, committer : Committer,
               gpgsig : {None} \cup (Seq(Text) \ {<<>>})]
    BY ObjectFormatAssumption
  <2>2. \A v \in Seq(Text \ {<<>>}) : v \in Seq(Text)
    BY SeqMonotonic
  <2> QED BY ONLY <2>1, <2>2
<1>2. P \in Nat /\ G \in Nat
  BY <1>1
<1>3. m \in Seq(AnyLine) /\ Len(m) \in Nat /\ Len(m) >= 1
  <2>1. m \in Seq(AnyLine) /\ m # <<>>
    BY ObjectFormatAssumption
  <2> QED BY <2>1, EmptySeq
<1>4. /\ w \in Seq(AnyLine) /\ Len(w) = P + G + 4 + Len(m)
      /\ w[1] = <<"tree", c.tree>>
      /\ \A k \in 1 .. P : w[1 + k] = <<"parent", c.parent[k]>>
      /\ w[P + 2] = <<"author", IdentityText(c.author)>>
      /\ w[P + 3] = <<"committer", IdentityText(c.committer)>>
      /\ \A k \in 1 .. G : w[P + 3 + k] = <<IF k = 1 THEN "gpgsig" ELSE Nothing, c.gpgsig[k]>>
      /\ w[P + G + 4] = Blank
      /\ \A k \in 1 .. Len(m) : w[P + G + 4 + k] = m[k]
  BY SerialiseIs
<1> HIDE DEF w, h, P, G
<1>5. \A n \in 2 .. P + 1 : w[n] = <<"parent", c.parent[n - 1]>>
  <2> SUFFICES ASSUME NEW n \in 2 .. P + 1 PROVE w[n] = <<"parent", c.parent[n - 1]>>
    OBVIOUS
  <2>1. n - 1 \in 1 .. P /\ 1 + (n - 1) = n
    BY <1>2
  <2> QED BY <2>1, <1>4
<1>6. \A n \in P + 4 .. P + G + 3 : w[n] = <<IF n = P + 4 THEN "gpgsig" ELSE Nothing, c.gpgsig[n - P - 3]>>
  <2> SUFFICES ASSUME NEW n \in P + 4 .. P + G + 3
               PROVE  w[n] = <<IF n = P + 4 THEN "gpgsig" ELSE Nothing, c.gpgsig[n - P - 3]>>
    OBVIOUS
  <2>1. n - P - 3 \in 1 .. G /\ P + 3 + (n - P - 3) = n /\ (n - P - 3 = 1 <=> n = P + 4)
    BY <1>2
  <2>2. w[P + 3 + (n - P - 3)] = <<IF n - P - 3 = 1 THEN "gpgsig" ELSE Nothing, c.gpgsig[n - P - 3]>>
    BY ONLY <2>1, <1>4
  <2> QED BY ONLY <2>1, <2>2
<1>7. \A n \in 2 .. S - 1 : w[n] # Blank
  <2> SUFFICES ASSUME NEW n \in 2 .. S - 1 PROVE w[n] # Blank
    OBVIOUS
  <2>1. n \in 2 .. P + 1 \/ n = P + 2 \/ n = P + 3 \/ n \in P + 4 .. P + G + 3
    BY <1>2
  <2>2. CASE n \in 2 .. P + 1
    <3>1. w[n] = <<"parent", c.parent[n - 1]>>
      BY ONLY <2>2, <1>5
    <3> QED BY ONLY <3>1 DEF Blank
  <2>3. CASE n = P + 2
    <3>1. w[n] = <<"author", IdentityText(c.author)>>
      BY ONLY <2>3, <1>4
    <3> QED BY ONLY <3>1 DEF Blank
  <2>4. CASE n = P + 3
    <3>1. w[n] = <<"committer", IdentityText(c.committer)>>
      BY ONLY <2>4, <1>4
    <3> QED BY ONLY <3>1 DEF Blank
  <2>5. CASE n \in P + 4 .. P + G + 3
    <3>1. w[n] = <<IF n = P + 4 THEN "gpgsig" ELSE Nothing, c.gpgsig[n - P - 3]>>
      BY ONLY <2>5, <1>6
    <3> QED BY ONLY <3>1 DEF Blank
  <2> QED BY ONLY <2>1, <2>2, <2>3, <2>4, <2>5
<1>8. S \in Separators(w) /\ Separators(w) # {} /\ Separator(w) = S
  <2>1. \A k \in Separators(w) : k \in Nat /\ k >= 2 /\ w[k] = Blank
    <3>1. Len(w) \in Nat
      BY <1>4
    <3> QED BY <3>1 DEF Separators
  <2>2. Separators(w) \in SUBSET Nat
    BY ONLY <2>1
  <2>3. S \in Separators(w)
    BY <1>2, <1>3, <1>4 DEF Separators
  <2>4. \A k \in Separators(w) : S <= k
    <3> SUFFICES ASSUME NEW k \in Separators(w), k < S PROVE FALSE
      BY <2>1, <1>2
    <3>1. k \in 2 .. S - 1
      BY <2>1, <1>2
    <3> QED BY <3>1, <2>1, <1>7
  <2> HIDE DEF S
  <2> QED BY <2>2, <2>3, <2>4, MinUnique DEF Separator
<1>9. h \in Seq(AnyLine) /\ Len(h) = S - 1 /\ \A n \in 1 .. S - 1 : h[n] = w[n]
  <2> HIDE DEF S
  <2> QED BY <1>4, <1>8, HeaderIs DEF h
<1>10. SubSeq(w, S + 1, Len(w)) = m
  <2> DEFINE x == SubSeq(w, S + 1, Len(w))
  <2>1. /\ x \in Seq(AnyLine) /\ Len(x) = Len(w) - (S + 1) + 1
        /\ \A k \in 1 .. Len(w) - (S + 1) + 1 : x[k] = w[S + 1 + k - 1]
    BY <1>2, <1>3, <1>4, PartIs
  <2>2. Len(w) - (S + 1) + 1 = Len(m) /\ \A k \in 1 .. Len(m) : S + 1 + k - 1 = P + G + 4 + k
    BY <1>2, <1>3, <1>4
  <2> HIDE DEF x
  <2>3. \A k \in 1 .. Len(m) : x[k] = m[k]
    BY <2>1, <2>2, <1>4
  <2>4. x = m
    BY <2>1, <2>2, <2>3, <1>3, SeqEqual
  <2> QED BY <2>4 DEF x
<1>11. w # <<Blank>>
  <2>1. Len(w) # 1
    BY <1>2, <1>3, <1>4
  <2> QED BY <2>1
<1>12. /\ Len(h) = P + G + 3 /\ h[1] = w[1] /\ h[P + 2] = w[P + 2] /\ h[P + 3] = w[P + 3]
       /\ \A n \in 2 .. P + 1 : h[n] = w[n]
       /\ \A n \in P + 4 .. P + G + 3 : h[n] = w[n]
  <2>1. /\ S - 1 = P + G + 3 /\ 1 \in 1 .. S - 1 /\ P + 2 \in 1 .. S - 1 /\ P + 3 \in 1 .. S - 1
        /\ \A n \in 2 .. P + 1 : n \in 1 .. S - 1
        /\ \A n \in P + 4 .. P + G + 3 : n \in 1 .. S - 1
    BY <1>2
  <2> HIDE DEF S
  <2> QED BY ONLY <2>1, <1>9
<1>13. \A n \in 2 .. P + 1 : h[n] = <<"parent", c.parent[n - 1]>>
  BY ONLY <1>12, <1>5
<1>14. \A n \in P + 4 .. P + G + 3 : h[n] = <<IF n = P + 4 THEN "gpgsig" ELSE Nothing, c.gpgsig[n - P - 3]>>
  BY ONLY <1>12, <1>6
<1> HIDE DEF S
<1> QED BY ONLY <1>2, <1>4, <1>8, <1>9, <1>10, <1>11, <1>12, <1>13, <1>14 DEF w, h, P, G

LEMMA WrittenKeys ==
  ASSUME NEW c \in Commits, NEW m \in Message
  PROVE  LET h == Header(Serialise(c, m))
             P == Len(c.parent)
             G == IF c.gpgsig = None THEN 0 ELSE Len(c.gpgsig)
         IN /\ \A n \in DOMAIN h : Len(h[n]) = 2
            /\ Of(h, "tree") = {1} /\ Of(h, "author") = {P + 2} /\ Of(h, "committer") = {P + 3}
            /\ Of(h, "parent") = 2 .. P + 1
            /\ Of(h, "gpgsig") = {n \in {P + 4} : G >= 1}
            /\ Of(h, Nothing) = P + 5 .. P + G + 3
            /\ h[1][2] = c.tree /\ \A n \in 2 .. P + 1 : h[n][2] = c.parent[n - 1]
            /\ h[P + 2][2] = IdentityText(c.author) /\ h[P + 3][2] = IdentityText(c.committer)
            /\ \A n \in P + 4 .. P + G + 3 : h[n][2] = c.gpgsig[n - P - 3]
<1> DEFINE h == Header(Serialise(c, m))
           P == Len(c.parent)
           G == IF c.gpgsig = None THEN 0 ELSE Len(c.gpgsig)
<1>1. /\ P \in Nat /\ G \in Nat
      /\ h \in Seq(AnyLine) /\ Len(h) = P + G + 3
      /\ h[1] = <<"tree", c.tree>>
      /\ \A n \in 2 .. P + 1 : h[n] = <<"parent", c.parent[n - 1]>>
      /\ h[P + 2] = <<"author", IdentityText(c.author)>>
      /\ h[P + 3] = <<"committer", IdentityText(c.committer)>>
      /\ \A n \in P + 4 .. P + G + 3 :
           h[n] = <<IF n = P + 4 THEN "gpgsig" ELSE Nothing, c.gpgsig[n - P - 3]>>
  BY WrittenLines
<1> HIDE DEF h, P, G
<1>2. Len(h[1]) = 2 /\ h[1][1] = "tree" /\ h[1][2] = c.tree
  <2>1. h[1] = <<"tree", c.tree>>
    BY ONLY <1>1
  <2> QED BY ONLY <2>1
<1>3. \A n \in 2 .. P + 1 : Len(h[n]) = 2 /\ h[n][1] = "parent" /\ h[n][2] = c.parent[n - 1]
  <2> SUFFICES ASSUME NEW n \in 2 .. P + 1
               PROVE  Len(h[n]) = 2 /\ h[n][1] = "parent" /\ h[n][2] = c.parent[n - 1]
    OBVIOUS
  <2>1. h[n] = <<"parent", c.parent[n - 1]>>
    BY ONLY <1>1, n \in 2 .. P + 1
  <2> QED BY ONLY <2>1
<1>4. Len(h[P + 2]) = 2 /\ h[P + 2][1] = "author" /\ h[P + 2][2] = IdentityText(c.author)
  <2>1. h[P + 2] = <<"author", IdentityText(c.author)>>
    BY ONLY <1>1
  <2> QED BY ONLY <2>1
<1>5. Len(h[P + 3]) = 2 /\ h[P + 3][1] = "committer" /\ h[P + 3][2] = IdentityText(c.committer)
  <2>1. h[P + 3] = <<"committer", IdentityText(c.committer)>>
    BY ONLY <1>1
  <2> QED BY ONLY <2>1
<1>6. \A n \in P + 4 .. P + G + 3 : Len(h[n]) = 2 /\ h[n][2] = c.gpgsig[n - P - 3]
       /\ (n = P + 4 => h[n][1] = "gpgsig") /\ (n # P + 4 => h[n][1] = Nothing)
  <2> SUFFICES ASSUME NEW n \in P + 4 .. P + G + 3
               PROVE  Len(h[n]) = 2 /\ h[n][2] = c.gpgsig[n - P - 3]
                      /\ (n = P + 4 => h[n][1] = "gpgsig") /\ (n # P + 4 => h[n][1] = Nothing)
    OBVIOUS
  <2>1. h[n] = <<IF n = P + 4 THEN "gpgsig" ELSE Nothing, c.gpgsig[n - P - 3]>>
    BY ONLY <1>1, n \in P + 4 .. P + G + 3
  <2> QED BY ONLY <2>1
<1>7. DOMAIN h = 1 .. P + G + 3
  BY <1>1
<1>8. \A n \in 1 .. P + G + 3 : n = 1 \/ n \in 2 .. P + 1 \/ n = P + 2 \/ n = P + 3 \/ n = P + 4 \/ n \in P + 5 .. P + G + 3
  BY <1>1
<1>9. \A n \in P + 5 .. P + G + 3 : n \in P + 4 .. P + G + 3 /\ n # P + 4
  BY <1>1
<1>10. \A n \in 1 .. P + G + 3 : n = P + 4 => n \in P + 4 .. P + G + 3
  BY <1>1
<1>11. /\ h[1][1] = "tree" /\ (\A n \in 2 .. P + 1 : h[n][1] = "parent") /\ h[P + 2][1] = "author"
       /\ h[P + 3][1] = "committer" /\ (\A n \in P + 5 .. P + G + 3 : h[n][1] = Nothing)
       /\ \A n \in 1 .. P + G + 3 : n = P + 4 => h[n][1] = "gpgsig"
  BY ONLY <1>2, <1>3, <1>4, <1>5, <1>6, <1>9, <1>10
<1>12. "tree" # Nothing /\ "parent" # Nothing /\ "author" # Nothing /\ "committer" # Nothing /\ "gpgsig" # Nothing
  BY KeysAreNot DEF SingleLine
<1>13. \A n \in DOMAIN h : Len(h[n]) = 2
  BY ONLY <1>2, <1>3, <1>4, <1>5, <1>6, <1>7, <1>8, <1>9, <1>10
<1>o. \A k : Of(h, k) = {n \in 1 .. P + G + 3 : h[n][1] = k}
  BY ONLY <1>7 DEF Of
<1>14. Of(h, "tree") = {1}
  <2>1. \A n \in 1 .. P + G + 3 : h[n][1] = "tree" => n = 1
    BY ONLY <1>8, <1>11, <1>12
  <2>2. 1 \in 1 .. P + G + 3
    BY <1>1
  <2> QED BY ONLY <2>1, <2>2, <1>o, <1>11
<1>15. Of(h, "author") = {P + 2}
  <2>1. \A n \in 1 .. P + G + 3 : h[n][1] = "author" => n = P + 2
    BY ONLY <1>8, <1>11, <1>12
  <2>2. P + 2 \in 1 .. P + G + 3
    BY <1>1
  <2> QED BY ONLY <2>1, <2>2, <1>o, <1>11
<1>16. Of(h, "committer") = {P + 3}
  <2>1. \A n \in 1 .. P + G + 3 : h[n][1] = "committer" => n = P + 3
    BY ONLY <1>8, <1>11, <1>12
  <2>2. P + 3 \in 1 .. P + G + 3
    BY <1>1
  <2> QED BY ONLY <2>1, <2>2, <1>o, <1>11
<1>17. Of(h, "parent") = 2 .. P + 1
  <2>1. \A n \in 1 .. P + G + 3 : h[n][1] = "parent" => n \in 2 .. P + 1
    BY ONLY <1>8, <1>11, <1>12
  <2>2. \A n \in 2 .. P + 1 : n \in 1 .. P + G + 3
    BY <1>1
  <2> QED BY ONLY <2>1, <2>2, <1>o, <1>11
<1>18. Of(h, "gpgsig") = {n \in {P + 4} : G >= 1}
  <2>1. \A n \in 1 .. P + G + 3 : h[n][1] = "gpgsig" => n = P + 4
    BY ONLY <1>8, <1>11, <1>12
  <2>2. P + 4 \in 1 .. P + G + 3 <=> G >= 1
    BY <1>1
  <2> QED BY ONLY <2>1, <2>2, <1>o, <1>11
<1>19. Of(h, Nothing) = P + 5 .. P + G + 3
  <2>1. \A n \in 1 .. P + G + 3 : h[n][1] = Nothing => n \in P + 5 .. P + G + 3
    BY ONLY <1>8, <1>11, <1>12
  <2>2. \A n \in P + 5 .. P + G + 3 : n \in 1 .. P + G + 3
    BY <1>1
  <2> QED BY ONLY <2>1, <2>2, <1>o, <1>11
<1>20. (\A n \in 2 .. P + 1 : h[n][2] = c.parent[n - 1]) /\ (\A n \in P + 4 .. P + G + 3 : h[n][2] = c.gpgsig[n - P - 3])
  BY ONLY <1>3, <1>6
<1> QED BY ONLY <1>2, <1>4, <1>5, <1>13, <1>14, <1>15, <1>16, <1>17, <1>18, <1>19, <1>20 DEF h, P, G

LEMMA CommitsAre ==
  ASSUME NEW c \in Commits
  PROVE  /\ c.tree \in Text \ {<<>>} /\ c.parent \in Seq(Text) /\ c.author \in Committer /\ c.committer \in Committer
         /\ \A n \in 1 .. Len(c.parent) : c.parent[n] # <<>>
         /\ c.gpgsig = None \/ (c.gpgsig \in Seq(Text) /\ c.gpgsig # <<>>)
         /\ c = [tree |-> c.tree, parent |-> c.parent, author |-> c.author, committer |-> c.committer,
                 gpgsig |-> c.gpgsig]
<1>1. c \in [tree : Text \ {<<>>}, parent : Seq(Text \ {<<>>}), author : Committer, committer : Committer,
             gpgsig : {None} \cup (Seq(Text) \ {<<>>})]
  BY ObjectFormatAssumption
<1>2. \A v \in Seq(Text \ {<<>>}) : v \in Seq(Text)
  BY SeqMonotonic
<1>3. c.parent \in Seq(Text \ {<<>>})
  BY ONLY <1>1
<1>4. \A n \in 1 .. Len(c.parent) : c.parent[n] \in Text \ {<<>>}
  BY ONLY <1>3, ElementOfSeq
<1>5. \A n \in 1 .. Len(c.parent) : c.parent[n] # <<>>
  BY ONLY <1>4
<1> QED BY ONLY <1>1, <1>2, <1>5

(* What is written has every header it must have.                          *)
LEMMA WrittenIsWellFormed ==
  ASSUME NEW c \in Commits, NEW m \in Message
  PROVE  WellFormed(Serialise(c, m))
<1> DEFINE w == Serialise(c, m)
           h == Header(w)
           P == Len(c.parent)
           G == IF c.gpgsig = None THEN 0 ELSE Len(c.gpgsig)
<1>1. Separators(w) # {} /\ P \in Nat /\ G \in Nat /\ h \in Seq(AnyLine) /\ Len(h) = P + G + 3
  BY WrittenLines
<1>2. /\ \A n \in DOMAIN h : Len(h[n]) = 2
      /\ Of(h, "tree") = {1} /\ Of(h, "author") = {P + 2} /\ Of(h, "committer") = {P + 3}
      /\ Of(h, "parent") = 2 .. P + 1
      /\ Of(h, "gpgsig") = {n \in {P + 4} : G >= 1}
      /\ Of(h, Nothing) = P + 5 .. P + G + 3
      /\ h[1][2] = c.tree /\ \A n \in 2 .. P + 1 : h[n][2] = c.parent[n - 1]
      /\ h[P + 2][2] = IdentityText(c.author) /\ h[P + 3][2] = IdentityText(c.committer)
  BY WrittenKeys
<1>3. /\ c.tree # <<>> /\ (\A n \in 1 .. P : c.parent[n] # <<>>)
      /\ IsIdentity(IdentityText(c.author)) /\ IsIdentity(IdentityText(c.committer))
  BY CommitsAre, IdentityReadBack
<1> HIDE DEF w, h, P, G
<1>4. DOMAIN h = 1 .. P + G + 3
  BY <1>1
<1>5. \A n \in Of(h, Nothing) : n > 1 /\ h[1][1] # Nothing /\ h[Owner(h, n)][1] \notin SingleLine
  <2> SUFFICES ASSUME NEW n \in Of(h, Nothing)
               PROVE  n > 1 /\ h[1][1] # Nothing /\ h[Owner(h, n)][1] \notin SingleLine
    OBVIOUS
  <2>0. n \in P + 5 .. P + G + 3
    BY ONLY <1>2, n \in Of(h, Nothing)
  <2>1. n > 1 /\ 1 \notin P + 5 .. P + G + 3 /\ 1 \in DOMAIN h /\ n \in 1 .. Len(h) /\ P + 4 \in 1 .. n /\ G >= 1
    BY <2>0, <1>1, <1>4
  <2>2. h[1][1] # Nothing
    BY ONLY <2>1, <1>2 DEF Of
  <2>3. P + 4 \in Of(h, "gpgsig")
    BY ONLY <2>1, <1>2
  <2>4. h[P + 4][1] = "gpgsig"
    BY ONLY <2>3 DEF Of
  <2>5. \A k \in P + 4 + 1 .. n : h[k][1] = Nothing
    <3> SUFFICES ASSUME NEW k \in P + 4 + 1 .. n PROVE k \in Of(h, Nothing)
      BY DEF Of
    <3>1. k \in P + 5 .. P + G + 3
      BY <2>0, <1>1
    <3> QED BY ONLY <3>1, <1>2
  <2>6. h[P + 4][1] # Nothing
    BY <2>4, KeysAreNot
  <2>7. Owner(h, n) = P + 4
    BY ONLY <2>1, <2>5, <2>6, <1>1, OwnerIs
  <2>8. "gpgsig" \notin SingleLine
    BY DEF SingleLine
  <2> QED BY ONLY <2>1, <2>2, <2>4, <2>7, <2>8
<1>6. \A key \in {"tree", "author", "committer"} : \E n \in DOMAIN h : Of(h, key) = {n}
  <2>1. 1 \in DOMAIN h /\ P + 2 \in DOMAIN h /\ P + 3 \in DOMAIN h
    BY <1>1, <1>4
  <2> QED BY ONLY <2>1, <1>2
<1>7. \A i, j \in Of(h, "gpgsig") : i = j
  BY ONLY <1>2
<1>8. \A n \in Of(h, "tree") \cup Of(h, "parent") : h[n][2] # <<>>
  <2>1. \A n \in 2 .. P + 1 : n - 1 \in 1 .. P
    BY <1>1
  <2>2. \A n \in 2 .. P + 1 : h[n][2] # <<>>
    BY ONLY <2>1, <1>2, <1>3
  <2> QED BY ONLY <2>2, <1>2, <1>3
<1>9. \A n \in Of(h, "author") \cup Of(h, "committer") : IsIdentity(h[n][2])
  BY ONLY <1>2, <1>3
<1>10. WellFormed(w)
  BY ONLY <1>1, <1>2, <1>5, <1>6, <1>7, <1>8, <1>9 DEF WellFormed, h
<1> QED BY <1>10 DEF w

(* And it says what was written: a reading of all its lines is the commit. *)
LEMMA OnlyReading ==
  ASSUME NEW c \in Commits, NEW m \in Message, NEW r \in Reading,
         TakenUpTo(Header(Serialise(c, m)), Len(Header(Serialise(c, m))), r)
  PROVE  r = c
<1> DEFINE w == Serialise(c, m)
           h == Header(w)
           P == Len(c.parent)
           G == IF c.gpgsig = None THEN 0 ELSE Len(c.gpgsig)
           L == Len(h)
<1>1. P \in Nat /\ G \in Nat /\ h \in Seq(AnyLine) /\ L = P + G + 3
  BY WrittenLines
<1>2. /\ Of(h, "tree") = {1} /\ Of(h, "author") = {P + 2} /\ Of(h, "committer") = {P + 3}
      /\ Of(h, "parent") = 2 .. P + 1
      /\ Of(h, "gpgsig") = {n \in {P + 4} : G >= 1}
      /\ Of(h, Nothing) = P + 5 .. P + G + 3
      /\ h[1][2] = c.tree /\ \A n \in 2 .. P + 1 : h[n][2] = c.parent[n - 1]
      /\ h[P + 2][2] = IdentityText(c.author) /\ h[P + 3][2] = IdentityText(c.committer)
      /\ \A n \in P + 4 .. P + G + 3 : h[n][2] = c.gpgsig[n - P - 3]
  BY WrittenKeys
<1>3. /\ c.parent \in Seq(Text) /\ Parts(IdentityText(c.author)) = c.author
      /\ Parts(IdentityText(c.committer)) = c.committer
      /\ c.gpgsig = None \/ (c.gpgsig \in Seq(Text) /\ c.gpgsig # <<>>)
      /\ c = [tree |-> c.tree, parent |-> c.parent, author |-> c.author, committer |-> c.committer,
              gpgsig |-> c.gpgsig]
  BY CommitsAre, IdentityReadBack
<1>4. G >= 1 <=> c.gpgsig # None
  <2>1. CASE c.gpgsig = None
    BY <2>1
  <2>2. CASE c.gpgsig # None
    BY <2>2, <1>3, EmptySeq
  <2> QED BY <2>1, <2>2
<1>5. c.gpgsig # None => G = Len(c.gpgsig)
  OBVIOUS
<1>t. TakenUpTo(h, L, r) /\ r \in Reading
  OBVIOUS
<1> HIDE DEF w, h, P, G, L
<1>6. \A k : Seen(h, k, L) = Of(h, k)
  <2>1. DOMAIN h = 1 .. L
    BY <1>1 DEF L
  <2>2. \A k : Of(h, k) \subseteq 1 .. L
    BY ONLY <2>1 DEF Of
  <2> QED BY ONLY <2>2 DEF Seen
<1>7. r.tree = c.tree
  BY ONLY <1>t, <1>6, <1>2 DEF TakenUpTo
<1>8. r.author = c.author
  BY ONLY <1>t, <1>6, <1>2, <1>3 DEF TakenUpTo
<1>9. r.committer = c.committer
  BY ONLY <1>t, <1>6, <1>2, <1>3 DEF TakenUpTo
<1>10. r.parent = c.parent
  <2>1. ParentsUpTo(h, L, r.parent) /\ r.parent \in Seq(Text)
    BY ONLY <1>t DEF TakenUpTo, Reading
  <2>2. /\ Len(r.parent) = Cardinality(2 .. P + 1)
        /\ \A n \in 2 .. P + 1 : r.parent[Cardinality(Seen(h, "parent", n))] = c.parent[n - 1]
    BY ONLY <2>1, <1>6, <1>2 DEF ParentsUpTo
  <2>3. Cardinality(2 .. P + 1) = P
    BY FS_Interval, <1>1
  <2>4. ASSUME NEW k \in 1 .. P PROVE r.parent[k] = c.parent[k]
    <3>1. k + 1 \in 2 .. P + 1 /\ k + 1 - 1 = k
      BY <1>1
    <3>2. Seen(h, "parent", k + 1) = 2 .. k + 1
      <4>1. (2 .. P + 1) \cap (1 .. k + 1) = 2 .. k + 1
        BY <1>1
      <4> QED BY ONLY <4>1, <1>2 DEF Seen
    <3>3. Cardinality(2 .. k + 1) = k
      BY FS_Interval
    <3> QED BY <3>1, <3>2, <3>3, <2>2
  <2> QED BY <2>1, <2>2, <2>3, <2>4, <1>3, SeqEqual DEF P
<1>11. r.gpgsig = c.gpgsig
  <2>1. CASE c.gpgsig = None
    <3>1. Of(h, "gpgsig") = {}
      BY ONLY <2>1, <1>2, <1>4
    <3> QED BY ONLY <3>1, <2>1, <1>t, <1>6 DEF TakenUpTo, Once
  <2>2. CASE c.gpgsig # None
    <3> DEFINE g == r.gpgsig
    <3>1. Of(h, "gpgsig") = {P + 4} /\ G >= 1
      BY ONLY <2>2, <1>2, <1>4
    <3>2. g # None /\ Signature(h, P + 4, g)
      BY ONLY <3>1, <1>t, <1>6 DEF TakenUpTo, Once
    <3>3. g \in Seq(Text) /\ Len(g) \in Nat
      BY <3>2 DEF Reading
    <3> HIDE DEF g
    <3>4. /\ P + 4 <= P + 4 + Len(g) - 1 /\ P + 4 + Len(g) - 1 <= L
          /\ \A n \in P + 4 + 1 .. P + 4 + Len(g) - 1 : h[n][1] = Nothing
          /\ \A k \in 1 .. (P + 4 + Len(g) - 1) - (P + 4) + 1 : g[k] = h[P + 4 + k - 1][2]
          /\ P + 4 + Len(g) <= L => h[P + 4 + Len(g)][1] # Nothing
      <4>1. FieldIs(h, [key |-> "gpgsig", values |-> g], P + 4, P + 4 + Len(g) - 1)
            /\ (P + 4 + Len(g) <= L => h[P + 4 + Len(g)][1] # Nothing)
        BY <3>2 DEF Signature, L
      <4> QED BY <4>1 DEF FieldIs, L
    <3>5. Len(g) = G
      <4>1. Len(g) <= G
        BY ONLY <3>3, <3>4, <1>1
      <4>2. ASSUME Len(g) < G PROVE FALSE
        <5>1. P + 4 + Len(g) \in P + 5 .. P + G + 3 /\ P + 4 + Len(g) <= L
          BY ONLY <4>2, <3>3, <3>4, <1>1
        <5>2. h[P + 4 + Len(g)][1] = Nothing
          BY ONLY <5>1, <1>2 DEF Of
        <5> QED BY <5>1, <5>2, <3>4
      <4> QED BY ONLY <4>1, <4>2, <3>3, <1>1
    <3>6. ASSUME NEW k \in 1 .. G PROVE g[k] = c.gpgsig[k]
      <4>1. k \in 1 .. (P + 4 + Len(g) - 1) - (P + 4) + 1 /\ P + 4 + k - 1 \in P + 4 .. P + G + 3
            /\ P + 4 + k - 1 - P - 3 = k
        BY <3>5, <1>1
      <4>2. g[k] = h[P + 4 + k - 1][2]
        BY ONLY <4>1, <3>4
      <4>3. h[P + 4 + k - 1][2] = c.gpgsig[P + 4 + k - 1 - P - 3]
        <5> DEFINE n == P + 4 + k - 1
        <5>1. n \in P + 4 .. P + G + 3 /\ n - P - 3 = k
          BY <1>1
        <5> HIDE DEF n
        <5>2. h[n][2] = c.gpgsig[n - P - 3]
          BY ONLY <5>1, <1>2
        <5>3. h[n][2] = c.gpgsig[k]
          BY ONLY <5>1, <5>2
        <5> QED BY <5>3, <4>1 DEF n
      <4> QED BY <4>1, <4>2, <4>3
    <3>7. c.gpgsig \in Seq(Text) /\ Len(c.gpgsig) = G
      BY <2>2, <1>3, <1>5
    <3>8. g = c.gpgsig
      BY <3>3, <3>5, <3>6, <3>7, SeqEqual
    <3> QED BY <3>8 DEF g
  <2> QED BY <2>1, <2>2
<1>12. r = [tree |-> r.tree, parent |-> r.parent, author |-> r.author, committer |-> r.committer,
            gpgsig |-> r.gpgsig]
  BY <1>t DEF Reading
<1> QED BY ONLY <1>3, <1>7, <1>8, <1>9, <1>10, <1>11, <1>12

-----------------------------------------------------------------------------
(***************************************************************************)
(* Commits: what is read.                                                  *)
(***************************************************************************)
(* The lines of a signature are those that continue its first.             *)
LEMMA SignatureOwns ==
  ASSUME NEW h \in Seq(AnyLine), NEW n \in 1 .. Len(h), NEW g \in Seq(Text), Signature(h, n, g),
         Orderly(h, Len(h))
  PROVE  /\ g[1] = h[n][2] /\ \A k \in 2 .. Len(g) : g[k] = h[n + k - 1][2]
         /\ {n + k - 1 : k \in 2 .. Len(g)} = {m \in Of(h, Nothing) : Owner(h, m) = n}
<1> DEFINE L == Len(g)
<1>1. L \in Nat /\ Len(h) \in Nat /\ DOMAIN h = 1 .. Len(h)
  OBVIOUS
<1>2. /\ n <= n + L - 1 /\ n + L - 1 <= Len(h)
      /\ h[n][1] # Nothing /\ \A m \in n + 1 .. n + L - 1 : h[m][1] = Nothing
      /\ \A k \in 1 .. (n + L - 1) - n + 1 : g[k] = h[n + k - 1][2]
      /\ n + L <= Len(h) => h[n + L][1] # Nothing
  <2>1. FieldIs(h, [key |-> "gpgsig", values |-> g], n, n + L - 1) /\ (n + L <= Len(h) => h[n + L][1] # Nothing)
    BY DEF Signature
  <2> HIDE DEF L
  <2> QED BY <2>1 DEF FieldIs
<1>3. \A m \in Of(h, Nothing) : m \in 1 .. Len(h) /\ h[m][1] = Nothing /\ h[1][1] # Nothing
  <2>1. Seen(h, Nothing, Len(h)) = Of(h, Nothing)
    BY <1>1 DEF Seen, Of
  <2> QED BY <2>1, <1>1 DEF Orderly, Of
<1>n. n \in Nat /\ n >= 1 /\ n <= Len(h)
  OBVIOUS
<1> HIDE DEF L
<1>4. g[1] = h[n][2] /\ \A k \in 2 .. L : g[k] = h[n + k - 1][2]
  <2>1. 1 \in 1 .. (n + L - 1) - n + 1 /\ n + 1 - 1 = n
    BY <1>1, <1>2, <1>n
  <2>2. \A k \in 2 .. L : k \in 1 .. (n + L - 1) - n + 1
    BY <1>1, <1>n
  <2>3. g[1] = h[n + 1 - 1][2]
    BY ONLY <2>1, <1>2
  <2>4. \A k \in 2 .. L : g[k] = h[n + k - 1][2]
    BY ONLY <2>2, <1>2
  <2> QED BY ONLY <2>1, <2>3, <2>4
<1>5. ASSUME NEW k \in 2 .. L PROVE n + k - 1 \in Of(h, Nothing) /\ Owner(h, n + k - 1) = n
  <2> DEFINE m == n + k - 1
  <2>1. m \in n + 1 .. n + L - 1 /\ m \in 1 .. Len(h) /\ n \in 1 .. m /\ \A j \in n + 1 .. m : j \in n + 1 .. n + L - 1
    BY <1>1, <1>2, <1>n
  <2> HIDE DEF m
  <2>2. h[m][1] = Nothing /\ \A j \in n + 1 .. m : h[j][1] = Nothing
    BY ONLY <2>1, <1>2
  <2>3. Owner(h, m) = n
    BY ONLY <2>1, <2>2, <1>2, OwnerIs, h \in Seq(AnyLine)
  <2>4. m \in Of(h, Nothing)
    BY ONLY <2>1, <2>2, <1>1 DEF Of
  <2> QED BY <2>3, <2>4 DEF m
<1>6. ASSUME NEW m \in Of(h, Nothing), Owner(h, m) = n PROVE m - n + 1 \in 2 .. L /\ n + (m - n + 1) - 1 = m
  <2>1. m \in 1 .. Len(h) /\ h[m][1] = Nothing /\ h[1][1] # Nothing
    BY <1>3
  <2>2. n \in 1 .. m /\ \A k \in 1 .. m : h[k][1] # Nothing => k <= n
    BY ONLY <2>1, <1>6, OwnerOf, h \in Seq(AnyLine)
  <2>3. m # n
    BY <2>1, <1>2
  <2>4. ASSUME m >= n + L PROVE FALSE
    <3>1. n + L <= Len(h) /\ n + L \in 1 .. m /\ ~(n + L <= n)
      BY ONLY <2>4, <2>1, <1>1, <1>2, <1>n
    <3> QED BY ONLY <3>1, <2>2, <1>2
  <2> QED BY ONLY <2>1, <2>2, <2>3, <2>4, <1>1, <1>n
<1>7. {n + k - 1 : k \in 2 .. L} = {m \in Of(h, Nothing) : Owner(h, m) = n}
  BY ONLY <1>5, <1>6
<1> QED BY <1>4, <1>7 DEF L

(* A text all of whose headers are taken is well formed, and was read      *)
(* right.                                                                  *)
LEMMA ReadingIsRight ==
  ASSUME NEW text \in Seq(AnyLine), Separators(text) # {}, NEW r \in Reading,
         Orderly(Rows(text), Len(Rows(text))), TakenUpTo(Rows(text), Len(Rows(text)), r),
         None \notin {r.tree, r.author, r.committer}
  PROVE  Rows(text) = Header(text) /\ WellFormed(text) /\ Says(Header(text), r)
<1> DEFINE h == Rows(text)
           L == Len(h)
<1>1. h \in Seq(AnyLine) /\ L \in Nat /\ (h # <<>> => h = Header(text))
  BY RowsAre
<1>t. TakenUpTo(h, L, r) /\ Orderly(h, L) /\ r.tree # None /\ r.author # None /\ r.committer # None
  OBVIOUS
<1>d. DOMAIN h = 1 .. L /\ L = Len(h)
  BY <1>1
<1> HIDE DEF h, L
<1>2. \A k : Seen(h, k, L) = Of(h, k)
  BY ONLY <1>d DEF Seen, Of
<1>3. /\ Of(h, "tree") # {} /\ Of(h, "author") # {} /\ Of(h, "committer") # {}
      /\ Of(h, "gpgsig") = {} <=> r.gpgsig = None
      /\ \A m, n \in Of(h, "tree") : m = n
      /\ \A m, n \in Of(h, "author") : m = n
      /\ \A m, n \in Of(h, "committer") : m = n
      /\ \A m, n \in Of(h, "gpgsig") : m = n
  BY ONLY <1>t, <1>2 DEF TakenUpTo, Once
<1>4. /\ \A n \in Of(h, "tree") : h[n][2] # <<>> /\ r.tree = h[n][2]
      /\ \A n \in Of(h, "author") : IsIdentity(h[n][2]) /\ r.author = Parts(h[n][2])
      /\ \A n \in Of(h, "committer") : IsIdentity(h[n][2]) /\ r.committer = Parts(h[n][2])
      /\ \A n \in Of(h, "gpgsig") : Signature(h, n, r.gpgsig)
      /\ Len(r.parent) = Cardinality(Of(h, "parent"))
      /\ \A n \in Of(h, "parent") : h[n][2] # <<>> /\ r.parent[Cardinality(Seen(h, "parent", n))] = h[n][2]
  BY ONLY <1>t, <1>2 DEF TakenUpTo, ParentsUpTo
<1>5. h = Header(text)
  <2>1. PICK n \in Of(h, "tree") : TRUE
    BY <1>3
  <2>2. n \in 1 .. L
    BY ONLY <2>1, <1>d DEF Of
  <2>3. h # <<>>
    BY <2>2, <1>d
  <2> QED BY <2>3, <1>1
<1>6. \A n \in 1 .. L : Len(h[n]) = 2 /\ h[n][2] \in Text
  <2>1. \A n \in 1 .. L : Len(h[n]) = 2 /\ h[n] \in AnyLine
    BY ONLY <1>t, <1>d, <1>1, ElementOfSeq DEF Orderly
  <2> QED BY ONLY <2>1, LineIs
<1>7. WellFormed(text)
  <2>1. \A n \in Of(h, Nothing) : n > 1 /\ h[1][1] # Nothing /\ h[Owner(h, n)][1] \notin SingleLine
    BY ONLY <1>t, <1>2 DEF Orderly
  <2>2. \A key \in {"tree", "author", "committer"} : \E n \in DOMAIN h : Of(h, key) = {n}
    <3>1. \E n \in DOMAIN h : Of(h, "tree") = {n}
      <4>1. Of(h, "tree") \subseteq DOMAIN h
        BY DEF Of
      <4> QED BY ONLY <4>1, <1>3
    <3>2. \E n \in DOMAIN h : Of(h, "author") = {n}
      <4>1. Of(h, "author") \subseteq DOMAIN h
        BY DEF Of
      <4> QED BY ONLY <4>1, <1>3
    <3>3. \E n \in DOMAIN h : Of(h, "committer") = {n}
      <4>1. Of(h, "committer") \subseteq DOMAIN h
        BY DEF Of
      <4> QED BY ONLY <4>1, <1>3
    <3> QED BY ONLY <3>1, <3>2, <3>3
  <2>3. \A n \in Of(h, "tree") \cup Of(h, "parent") : h[n][2] # <<>>
    BY ONLY <1>4
  <2>4. \A n \in Of(h, "author") \cup Of(h, "committer") : IsIdentity(h[n][2])
    BY ONLY <1>4
  <2>5. \A n \in DOMAIN h : Len(h[n]) = 2
    BY ONLY <1>6, <1>d
  <2> QED BY ONLY <2>1, <2>2, <2>3, <2>4, <2>5, <1>3, <1>5, Separators(text) # {} DEF WellFormed
<1>8. Says(h, r)
  <2>1. \A n \in Of(h, "author") : r.author.timestamp \in Times /\ SaysWho(h[n][2], r.author)
    <3> SUFFICES ASSUME NEW n \in Of(h, "author")
                 PROVE  r.author.timestamp \in Times /\ SaysWho(h[n][2], r.author)
      OBVIOUS
    <3>1. n \in 1 .. L
      BY <1>d DEF Of
    <3>2. h[n][2] \in Text /\ IsIdentity(h[n][2]) /\ r.author = Parts(h[n][2])
      BY ONLY <3>1, <1>4, <1>6, n \in Of(h, "author")
    <3> QED BY ONLY <3>2, IdentityRejoined
  <2>2. \A n \in Of(h, "committer") : r.committer.timestamp \in Times /\ SaysWho(h[n][2], r.committer)
    <3> SUFFICES ASSUME NEW n \in Of(h, "committer")
                 PROVE  r.committer.timestamp \in Times /\ SaysWho(h[n][2], r.committer)
      OBVIOUS
    <3>1. n \in 1 .. L
      BY <1>d DEF Of
    <3>2. h[n][2] \in Text /\ IsIdentity(h[n][2]) /\ r.committer = Parts(h[n][2])
      BY ONLY <3>1, <1>4, <1>6, n \in Of(h, "committer")
    <3> QED BY ONLY <3>2, IdentityRejoined
  <2>3. \A n \in Of(h, "parent") : r.parent[Cardinality(Of(h, "parent") \cap 1 .. n)] = h[n][2]
    BY ONLY <1>4 DEF Seen
  <2>4. \A n \in Of(h, "gpgsig") :
          /\ r.gpgsig[1] = h[n][2]
          /\ {n + k - 1 : k \in 2 .. Len(r.gpgsig)} = {m \in Of(h, Nothing) : Owner(h, m) = n}
          /\ \A k \in 2 .. Len(r.gpgsig) : r.gpgsig[k] = h[n + k - 1][2]
    <3> SUFFICES ASSUME NEW n \in Of(h, "gpgsig")
                 PROVE  /\ r.gpgsig[1] = h[n][2]
                        /\ {n + k - 1 : k \in 2 .. Len(r.gpgsig)} = {m \in Of(h, Nothing) : Owner(h, m) = n}
                        /\ \A k \in 2 .. Len(r.gpgsig) : r.gpgsig[k] = h[n + k - 1][2]
      OBVIOUS
    <3>1. n \in 1 .. Len(h)
      BY <1>d DEF Of
    <3>2. r.gpgsig \in Seq(Text) /\ Signature(h, n, r.gpgsig)
      BY <1>3, <1>4 DEF Reading
    <3>3. Orderly(h, Len(h))
      BY <1>t, <1>d
    <3> QED BY ONLY <3>1, <3>2, <3>3, <1>1, SignatureOwns
  <2> QED BY ONLY <2>1, <2>2, <2>3, <2>4, <1>3, <1>4 DEF Says
<1> QED BY <1>5, <1>7, <1>8 DEF h

LEMMA TextsAre ==
  ASSUME NEW text \in Texts
  PROVE  text \in Seq(AnyLine)
<1>1. Blank \in AnyLine /\ <<"word">> \in AnyLine /\ Line \subseteq AnyLine
  <2>1. Blank \in AnyLine
    BY DEF AnyLine
  <2>2. "word" \in Words /\ Line \subseteq AnyLine
    BY ObjectFormatAssumption
  <2>3. <<"word">> \in [1 .. 1 -> Words]
    BY ONLY <2>2
  <2> QED BY <2>1, <2>2, <2>3 DEF AnyLine
<1>2. CASE \E c \in Commits, m \in Message : text = Serialise(c, m)
  BY ONLY <1>2, WrittenLines
<1>3. CASE \E h \in UNION {[1 .. n -> Line] : n \in 0 .. MaxLines} : text = h \o <<Blank, Blank>>
  <2>0. PICK n \in 0 .. MaxLines : \E h \in [1 .. n -> Line] : text = h \o <<Blank, Blank>>
    BY ONLY <1>3
  <2>1. PICK h \in [1 .. n -> Line] : text = h \o <<Blank, Blank>>
    BY ONLY <2>0
  <2>2. n \in Nat
    BY ObjectFormatAssumption
  <2>3. h \in [1 .. n -> AnyLine]
    BY <1>1
  <2>4. h \in Seq(AnyLine)
    BY ONLY <2>2, <2>3, LengthOf
  <2>5. <<Blank, Blank>> \in Seq(AnyLine)
    BY ONLY <1>1
  <2> QED BY ONLY <2>1, <2>4, <2>5, Joined
<1>4. CASE text \in UNION {[1 .. n -> Line \cup {Blank, <<"word">>}] : n \in 1 .. 3}
  <2>1. PICK n \in 1 .. 3 : text \in [1 .. n -> Line \cup {Blank, <<"word">>}]
    BY ONLY <1>4
  <2>2. text \in [1 .. n -> AnyLine] /\ n \in Nat
    BY <2>1, <1>1
  <2> QED BY ONLY <2>2, LengthOf
<1>5. \/ \E c \in Commits, m \in Message : text = Serialise(c, m)
      \/ \E h \in UNION {[1 .. n -> Line] : n \in 0 .. MaxLines} : text = h \o <<Blank, Blank>>
      \/ text \in UNION {[1 .. n -> Line \cup {Blank, <<"word">>}] : n \in 1 .. 3}
  <2> DEFINE A == {Serialise(c, m) : c \in Commits, m \in Message}
             H == UNION {[1 .. n -> Line] : n \in 0 .. MaxLines}
             B == {h \o <<Blank, Blank>> : h \in H}
             C == UNION {[1 .. n -> Line \cup {Blank, <<"word">>}] : n \in 1 .. 3}
  <2>1. Texts = A \cup B \cup C
    BY DEF Texts
  <2>2. text \in A => \E c \in Commits, m \in Message : text = Serialise(c, m)
    OBVIOUS
  <2> HIDE DEF H
  <2>3. text \in B => \E h \in H : text = h \o <<Blank, Blank>>
    OBVIOUS
  <2> HIDE DEF A, B, C
  <2>4. text \in A \/ text \in B \/ text \in C
    BY <2>1
  <2> QED BY ONLY <2>2, <2>3, <2>4 DEF C, H
<1> QED BY ONLY <1>2, <1>3, <1>4, <1>5

LEMMA CommitInit == FormatInit => CommitInv
<1> SUFFICES ASSUME FormatInit PROVE CommitInv
  OBVIOUS
<1>1. CASE data \in Texts /\ stage = "open"
  <2>1. fields = <<>> /\ commit = Empty
    BY DEF FormatInit
  <2>2. data \in Seq(AnyLine)
    BY <1>1, TextsAre
  <2>3. fields \in Seq(HeaderField)
    BY <2>1
  <2>4. commit \in Reading
    <3>1. <<>> \in Seq(Text)
      OBVIOUS
    <3> QED BY <2>1, <3>1 DEF Empty, Reading
  <2> QED BY <1>1, <2>1, <2>2, <2>3, <2>4 DEF CommitInv, CommitTypes
<1>2. CASE stage = "entries"
  BY <1>2 DEF CommitInv
<1> QED BY <1>1, <1>2 DEF FormatInit

(* Nothing is cut out of no lines.                                         *)
LEMMA OpenStep ==
  ASSUME CommitInv, Open, UNCHANGED data
  PROVE  CommitInv'
<1>1. CommitTypes /\ fields = <<>> /\ commit = Empty /\ stage = "open"
  BY DEF CommitInv, Open
<1>2. fields' = fields /\ commit' = commit /\ data' = data
  BY DEF Open, Throw
<1>3. CommitTypes'
  BY <1>1, <1>2 DEF CommitTypes
<1>4. CASE data = <<Blank>> /\ stage' = "done"
  BY <1>2, <1>3, <1>4 DEF CommitInv
<1>5. CASE Separators(data) = {} /\ Throw
  <2>1. stage' = "threw" /\ ~ WellFormed(data)
    BY <1>5 DEF Throw, WellFormed
  <2>2. (~ WellFormed(data))'
    BY <1>2, <2>1
  <2> QED BY <1>2, <1>3, <2>1, <2>2 DEF CommitInv
<1>6. CASE /\ Separators(data) # {} /\ stage' = "lines" /\ rest' = Rows(data)
           /\ message' = SubSeq(data, Separator(data) + 1, Len(data))
  <2> DEFINE h == Rows(data)
             s == [i \in 1 .. 1 |-> 1]
  <2>1. h \in Seq(AnyLine) /\ Len(h) \in Nat
    BY <1>1, <1>6, RowsAre DEF CommitTypes
  <2> HIDE DEF h
  <2>2. rest' = SubSeq(h, 0 + 1, Len(h))
    BY <2>1, <1>6, SubSeqFull DEF h
  <2>3. Orderly(h, 0)
    BY DEF Orderly, Seen
  <2>4. CutAt(h, 0, 0, s, <<>>)
    <3>1. Len(<<>>) = 0 /\ s \in [1 .. 1 -> 1 .. 1] /\ s[1] = 1
      OBVIOUS
    <3> HIDE DEF s
    <3> QED BY <3>1 DEF CutAt
  <2>5. 0 \in 0 .. Len(h)
    BY <2>1
  <2>6. LinesInv'
    <3>1. /\ rest' = SubSeq(Rows(data'), 0 + 1, Len(Rows(data'))) /\ Orderly(Rows(data'), 0)
          /\ CutAt(Rows(data'), 0, 0, s, fields') /\ 0 \in 0 .. Len(Rows(data'))
      BY <1>1, <1>2, <2>2, <2>3, <2>4, <2>5 DEF h
    <3> HIDE DEF s
    <3> QED BY ONLY <3>1 DEF LinesInv
  <2>7. Split'
    BY <1>2, <1>6 DEF Split
  <2> QED BY <1>1, <1>2, <1>3, <1>6, <2>6, <2>7 DEF CommitInv
<1> QED BY <1>4, <1>5, <1>6 DEF Open, Rows, Header

LEMMA OrderlyMore ==
  ASSUME NEW h \in Seq(AnyLine), NEW e \in Nat, e < Len(h), Orderly(h, e), Len(h[e + 1]) = 2,
         h[e + 1][1] = Nothing =>
           e + 1 > 1 /\ h[1][1] # Nothing /\ h[Owner(h, e + 1)][1] \notin SingleLine
  PROVE  Orderly(h, e + 1)
<1>1. Seen(h, Nothing, e) = {n \in 1 .. e : h[n][1] = Nothing}
      /\ Seen(h, Nothing, e + 1) = {n \in 1 .. e + 1 : h[n][1] = Nothing}
  <2>1. e <= Len(h) /\ e + 1 <= Len(h) /\ e + 1 \in Nat
    OBVIOUS
  <2> QED BY ONLY <2>1, SeenIs, h \in Seq(AnyLine), e \in Nat
<1>2. \A n \in 1 .. e + 1 : n \in 1 .. e \/ n = e + 1
  OBVIOUS
<1>3. /\ \A n \in 1 .. e : Len(h[n]) = 2
      /\ \A n \in Seen(h, Nothing, e) : n > 1 /\ h[1][1] # Nothing /\ h[Owner(h, n)][1] \notin SingleLine
  BY DEF Orderly
<1>4. \A n \in 1 .. e + 1 : Len(h[n]) = 2
  BY <1>2, <1>3
<1>5. ASSUME NEW n \in Seen(h, Nothing, e + 1)
      PROVE  n > 1 /\ h[1][1] # Nothing /\ h[Owner(h, n)][1] \notin SingleLine
  <2>1. n \in 1 .. e + 1 /\ h[n][1] = Nothing
    BY <1>1
  <2>2. CASE n = e + 1
    BY <2>1, <2>2
  <2>3. CASE n \in 1 .. e
    <3>1. n \in Seen(h, Nothing, e)
      BY <1>1, <2>1, <2>3
    <3> QED BY <3>1, <1>3
  <2> QED BY <1>2, <2>1, <2>2, <2>3
<1> QED BY ONLY <1>4, <1>5 DEF Orderly

(* The header that the next line would continue.                           *)
LEMMA LastField ==
  ASSUME NEW h \in Seq(AnyLine), NEW e \in Nat, e < Len(h), NEW f \in Seq(HeaderField), NEW s, CutAt(h, 0, e, s, f),
         h[e + 1][1] = Nothing
  PROVE  /\ f = <<>> => e = 0
         /\ f # <<>> => e > 0 /\ h[1][1] # Nothing /\ h[Owner(h, e + 1)][1] = Last(f).key
<1> DEFINE N == Len(f)
<1>1. /\ s \in [1 .. N + 1 -> 0 + 1 .. e + 1] /\ s[1] = 0 + 1 /\ s[N + 1] = e + 1
      /\ \A i \in 1 .. N : FieldIs(h, f[i], s[i], s[i + 1] - 1)
  BY DEF CutAt
<1>2. N \in Nat /\ Len(h) \in Nat
  OBVIOUS
<1>3. CASE f = <<>>
  <2>1. N = 0
    BY <1>3
  <2> QED BY <2>1, <1>1, <1>3
<1>4. CASE f # <<>>
  <2>1. N >= 1
    BY <1>4, <1>2, EmptySeq
  <2> HIDE DEF N
  <2>2. FieldIs(h, f[1], s[1], s[1 + 1] - 1) /\ FieldIs(h, f[N], s[N], s[N + 1] - 1)
    <3>1. 1 \in 1 .. N /\ N \in 1 .. N
      BY <2>1, <1>2
    <3> QED BY ONLY <3>1, <1>1
  <2> DEFINE m == s[N]
  <2>3. m \in 1 .. e + 1 /\ s[N + 1] - 1 = e
    <3>1. N \in 1 .. N + 1
      BY <2>1, <1>2
    <3> QED BY <3>1, <1>1
  <2>4. s[1] = 1
    BY <1>1
  <2>5. h[1][1] # Nothing
    BY <2>2, <2>4 DEF FieldIs
  <2> HIDE DEF m
  <2>6. /\ m <= e /\ h[m][1] # Nothing /\ f[N].key = h[m][1]
        /\ \A n \in m + 1 .. e : h[n][1] = Nothing
    <3>1. FieldIs(h, f[N], m, e)
      BY ONLY <2>2, <2>3 DEF m
    <3> QED BY ONLY <3>1 DEF FieldIs
  <2>7. \A n \in m + 1 .. e + 1 : h[n][1] = Nothing
    <3>1. \A n \in m + 1 .. e + 1 : n \in m + 1 .. e \/ n = e + 1
      BY <2>3
    <3> QED BY <3>1, <2>6
  <2>8. Owner(h, e + 1) = m
    <3>1. e + 1 \in 1 .. Len(h) /\ m \in 1 .. e + 1
      BY <2>3, <1>2
    <3> QED BY ONLY <3>1, <2>6, <2>7, OwnerIs, h \in Seq(AnyLine)
  <2>9. Last(f) = f[N]
    BY DEF Last, N
  <2> QED BY <2>3, <2>5, <2>6, <2>8, <2>9, <1>4
<1> QED BY <1>3, <1>4

(* A line read is a header of its own or goes to the one above it.         *)
LEMMA HeaderLineStep ==
  ASSUME CommitInv, HeaderLine
  PROVE  CommitInv'
<1> DEFINE h == Rows(data)
           line == Head(rest)
<1>1. /\ CommitTypes /\ Split /\ commit = Empty /\ LinesInv /\ stage = "lines" /\ rest # <<>>
      /\ data' = data
  BY DEF CommitInv, HeaderLine
<1>2. h \in Seq(AnyLine) /\ Len(h) \in Nat /\ (WellFormed(data) => h = Header(data))
  BY <1>1, RowsAre DEF CommitTypes, Split
<1>3. PICK e \in 0 .. Len(h) : /\ rest = SubSeq(h, e + 1, Len(h)) /\ Orderly(h, e)
                               /\ \E s : CutAt(h, 0, e, s, fields)
  BY <1>1 DEF LinesInv
<1>4. PICK s : CutAt(h, 0, e, s, fields)
  BY <1>3
<1>f. fields \in Seq(HeaderField)
  BY <1>1 DEF CommitTypes
<1> HIDE DEF h
<1>5. e \in Nat /\ e < Len(h)
  <2>1. ASSUME e = Len(h) PROVE FALSE
    <3>1. SubSeq(h, e + 1, Len(h)) = <<>>
      BY <2>1, <1>2, SubSeqEmpty
    <3> QED BY <3>1, <1>1, <1>3
  <2> QED BY <2>1, <1>2
<1>6. line = h[e + 1] /\ Tail(rest) = SubSeq(h, e + 1 + 1, Len(h))
  <2>1. e + 1 \in 1 .. Len(h) /\ Len(h) \in e + 1 .. Len(h)
    BY <1>2, <1>5
  <2>2. /\ Head(SubSeq(h, e + 1, Len(h))) = h[e + 1]
        /\ Tail(SubSeq(h, e + 1, Len(h))) = SubSeq(h, e + 1 + 1, Len(h))
    BY <2>1, <1>2, HeadTailOfSubSeq
  <2> QED BY <2>2, <1>3
<1> HIDE DEF line
<1>7. /\ fields = <<>> /\ line[1] = Nothing => e = 0
      /\ fields # <<>> /\ line[1] = Nothing =>
           e > 0 /\ h[1][1] # Nothing /\ h[Owner(h, e + 1)][1] = Last(fields).key
  BY <1>2, <1>4, <1>5, <1>6, <1>f, LastField
<1>8. CASE Throw
  <2>1. ~ WellFormed(data)
    <3> SUFFICES ASSUME WellFormed(data) PROVE FALSE
      OBVIOUS
    <3>1. /\ \A n \in DOMAIN h : Len(h[n]) = 2
          /\ \A n \in Of(h, Nothing) : n > 1 /\ h[1][1] # Nothing /\ h[Owner(h, n)][1] \notin SingleLine
      BY <1>2 DEF WellFormed
    <3>2. e + 1 \in DOMAIN h
      BY <1>2, <1>5
    <3>3. Len(line) = 2
      BY <3>1, <3>2, <1>6
    <3>4. CASE line[1] = Nothing /\ ~ Continues
      <4>1. e + 1 \in Of(h, Nothing)
        BY <3>2, <3>4, <1>6 DEF Of
      <4>2. e + 1 > 1 /\ h[Owner(h, e + 1)][1] \notin SingleLine
        BY ONLY <3>1, <4>1
      <4>3. fields = <<>> \/ Last(fields).key \in SingleLine
        BY ONLY <3>4 DEF Continues
      <4> QED BY ONLY <4>2, <4>3, <3>4, <1>7, <1>5
    <3>5. \/ Len(line) < 2
          \/ Len(line) = 2 /\ line[1] = Nothing /\ ~ Continues
          \/ stage' = stage
      BY ONLY HeaderLine DEF HeaderLine, line
    <3>6. stage' # stage
      BY <1>1, <1>8 DEF Throw
    <3> QED BY <3>3, <3>4, <3>5, <3>6
  <2>2. CommitTypes'
    BY <1>1, <1>8 DEF CommitTypes, Throw
  <2>3. stage' = "threw" /\ (~ WellFormed(data))'
    BY <1>1, <1>8, <2>1 DEF Throw
  <2> QED BY <2>2, <2>3 DEF CommitInv
<1>9. CASE /\ Len(line) = 2 /\ (line[1] = Nothing => Continues)
           /\ fields' = IF line[1] = Nothing
                        THEN [fields EXCEPT ![Len(fields)].values = Append(@, line[2])]
                        ELSE Append(fields, [key |-> line[1], values |-> <<line[2]>>])
           /\ rest' = Tail(rest) /\ UNCHANGED <<stage, commit, message>>
  <2>1. fields' \in Seq(HeaderField) /\ \E t : CutAt(h, 0, e + 1, t, fields')
    <3>0. 0 \in Nat /\ 0 <= e
      BY <1>5
    <3>1. CASE line[1] = Nothing
      <4>1. fields # <<>> /\ fields' = [fields EXCEPT ![Len(fields)].values = Append(@, h[e + 1][2])]
        BY <3>1, <1>9, <1>6 DEF Continues
      <4> DEFINE g == [fields EXCEPT ![Len(fields)].values = Append(@, h[e + 1][2])]
      <4>2. Len(h[e + 1]) = 2 /\ h[e + 1][1] = Nothing
        BY <3>1, <1>6, <1>9
      <4>3. g \in Seq(HeaderField) /\ \E t : CutAt(h, 0, e + 1, t, g)
        BY ONLY <4>1, <4>2, <3>0, <1>2, <1>4, <1>5, <1>f, CutLonger
      <4> HIDE DEF g
      <4>4. fields' = g
        BY <4>1 DEF g
      <4> QED BY ONLY <4>3, <4>4
    <3>2. CASE line[1] # Nothing
      <4>1. fields' = Append(fields, [key |-> h[e + 1][1], values |-> <<h[e + 1][2]>>])
        BY <3>2, <1>9, <1>6
      <4> DEFINE x == [key |-> h[e + 1][1], values |-> <<h[e + 1][2]>>]
      <4>2. x \in HeaderField /\ \E t : CutAt(h, 0, e + 1, t, Append(fields, x))
        BY ONLY <3>0, <3>2, <1>2, <1>4, <1>5, <1>6, <1>f, <1>9, CutMore
      <4> HIDE DEF x
      <4>3. Append(fields, x) \in Seq(HeaderField)
        BY ONLY <4>2, <1>f, AppendProperties
      <4> QED BY <4>1, <4>2, <4>3 DEF x
    <3> QED BY <3>1, <3>2
  <2>2. Orderly(h, e + 1)
    <3>1. ASSUME h[e + 1][1] = Nothing
          PROVE  e + 1 > 1 /\ h[1][1] # Nothing /\ h[Owner(h, e + 1)][1] \notin SingleLine
      <4>1. fields # <<>> /\ Last(fields).key \notin SingleLine
        BY <3>1, <1>6, <1>9 DEF Continues
      <4> QED BY <4>1, <3>1, <1>5, <1>6, <1>7
    <3>2. Len(h[e + 1]) = 2
      BY <1>6, <1>9
    <3> QED BY ONLY <3>1, <3>2, <1>2, <1>3, <1>5, OrderlyMore
  <2>3. e + 1 \in 0 .. Len(h) /\ rest' = SubSeq(h, e + 1 + 1, Len(h))
    BY <1>2, <1>5, <1>6, <1>9
  <2>4. LinesInv'
    <3>1. h = Rows(data')
      BY <1>1 DEF h
    <3> QED BY ONLY <2>1, <2>2, <2>3, <3>1 DEF LinesInv
  <2>5. CommitTypes'
    BY <1>1, <1>9, <2>1 DEF CommitTypes
  <2>6. stage' = "lines" /\ commit' = Empty /\ Split'
    BY <1>1, <1>9 DEF Split
  <2> QED BY <2>4, <2>5, <2>6 DEF CommitInv
<1>10. \/ Throw
       \/ /\ Len(line) = 2 /\ (line[1] = Nothing => Continues)
          /\ fields' = IF line[1] = Nothing
                       THEN [fields EXCEPT ![Len(fields)].values = Append(@, line[2])]
                       ELSE Append(fields, [key |-> line[1], values |-> <<line[2]>>])
          /\ rest' = Tail(rest) /\ UNCHANGED <<stage, commit, message>>
  BY ONLY HeaderLine DEF HeaderLine, line
<1> QED BY ONLY <1>8, <1>9, <1>10

LEMMA HeaderEndsStep ==
  ASSUME CommitInv, HeaderEnds
  PROVE  CommitInv'
<1> DEFINE h == Rows(data)
<1>1. /\ CommitTypes /\ Split /\ commit = Empty /\ LinesInv /\ rest = <<>>
      /\ stage' = "fields" /\ UNCHANGED <<data, rest, fields, commit, message>>
  BY DEF CommitInv, HeaderEnds
<1>2. h \in Seq(AnyLine) /\ Len(h) \in Nat
  BY <1>1, RowsAre DEF CommitTypes, Split
<1>3. PICK e \in 0 .. Len(h) : /\ rest = SubSeq(h, e + 1, Len(h)) /\ Orderly(h, e)
                               /\ \E s : CutAt(h, 0, e, s, fields)
  BY <1>1 DEF LinesInv
<1> HIDE DEF h
<1>4. e = Len(h)
  <2>1. ASSUME e < Len(h) PROVE FALSE
    <3>1. /\ h \in Seq(AnyLine) /\ e + 1 \in Nat /\ Len(h) \in Int /\ e + 1 >= 1 /\ Len(h) <= Len(h)
          /\ Len(h) >= e + 1 - 1
      BY <1>2
    <3>2. Len(SubSeq(h, e + 1, Len(h))) = Len(h) - (e + 1) + 1
      BY ONLY <3>1, PartIs
    <3>3. Len(h) - (e + 1) + 1 = 0
      BY <3>2, <1>1, <1>3
    <3> QED BY <3>3, <2>1, <1>2
  <2> QED BY <2>1, <1>2
<1>5. TakenUpTo(h, 0, Empty)
  <2>1. \A k : Seen(h, k, 0) = {}
    BY DEF Seen
  <2>2. Cardinality({}) = 0 /\ Len(<<>>) = 0
    BY FS_EmptySet
  <2>3. Empty.tree = None /\ Empty.author = None /\ Empty.committer = None /\ Empty.gpgsig = None
        /\ Empty.parent = <<>>
    BY DEF Empty
  <2> QED BY ONLY <2>1, <2>2, <2>3 DEF TakenUpTo, Once, ParentsUpTo
<1>6. FieldsInv'
  <2>1. h = Rows(data') /\ fields' = fields /\ commit' = Empty /\ 0 \in 0 .. Len(h)
    BY <1>1, <1>2 DEF h
  <2> QED BY ONLY <2>1, <1>3, <1>4, <1>5 DEF FieldsInv
<1>7. Orderly(Rows(data'), Len(Rows(data')))
  BY <1>1, <1>3, <1>4 DEF h
<1>8. CommitTypes' /\ Split'
  BY <1>1 DEF CommitTypes, Split
<1> QED BY <1>1, <1>6, <1>7, <1>8 DEF CommitInv

(* A header taken is in the commit, or was refused for cause.              *)
LEMMA TakeStep ==
  ASSUME CommitInv, Take
  PROVE  CommitInv'
<1> DEFINE h == Rows(data)
           f == Head(fields)
<1>1. /\ CommitTypes /\ Split /\ FieldsInv /\ Orderly(h, Len(h)) /\ stage = "fields" /\ fields # <<>>
      /\ data' = data
  BY DEF CommitInv, Take
<1>2. h \in Seq(AnyLine) /\ Len(h) \in Nat /\ (WellFormed(data) => h = Header(data))
  BY <1>1, RowsAre DEF CommitTypes, Split
<1>3. PICK d \in 0 .. Len(h) : TakenUpTo(h, d, commit) /\ \E s : CutAt(h, d, Len(h), s, fields)
  BY <1>1 DEF FieldsInv
<1>4. PICK s : CutAt(h, d, Len(h), s, fields)
  BY <1>3
<1>f. fields \in Seq(HeaderField) /\ commit \in Reading
  BY <1>1 DEF CommitTypes
<1>g. f \in HeaderField /\ Tail(fields) \in Seq(HeaderField)
  BY <1>1, <1>f, HeadTailProperties
<1> HIDE DEF h
<1>5. d \in Nat /\ d <= Len(h) /\ Len(h) <= Len(h)
  BY <1>2
<1>6. PICK b \in d + 1 .. Len(h) :
        /\ FieldIs(h, f, d + 1, b)
        /\ b < Len(h) => h[b + 1][1] # Nothing
        /\ \E t : CutAt(h, b, Len(h), t, Tail(fields))
  BY ONLY <1>1, <1>2, <1>4, <1>5, <1>f, CutFirst
<1>7. b \in Nat /\ b <= Len(h)
  BY <1>2, <1>5
<1> HIDE DEF f
<1>8. CASE ~ Accepts(f) /\ Throw
  <2>1. ~ WellFormed(data)
    <3> SUFFICES ASSUME WellFormed(data) PROVE FALSE
      OBVIOUS
    <3>1. /\ \A key \in {"tree", "author", "committer"} : \E n \in DOMAIN h : Of(h, key) = {n}
          /\ \A m, n \in Of(h, "gpgsig") : m = n
          /\ \A n \in Of(h, "tree") \cup Of(h, "parent") : h[n][2] # <<>>
          /\ \A n \in Of(h, "author") \cup Of(h, "committer") : IsIdentity(h[n][2])
      BY <1>2 DEF WellFormed
    <3> QED BY ONLY <3>1, <1>2, <1>3, <1>5, <1>6, <1>7, <1>8, <1>f, <1>g, Refused
  <2>2. CommitTypes'
    BY <1>1, <1>8 DEF CommitTypes, Throw
  <2>3. stage' = "threw" /\ (~ WellFormed(data))'
    BY <1>1, <1>8, <2>1 DEF Throw
  <2> QED BY <2>2, <2>3 DEF CommitInv
<1>9. CASE /\ Accepts(f) /\ commit' = Taken(f) /\ fields' = Tail(fields)
           /\ UNCHANGED <<stage, rest, message>>
  <2>1. commit' \in Reading /\ TakenUpTo(h, b, commit')
    <3>1. Taken(f) \in Reading /\ TakenUpTo(h, b, Taken(f))
      BY ONLY <1>2, <1>3, <1>5, <1>6, <1>7, <1>9, <1>f, <1>g, TakenMore
    <3> QED BY ONLY <3>1, <1>9
  <2>2. FieldsInv'
    <3>1. h = Rows(data') /\ b \in 0 .. Len(h)
      BY <1>1, <1>7, <1>2 DEF h
    <3> QED BY ONLY <3>1, <2>1, <1>6, <1>9 DEF FieldsInv
  <2>3. CommitTypes'
    BY <1>1, <1>9, <1>g, <2>1 DEF CommitTypes
  <2>4. stage' = "fields" /\ Split' /\ Orderly(Rows(data'), Len(Rows(data')))
    BY <1>1, <1>9 DEF Split, h
  <2> QED BY <2>2, <2>3, <2>4 DEF CommitInv
<1>10. \/ ~ Accepts(f) /\ Throw
       \/ Accepts(f) /\ commit' = Taken(f) /\ fields' = Tail(fields) /\ UNCHANGED <<stage, rest, message>>
  BY ONLY Take DEF Take, f
<1> QED BY ONLY <1>8, <1>9, <1>10

LEMMA FinishStep ==
  ASSUME CommitInv, Finish
  PROVE  CommitInv'
<1> DEFINE h == Rows(data)
<1>1. /\ CommitTypes /\ Split /\ FieldsInv /\ Orderly(h, Len(h)) /\ fields = <<>>
      /\ UNCHANGED <<data, rest, fields, commit, message>>
      /\ stage' = IF None \in {commit.tree, commit.author, commit.committer} THEN "threw" ELSE "done"
  BY DEF CommitInv, Finish
<1>2. h \in Seq(AnyLine) /\ Len(h) \in Nat /\ (WellFormed(data) => h = Header(data))
  BY <1>1, RowsAre DEF CommitTypes, Split
<1>3. PICK d \in 0 .. Len(h) : TakenUpTo(h, d, commit) /\ \E s : CutAt(h, d, Len(h), s, fields)
  BY <1>1 DEF FieldsInv
<1>4. PICK s : CutAt(h, d, Len(h), s, fields)
  BY <1>3
<1>5. d = Len(h)
  <2>1. s[1] = d + 1 /\ s[0 + 1] = Len(h) + 1
    BY <1>1, <1>4 DEF CutAt
  <2> QED BY <2>1, <1>2
<1>6. TakenUpTo(h, Len(h), commit)
  BY <1>3, <1>5
<1>7. CommitTypes' /\ Split'
  BY <1>1 DEF CommitTypes, Split
<1> HIDE DEF h
<1>8. CASE None \in {commit.tree, commit.author, commit.committer}
  <2>1. ASSUME WellFormed(data) PROVE FALSE
    <3>1. \A key \in {"tree", "author", "committer"} : \E n \in DOMAIN h : Of(h, key) = {n}
      BY <1>2, <2>1 DEF WellFormed
    <3>2. Seen(h, "tree", Len(h)) = {} \/ Seen(h, "author", Len(h)) = {} \/ Seen(h, "committer", Len(h)) = {}
      BY ONLY <1>6, <1>8 DEF TakenUpTo, Once
    <3>3. \A k : Seen(h, k, Len(h)) = Of(h, k)
      <4>1. DOMAIN h = 1 .. Len(h)
        BY <1>2
      <4> QED BY ONLY <4>1 DEF Seen, Of
    <3> QED BY ONLY <3>1, <3>2, <3>3
  <2>2. stage' = "threw" /\ (~ WellFormed(data))'
    BY <1>1, <1>8, <2>1
  <2> QED BY <1>7, <2>2 DEF CommitInv
<1>9. CASE None \notin {commit.tree, commit.author, commit.committer}
  <2>1. stage' = "done" /\ data' = data /\ commit' = commit /\ h = Rows(data')
    BY <1>1, <1>9 DEF h
  <2>2. Orderly(h, Len(h))
    BY <1>1 DEF h
  <2>3. TakenUpTo(Rows(data'), Len(Rows(data')), commit') /\ Orderly(Rows(data'), Len(Rows(data')))
    BY ONLY <2>1, <2>2, <1>6
  <2> QED BY ONLY <2>1, <2>3, <1>7, <1>9 DEF CommitInv
<1> QED BY <1>8, <1>9

LEMMA CommitStep ==
  ASSUME CommitInv, [FormatNext]_formatVars
  PROVE  CommitInv'
<1>1. CASE Open /\ UNCHANGED data
  BY <1>1, OpenStep
<1>2. CASE HeaderLine
  BY <1>2, HeaderLineStep
<1>3. CASE HeaderEnds
  BY <1>3, HeaderEndsStep
<1>4. CASE Take
  BY <1>4, TakeStep
<1>5. CASE Finish
  BY <1>5, FinishStep
<1>6. CASE TreeEntry
  <2>1. stage' = "entries"
    BY <1>6 DEF TreeEntry
  <2> QED BY <2>1 DEF CommitInv
<1>7. CASE TreeEnds
  <2>1. stage' = "read"
    BY <1>7 DEF TreeEnds
  <2> QED BY <2>1 DEF CommitInv
<1>8. CASE UNCHANGED formatVars
  BY <1>8 DEF formatVars, CommitInv, CommitTypes, Split, LinesInv, FieldsInv
<1> QED BY <1>1, <1>2, <1>3, <1>4, <1>5, <1>6, <1>7, <1>8 DEF FormatNext

(* Whatever the text, deserialise has read what its lines say so far.      *)
LEMMA CommitInvariant == FormatSpec => []CommitInv
<1>1. FormatInit => CommitInv
  BY CommitInit
<1>2. CommitInv /\ [FormatNext]_formatVars => CommitInv'
  BY CommitStep
<1> QED BY <1>1, <1>2, PTL DEF FormatSpec

(* Once a commit is read, all its lines were.                              *)
LEMMA DoneIsRight ==
  ASSUME CommitInv, stage = "done", data # <<Blank>>
  PROVE  /\ Rows(data) = Header(data) /\ WellFormed(data) /\ Says(Header(data), commit)
         /\ TakenUpTo(Header(data), Len(Header(data)), commit) /\ commit \in Reading
         /\ data = Header(data) \o <<Blank>> \o message
         /\ message = SubSeq(data, Separator(data) + 1, Len(data))
<1>1. /\ CommitTypes /\ Split /\ Orderly(Rows(data), Len(Rows(data)))
      /\ TakenUpTo(Rows(data), Len(Rows(data)), commit)
      /\ None \notin {commit.tree, commit.author, commit.committer}
  BY DEF CommitInv
<1>2. data \in Seq(AnyLine) /\ Separators(data) # {} /\ commit \in Reading
      /\ message = SubSeq(data, Separator(data) + 1, Len(data))
  BY ONLY <1>1 DEF CommitTypes, Split
<1>3. Rows(data) = Header(data) /\ WellFormed(data) /\ Says(Header(data), commit)
  BY ONLY <1>1, <1>2, ReadingIsRight
<1>4. data = Header(data) \o <<Blank>> \o SubSeq(data, Separator(data) + 1, Len(data))
  BY ONLY <1>2, HeaderIs
<1> QED BY ONLY <1>1, <1>2, <1>3, <1>4

(* Whatever lines a text has, and in whatever order, it is read exactly    *)
(* when it is well formed, and every field and the message are what the    *)
(* lines say (commit.cpp:59-167).                                          *)
THEOREM EveryTextIsReadRight == FormatSpec => []ReadsWhatIsThere
<1>1. CommitInv => ReadsWhatIsThere
  <2> SUFFICES ASSUME CommitInv PROVE ReadsWhatIsThere
    OBVIOUS
  <2>1. stage = "threw" => ~ WellFormed(data)
    BY DEF CommitInv
  <2>2. stage = "done" /\ data # <<Blank>> =>
          /\ WellFormed(data) /\ Says(Header(data), commit)
          /\ data = Header(data) \o <<Blank>> \o message
    BY DoneIsRight
  <2> QED BY ONLY <2>1, <2>2 DEF ReadsWhatIsThere
<1> QED BY <1>1, CommitInvariant, PTL

(* A commit that serialise writes, with any parents, identities, signature *)
(* and message, is never refused and reads back as itself                  *)
(* (commit.cpp:24-167).                                                    *)
THEOREM WrittenCommitsReadBack == FormatSpec => []WrittenReadsBack
<1>1. CommitInv => WrittenReadsBack
  <2> SUFFICES ASSUME CommitInv, stage \in {"done", "threw"}, NEW c \in Commits, NEW m \in Message,
                      data = Serialise(c, m)
               PROVE  stage = "done" /\ commit = c /\ message = m
    BY DEF WrittenReadsBack
  <2>1. WellFormed(data) /\ data # <<Blank>> /\ SubSeq(data, Separator(data) + 1, Len(data)) = m
    BY WrittenIsWellFormed, WrittenLines
  <2>2. stage = "done"
    BY <2>1 DEF CommitInv
  <2>3. /\ TakenUpTo(Header(data), Len(Header(data)), commit) /\ commit \in Reading
        /\ message = SubSeq(data, Separator(data) + 1, Len(data))
    BY <2>1, <2>2, DoneIsRight
  <2>4. commit = c
    BY ONLY <2>3, data = Serialise(c, m), OnlyReading
  <2> QED BY <2>1, <2>2, <2>3, <2>4
<1> QED BY <1>1, CommitInvariant, PTL

-----------------------------------------------------------------------------
(***************************************************************************)
(* Trees: the order of their entries.                                      *)
(***************************************************************************)
LEMMA BeforeIrreflexive ==
  ASSUME NEW v \in Seq(Nat)
  PROVE  ~ Before(v, v)
<1> SUFFICES ASSUME NEW n \in 1 .. Len(v), v[n] < v[n] PROVE FALSE
  BY DEF Before
<1>1. v[n] \in Nat
  BY ElementOfSeq
<1> QED BY <1>1

LEMMA BeforeTransitive ==
  ASSUME NEW u \in Seq(Nat), NEW v \in Seq(Nat), NEW w \in Seq(Nat), Before(u, v), Before(v, w)
  PROVE  Before(u, w)
<1>1. PICK n \in 1 .. Len(v) : /\ n <= Len(u) + 1 /\ \A k \in 1 .. n - 1 : u[k] = v[k]
                               /\ n <= Len(u) => u[n] < v[n]
  BY DEF Before
<1>2. PICK m \in 1 .. Len(w) : /\ m <= Len(v) + 1 /\ \A k \in 1 .. m - 1 : v[k] = w[k]
                               /\ m <= Len(v) => v[m] < w[m]
  BY DEF Before
<1>3. Len(u) \in Nat /\ Len(v) \in Nat /\ Len(w) \in Nat
  OBVIOUS
<1>4. /\ \A k \in 1 .. Len(u) : u[k] \in Nat
      /\ \A k \in 1 .. Len(v) : v[k] \in Nat
      /\ \A k \in 1 .. Len(w) : w[k] \in Nat
  BY ElementOfSeq
<1>5. CASE n < m
  <2>1. n \in 1 .. Len(w) /\ n <= Len(u) + 1
    BY <1>1, <1>2, <1>3, <1>5
  <2>2. \A k \in 1 .. n - 1 : u[k] = w[k]
    <3>1. \A k \in 1 .. n - 1 : k \in 1 .. m - 1
      BY <1>5
    <3> QED BY <3>1, <1>1, <1>2
  <2>3. n <= Len(u) => u[n] < w[n]
    <3>1. n \in 1 .. m - 1
      BY <1>5
    <3> QED BY <3>1, <1>1, <1>2
  <2> QED BY <2>1, <2>2, <2>3 DEF Before
<1>6. CASE n = m
  <2>1. \A k \in 1 .. n - 1 : u[k] = w[k]
    BY <1>1, <1>2, <1>6
  <2>2. n <= Len(u) => u[n] < w[n]
    <3> SUFFICES ASSUME n <= Len(u) PROVE u[n] < w[n]
      OBVIOUS
    <3>1. u[n] < v[n] /\ v[n] < w[n]
      BY <1>1, <1>2, <1>3, <1>6
    <3>2. u[n] \in Nat /\ v[n] \in Nat /\ w[n] \in Nat
      BY <1>3, <1>4, <1>6
    <3> QED BY <3>1, <3>2
  <2> QED BY <1>1, <1>6, <2>1, <2>2 DEF Before
<1>7. CASE n > m
  <2>1. m <= Len(u) + 1
    BY <1>1, <1>3, <1>7
  <2>2. \A k \in 1 .. m - 1 : u[k] = w[k]
    <3>1. \A k \in 1 .. m - 1 : k \in 1 .. n - 1
      BY <1>7
    <3> QED BY <3>1, <1>1, <1>2
  <2>3. u[m] < w[m]
    <3>1. m \in 1 .. n - 1 /\ m <= Len(v)
      BY <1>1, <1>3, <1>7
    <3> QED BY <3>1, <1>1, <1>2
  <2> QED BY <2>1, <2>2, <2>3 DEF Before
<1> QED BY <1>5, <1>6, <1>7

LEMMA BeforeTotal ==
  ASSUME NEW v \in Seq(Nat), NEW w \in Seq(Nat), v # w
  PROVE  Before(v, w) \/ Before(w, v)
<1> DEFINE D == {n \in 1 .. Len(v) : n <= Len(w) /\ v[n] # w[n]}
<1>1. Len(v) \in Nat /\ Len(w) \in Nat
  OBVIOUS
<1>2. CASE D = {}
  <2>1. \A n \in 1 .. Len(v) : n <= Len(w) => v[n] = w[n]
    BY <1>2
  <2>2. Len(v) # Len(w)
    <3> SUFFICES ASSUME Len(v) = Len(w) PROVE FALSE
      OBVIOUS
    <3>1. \A n \in 1 .. Len(v) : v[n] = w[n]
      BY <2>1, <1>1
    <3> QED BY <3>1, SeqEqual
  <2>3. CASE Len(v) < Len(w)
    <3>1. /\ Len(v) + 1 \in 1 .. Len(w) /\ ~(Len(v) + 1 <= Len(v))
          /\ \A k \in 1 .. Len(v) + 1 - 1 : v[k] = w[k]
      BY <2>1, <2>3, <1>1
    <3> QED BY <3>1, <1>1 DEF Before
  <2>4. CASE Len(w) < Len(v)
    <3>1. /\ Len(w) + 1 \in 1 .. Len(v) /\ ~(Len(w) + 1 <= Len(w))
          /\ \A k \in 1 .. Len(w) + 1 - 1 : w[k] = v[k]
      BY <2>1, <2>4, <1>1
    <3> QED BY <3>1, <1>1, SMTT(30) DEF Before
  <2> QED BY <2>2, <2>3, <2>4, <1>1
<1>3. CASE D # {}
  <2>1. \A n \in D : n \in Nat
    OBVIOUS
  <2>2. D \in SUBSET Nat
    BY ONLY <2>1
  <2>3. PICK n \in D : \A k \in D : n <= k
    <3> HIDE DEF D
    <3> QED BY <1>3, <2>2, LeastNatural
  <2>4. n \in 1 .. Len(v) /\ n \in 1 .. Len(w) /\ v[n] # w[n]
    BY <1>1
  <2>5. ASSUME NEW k \in 1 .. n - 1 PROVE v[k] = w[k]
    <3>1. k \notin D /\ k \in 1 .. Len(v) /\ k <= Len(w)
      BY <2>3, <2>4, <1>1
    <3> QED BY <3>1
  <2>6. v[n] \in Nat /\ w[n] \in Nat
    BY <2>4, ElementOfSeq
  <2>7. v[n] < w[n] \/ w[n] < v[n]
    BY <2>4, <2>6
  <2>8. n <= Len(v) + 1 /\ n <= Len(w) + 1
    BY <2>4, <1>1
  <2> QED BY <2>4, <2>5, <2>7, <2>8 DEF Before
<1> QED BY <1>2, <1>3

(* A finite set whose elements have different keys has an order.           *)
LEMMA SortedIs ==
  ASSUME NEW S, IsFiniteSet(S), NEW key \in [S -> Seq(Nat)],
         \A x, y \in S : key[x] = key[y] => x = y
  PROVE  LET s == Sorted(S, key)
             N == Cardinality(S)
         IN /\ N \in Nat /\ s \in [1 .. N -> S]
            /\ \A m, n \in 1 .. N : m < n => Before(key[s[m]], key[s[n]])
            /\ \A x \in S : \E n \in 1 .. N : s[n] = x
            /\ \A m, n \in 1 .. N : s[m] = s[n] => m = n
<1> DEFINE N == Cardinality(S)
           Less0(x, y) == Before(key[x], key[y])
           Below(x) == {y \in S : Less0(y, x)}
           place == [x \in S |-> Cardinality(Below(x)) + 1]
           Ordered(s) == \A m, n \in 1 .. N : m < n => Before(key[s[m]], key[s[n]])
<1>1. N \in Nat
  BY FS_CardinalityType
<1>k. \A x \in S : key[x] \in Seq(Nat)
  OBVIOUS
<1>2. \A x \in S : ~ Less0(x, x)
  BY <1>k, BeforeIrreflexive
<1>3. \A x, y, z \in S : Less0(x, y) /\ Less0(y, z) => Less0(x, z)
  <2> SUFFICES ASSUME NEW x \in S, NEW y \in S, NEW z \in S, Less0(x, y), Less0(y, z) PROVE Less0(x, z)
    OBVIOUS
  <2> QED BY <1>k, BeforeTransitive
<1>4. \A x, y \in S : x # y => Less0(x, y) \/ Less0(y, x)
  <2> SUFFICES ASSUME NEW x \in S, NEW y \in S, x # y PROVE Less0(x, y) \/ Less0(y, x)
    OBVIOUS
  <2> QED BY <1>k, BeforeTotal
<1> HIDE DEF Less0
<1>5. ASSUME NEW x \in S
      PROVE  IsFiniteSet(Below(x)) /\ Cardinality(Below(x)) \in Nat /\ Cardinality(Below(x)) < N
  <2> DEFINE B == Below(x)
  <2>1. B \subseteq S /\ x \notin B
    BY <1>2
  <2> HIDE DEF B
  <2>2. IsFiniteSet(B) /\ Cardinality(B) <= N /\ (N = Cardinality(B) => S = B)
    BY <2>1, FS_Subset
  <2>3. Cardinality(B) \in Nat
    BY <2>2, FS_CardinalityType
  <2>4. S # B
    BY <2>1
  <2>5. Cardinality(B) < N
    BY <2>2, <2>3, <2>4, <1>1
  <2> QED BY ONLY <2>2, <2>3, <2>5 DEF B
<1>6. ASSUME NEW x \in S, NEW y \in S, Less0(x, y) PROVE Cardinality(Below(x)) < Cardinality(Below(y))
  <2> DEFINE A == Below(x)  B == Below(y)
  <2>1. A \subseteq B /\ x \in B /\ x \notin A
    BY <1>2, <1>3, <1>6
  <2>2. IsFiniteSet(B) /\ Cardinality(B) \in Nat /\ Cardinality(A) \in Nat
    BY <1>5
  <2> HIDE DEF A, B
  <2>3. Cardinality(A) <= Cardinality(B) /\ (Cardinality(B) = Cardinality(A) => B = A)
    BY <2>1, <2>2, FS_Subset
  <2>4. B # A
    BY <2>1
  <2>5. Cardinality(A) < Cardinality(B)
    BY <2>2, <2>3, <2>4
  <2> QED BY ONLY <2>5 DEF A, B
<1>7. place \in [S -> 1 .. N]
  <2> HIDE DEF Below, N
  <2> QED BY <1>5, <1>1
<1>8. \A x, y \in S : Less0(x, y) => place[x] < place[y]
  <2> SUFFICES ASSUME NEW x \in S, NEW y \in S, Less0(x, y) PROVE place[x] < place[y]
    OBVIOUS
  <2> HIDE DEF Below, N
  <2>1. Cardinality(Below(x)) < Cardinality(Below(y)) /\ Cardinality(Below(x)) \in Nat /\ Cardinality(Below(y)) \in Nat
    BY <1>5, <1>6
  <2>2. place[x] = Cardinality(Below(x)) + 1 /\ place[y] = Cardinality(Below(y)) + 1
    OBVIOUS
  <2> QED BY ONLY <2>1, <2>2
<1> HIDE DEF N, place, Below
<1>9. \A x, y \in S : place[x] = place[y] => x = y
  <2> SUFFICES ASSUME NEW x \in S, NEW y \in S, place[x] = place[y], x # y PROVE FALSE
    OBVIOUS
  <2>1. place[x] \in 1 .. N /\ place[y] \in 1 .. N
    BY <1>7
  <2>2. place[x] < place[y] \/ place[y] < place[x]
    BY <1>4, <1>8
  <2> QED BY <2>1, <2>2
<1>10. \A n \in 1 .. N : \E x \in S : place[x] = n
  <2>1. place \in Injection(S, 1 .. N)
    BY ONLY <1>7, <1>9 DEF Injection, IsInjective
  <2>2. IsFiniteSet(1 .. N) /\ Cardinality(1 .. N) = N
    BY <1>1, FS_Interval
  <2>3. N = Cardinality(1 .. N) <=> place \in Surjection(S, 1 .. N)
    BY ONLY <2>1, <2>2, FS_Injection DEF N
  <2> QED BY ONLY <2>2, <2>3 DEF Surjection
<1>11. \E s \in [1 .. N -> S] : Ordered(s)
  <2> DEFINE s == [n \in 1 .. N |-> CHOOSE x \in S : place[x] = n]
  <2>1. \A n \in 1 .. N : s[n] \in S /\ place[s[n]] = n
    BY <1>10
  <2>2. s \in [1 .. N -> S]
    BY <1>10
  <2> HIDE DEF s
  <2>3. ASSUME NEW m \in 1 .. N, NEW n \in 1 .. N, m < n PROVE Less0(s[m], s[n])
    <3>1. s[m] \in S /\ s[n] \in S /\ place[s[m]] = m /\ place[s[n]] = n
      BY <2>1
    <3>2. s[m] # s[n]
      BY <3>1, <2>3
    <3>3. ASSUME Less0(s[n], s[m]) PROVE FALSE
      <4>1. n < m
        BY <3>1, <3>3, <1>8
      <4> QED BY <4>1, <2>3
    <3> QED BY ONLY <3>1, <3>2, <3>3, <1>4
  <2>4. Ordered(s)
    BY ONLY <2>3 DEF Less0
  <2> QED BY ONLY <2>2, <2>4
<1> DEFINE s == Sorted(S, key)
<1>12. s \in [1 .. N -> S] /\ Ordered(s)
  BY <1>11 DEF Sorted, N
<1> HIDE DEF s
<1>13. \A m, n \in 1 .. N : m < n => Less0(s[m], s[n])
  BY ONLY <1>12 DEF Less0
<1>14. \A m, n \in 1 .. N : s[m] = s[n] => m = n
  <2> SUFFICES ASSUME NEW m \in 1 .. N, NEW n \in 1 .. N, s[m] = s[n], m # n PROVE FALSE
    OBVIOUS
  <2>1. m < n \/ n < m
    BY <1>1
  <2>2. s[m] \in S /\ s[n] \in S
    BY <1>12
  <2> QED BY <2>1, <2>2, <1>2, <1>13
<1>15. \A x \in S : \E n \in 1 .. N : s[n] = x
  <2>1. s \in Injection(1 .. N, S)
    BY ONLY <1>12, <1>14 DEF Injection, IsInjective
  <2>2. Cardinality(1 .. N) = N
    BY <1>1, FS_Interval
  <2>3. Cardinality(1 .. N) = Cardinality(S) <=> s \in Surjection(1 .. N, S)
    BY ONLY <2>1, IsFiniteSet(S), FS_Injection
  <2> QED BY ONLY <2>2, <2>3 DEF Surjection, N
<1> QED BY <1>1, <1>12, <1>14, <1>15 DEF N, s

-----------------------------------------------------------------------------
(* Each digit is what remains of the number above it.                      *)
LEMMA OctalDigits ==
  ASSUME NEW mode \in Nat, mode < 8 * Power[1], NEW n \in 1 .. 6
  PROVE  /\ Power[n] \in Nat \ {0} /\ mode \div Power[n] \in Nat
         /\ (mode \div Power[n]) % 8 \in 0 .. 7
         /\ n = 1 => mode \div Power[n] < 8
         /\ n = 6 => mode \div Power[n] = mode
         /\ n > 1 => mode \div Power[n] = 8 * (mode \div Power[n - 1]) + ((mode \div Power[n]) % 8)
<1>p. /\ Power[1] = 32768 /\ Power[2] = 4096 /\ Power[3] = 512
      /\ Power[4] = 64 /\ Power[5] = 8 /\ Power[6] = 1
  BY SMT DEF Power
<1>m. mode < 262144
  <2>1. 8 * Power[1] = 262144
    BY <1>p, SMT
  <2> QED BY <2>1, SMT
<1>1. CASE n = 1
  <2>1. mode \div 32768 \in Nat /\ (mode \div 32768) % 8 \in 0 .. 7 /\ mode \div 32768 < 8
    BY <1>m, SMT
  <2> QED BY <1>p, <1>1, <2>1, SMT
<1>2. CASE n = 2
  <2>1. /\ mode \div 4096 \in Nat /\ (mode \div 4096) % 8 \in 0 .. 7
        /\ mode \div 4096 = 8 * (mode \div 32768) + ((mode \div 4096) % 8)
    BY SMT
  <2> QED BY <1>p, <1>2, <2>1, SMT
<1>3. CASE n = 3
  <2>1. /\ mode \div 512 \in Nat /\ (mode \div 512) % 8 \in 0 .. 7
        /\ mode \div 512 = 8 * (mode \div 4096) + ((mode \div 512) % 8)
    BY SMT
  <2> QED BY <1>p, <1>3, <2>1, SMT
<1>4. CASE n = 4
  <2>1. /\ mode \div 64 \in Nat /\ (mode \div 64) % 8 \in 0 .. 7
        /\ mode \div 64 = 8 * (mode \div 512) + ((mode \div 64) % 8)
    BY SMT
  <2> QED BY <1>p, <1>4, <2>1, SMT
<1>5. CASE n = 5
  <2>1. /\ mode \div 8 \in Nat /\ (mode \div 8) % 8 \in 0 .. 7
        /\ mode \div 8 = 8 * (mode \div 64) + ((mode \div 8) % 8)
    BY SMT
  <2> QED BY <1>p, <1>5, <2>1, SMT
<1>6. CASE n = 6
  <2>1. /\ mode \div 1 \in Nat /\ (mode \div 1) % 8 \in 0 .. 7
        /\ mode \div 1 = 8 * (mode \div 8) + ((mode \div 1) % 8)
    BY SMT
  <2>2. mode \div 1 = mode
    BY SMT
  <2> QED BY <1>p, <1>6, <2>1, <2>2, SMT
<1> QED BY <1>1, <1>2, <1>3, <1>4, <1>5, <1>6

LEMMA HalfBytes ==
  ASSUME NEW a \in 0 .. 15, NEW b \in 0 .. 15
  PROVE  16 * a + b \in Byte /\ (16 * a + b) \div 16 = a /\ (16 * a + b) % 16 = b
<1>1. a \in Nat /\ b \in Nat /\ a < 16 /\ b < 16
  BY SMT
<1>2. 16 * a + b \in Nat /\ 16 * a + b <= 255
  BY ONLY <1>1, SMT
<1>3. (16 * a + b) \div 16 = a /\ (16 * a + b) % 16 = b
  BY ONLY <1>1, SMT
<1> QED BY ONLY <1>2, <1>3 DEF Byte

(* The bytes of an id are read back as its digits.                         *)
LEMMA IdsReadBack ==
  ASSUME NEW id \in [1 .. 2 * IdLength -> 0 .. 15]
  PROVE  /\ HexToBinary(id) \in Seq(Byte) /\ Len(HexToBinary(id)) = IdLength
         /\ BinaryToHex(HexToBinary(id)) = id
<1>1. IdLength \in Nat /\ 2 * IdLength \in Nat
  BY ObjectFormatAssumption
<1>2. id \in Seq(0 .. 15) /\ Len(id) = 2 * IdLength
  BY <1>1, LengthOf
<1>3. (2 * IdLength) \div 2 = IdLength
  BY <1>1
<1> DEFINE b == HexToBinary(id)
<1>4. b = [n \in 1 .. IdLength |-> 16 * id[2 * n - 1] + id[2 * n]]
  BY <1>2, <1>3 DEF HexToBinary
<1>5. ASSUME NEW n \in 1 .. IdLength PROVE 2 * n - 1 \in 1 .. 2 * IdLength /\ 2 * n \in 1 .. 2 * IdLength
  BY <1>1
<1>6. \A n \in 1 .. IdLength : 16 * id[2 * n - 1] + id[2 * n] \in Byte
  BY <1>5, HalfBytes
<1>7. b \in [1 .. IdLength -> Byte]
  BY <1>4, <1>6
<1>8. b \in Seq(Byte) /\ Len(b) = IdLength
  BY <1>1, <1>7, LengthOf
<1> HIDE DEF b
<1>9. BinaryToHex(b) = [n \in 1 .. 2 * IdLength |->
         LET c == b[(n + 1) \div 2] IN IF n % 2 = 1 THEN c \div 16 ELSE c % 16]
  BY <1>8 DEF BinaryToHex
<1>10. ASSUME NEW n \in 1 .. 2 * IdLength
       PROVE  (IF n % 2 = 1 THEN b[(n + 1) \div 2] \div 16 ELSE b[(n + 1) \div 2] % 16) = id[n]
  <2> DEFINE k == (n + 1) \div 2
  <2>1. k \in 1 .. IdLength
    BY <1>1
  <2>2. b[k] = 16 * id[2 * k - 1] + id[2 * k]
    BY <1>4, <2>1
  <2>3. id[2 * k - 1] \in 0 .. 15 /\ id[2 * k] \in 0 .. 15
    BY <1>5, <2>1
  <2>h. b[k] \div 16 = id[2 * k - 1] /\ b[k] % 16 = id[2 * k]
    <3> DEFINE x == id[2 * k - 1]  y == id[2 * k]
    <3> HIDE DEF k, x, y
    <3>1. x \in 0 .. 15 /\ y \in 0 .. 15 /\ b[k] = 16 * x + y
      BY ONLY <2>2, <2>3 DEF x, y
    <3>2. b[k] \div 16 = x /\ b[k] % 16 = y
      BY ONLY <3>1, HalfBytes
    <3> QED BY <3>2 DEF x, y
  <2>4. CASE n % 2 = 1
    <3>1. n = 2 * k - 1
      BY <2>4, <1>1
    <3> QED BY <2>4, <2>h, <3>1
  <2>5. CASE n % 2 # 1
    <3>1. n = 2 * k
      BY <2>5, <1>1
    <3> QED BY <2>5, <2>h, <3>1
  <2> QED BY <2>4, <2>5
<1>11. BinaryToHex(b) = id
  BY <1>9, <1>10
<1> QED BY <1>8, <1>11 DEF b

(* A mode in octal digits, and back.                                       *)
LEMMA OctalIs ==
  ASSUME NEW mode \in 1 .. 8 * Power[1] - 1
  PROVE  LET o == Octal(mode)
         IN /\ o \in Seq(Byte) /\ Len(o) > 0 /\ \A k \in 1 .. Len(o) : o[k] # Space
            /\ FromOctal(o) = mode
<1> DEFINE L == [n \in 1 .. 6 |-> mode \div Power[n]]
           digits == [n \in 1 .. 6 |-> Zero + (L[n] % 8)]
           found == {n \in 1 .. 6 : digits[n] # Zero}
           m == Min(found)
           o == SubSeq(digits, m, 6)
<1>0. mode \in Nat /\ mode # 0 /\ mode < 8 * Power[1]
  <2>1. Power[1] \in Nat
    BY SMT DEF Power
  <2> DEFINE top == 8 * Power[1]
  <2>2. top \in Nat
    BY <2>1
  <2>3. mode \in 1 .. top - 1
    OBVIOUS
  <2> HIDE DEF top
  <2> QED BY <2>2, <2>3 DEF top
<1>o. Octal(mode) = o
  <2>1. digits = [n \in 1 .. 6 |-> Zero + ((mode \div Power[n]) % 8)]
    OBVIOUS
  <2> QED BY <2>1 DEF Octal
<1>1. \A n \in 1 .. 6 : /\ L[n] \in Nat /\ L[n] % 8 \in 0 .. 7
                        /\ n = 1 => L[n] < 8
                        /\ n = 6 => L[n] = mode
  <2> HIDE DEF Power
  <2> QED BY <1>0, OctalDigits
<1>2. \A n \in 2 .. 6 : L[n] = 8 * L[n - 1] + (L[n] % 8)
  <2> SUFFICES ASSUME NEW n \in 2 .. 6 PROVE L[n] = 8 * L[n - 1] + (L[n] % 8)
    OBVIOUS
  <2>1. n \in 1 .. 6 /\ n > 1
    OBVIOUS
  <2> HIDE DEF Power
  <2> QED BY <1>0, <2>1, OctalDigits
<1> HIDE DEF L
<1>3. digits \in [1 .. 6 -> Byte] /\ \A n \in 1 .. 6 : digits[n] = Zero + (L[n] % 8) /\ digits[n] # Space
  BY <1>1 DEF Zero, Byte, Space
<1>d. digits \in Seq(Byte) /\ Len(digits) = 6
  <2> HIDE DEF digits
  <2>1. digits \in [1 .. 6 -> Byte] /\ 6 \in Nat
    BY <1>3
  <2> QED BY ONLY <2>1, LengthOf
<1> HIDE DEF digits
<1>4. found # {}
  <2> SUFFICES ASSUME found = {} PROVE FALSE
    OBVIOUS
  <2>0. \A n \in 1 .. 6 : digits[n] = Zero
    OBVIOUS
  <2>1. \A n \in 1 .. 6 : L[n] % 8 = 0
    <3> SUFFICES ASSUME NEW n \in 1 .. 6 PROVE L[n] % 8 = 0
      OBVIOUS
    <3>1. digits[n] = Zero + (L[n] % 8) /\ L[n] % 8 \in Nat /\ digits[n] = Zero
      BY <1>1, <1>3, <2>0
    <3> QED BY ONLY <3>1 DEF Zero
  <2>2. L[1] = 0
    BY <1>1, <2>1
  <2>3. \A n \in 2 .. 6 : L[n] = 8 * L[n - 1]
    <3> SUFFICES ASSUME NEW n \in 2 .. 6 PROVE L[n] = 8 * L[n - 1]
      OBVIOUS
    <3>1. n \in 1 .. 6 /\ n - 1 \in 1 .. 6
      OBVIOUS
    <3>2. L[n] = 8 * L[n - 1] + (L[n] % 8) /\ L[n] % 8 = 0 /\ L[n - 1] \in Nat
      BY ONLY <3>1, <1>1, <1>2, <2>1, n \in 2 .. 6
    <3> QED BY ONLY <3>2
  <2>4. L[6] = 0
    BY <2>2, <2>3
  <2> QED BY <1>0, <1>1, <2>4
<1>5. m \in found /\ \A k \in found : m <= k
  <2>1. found \in SUBSET Nat
    OBVIOUS
  <2> HIDE DEF found
  <2> QED BY <1>4, <2>1, MinIs
<1>6. m \in 1 .. 6 /\ L[m] % 8 # 0 /\ \A n \in 1 .. 6 : n < m => L[n] % 8 = 0
  <2>1. m \in 1 .. 6 /\ digits[m] # Zero
    BY <1>5
  <2>2. \A n \in 1 .. 6 : n < m => n \notin found
    BY <1>5, <2>1
  <2>3. \A n \in 1 .. 6 : n < m => digits[n] = Zero
    BY <2>2
  <2> HIDE DEF m
  <2> QED BY ONLY <2>1, <2>3, <1>1, <1>3 DEF Zero
<1>7. L[m] = L[m] % 8
  <2> HIDE DEF m
  <2>1. CASE m = 1
    BY ONLY <2>1, <1>1, SMT
  <2>2. CASE m > 1
    <3>1. L[1] = 0
      BY ONLY <2>2, <1>1, <1>6
    <3>2. \A n \in 2 .. 6 : n < m => L[n] = 8 * L[n - 1]
      <4> SUFFICES ASSUME NEW n \in 2 .. 6, n < m PROVE L[n] = 8 * L[n - 1]
        OBVIOUS
      <4>1. n \in 1 .. 6 /\ n - 1 \in 1 .. 6
        OBVIOUS
      <4>2. L[n] = 8 * L[n - 1] + (L[n] % 8) /\ L[n] % 8 = 0 /\ L[n - 1] \in Nat
        BY ONLY <4>1, <1>1, <1>2, <1>6, n \in 2 .. 6, n < m
      <4> QED BY ONLY <4>2
    <3>3. m > 2 => L[2] = 0
      BY ONLY <3>1, <3>2, <1>6
    <3>4. m > 3 => L[3] = 0
      BY ONLY <3>3, <3>2, <1>6
    <3>5. m > 4 => L[4] = 0
      BY ONLY <3>4, <3>2, <1>6
    <3>6. m > 5 => L[5] = 0
      BY ONLY <3>5, <3>2, <1>6
    <3>7. L[m - 1] = 0 /\ m \in 2 .. 6
      BY ONLY <2>2, <3>1, <3>3, <3>4, <3>5, <3>6, <1>6
    <3>8. L[m] = 8 * L[m - 1] + (L[m] % 8) /\ L[m] % 8 \in 0 .. 7
      BY ONLY <3>7, <1>1, <1>2, <1>6
    <3> QED BY ONLY <3>7, <3>8
  <2> QED BY ONLY <2>1, <2>2, <1>6
<1> DEFINE N == 7 - m
<1>8. /\ o \in Seq(Byte) /\ Len(o) = N /\ N \in 1 .. 6
      /\ \A k \in 1 .. N : o[k] = digits[m + k - 1] /\ m + k - 1 \in 1 .. 6
  <2> HIDE DEF m
  <2>1. m \in Nat /\ 6 \in Int /\ m >= 1 /\ 6 <= Len(digits) /\ 6 >= m - 1
    BY <1>6, <1>d
  <2>2. /\ o \in Seq(Byte) /\ Len(o) = 6 - m + 1
        /\ \A k \in 1 .. 6 - m + 1 : o[k] = digits[m + k - 1]
    BY <2>1, <1>d, PartIs
  <2>3. 6 - m + 1 = N /\ N \in 1 .. 6 /\ \A k \in 1 .. N : m + k - 1 \in 1 .. 6
    BY <1>6
  <2> QED BY <2>2, <2>3
<1> HIDE DEF m, o, N
<1>9. \A k \in 1 .. N : o[k] = Zero + (L[m + k - 1] % 8) /\ o[k] # Space
  BY ONLY <1>8, <1>3
<1> DEFINE number[n \in 0 .. Len(o)] == IF n = 0 THEN 0 ELSE 8 * number[n - 1] + o[n] - Zero
           g == [n \in 0 .. N |-> IF n = 0 THEN 0 ELSE L[m + n - 1]]
<1>10. FromOctal(o) = number[Len(o)]
  BY DEF FromOctal, InBase
<1>11. g = [n \in 0 .. N |-> IF n = 0 THEN 0 ELSE 8 * g[n - 1] + o[n] - Zero]
  <2> SUFFICES ASSUME NEW n \in 1 .. N PROVE L[m + n - 1] = 8 * g[n - 1] + o[n] - Zero
    OBVIOUS
  <2>1. m + n - 1 \in 1 .. 6 /\ o[n] = Zero + (L[m + n - 1] % 8)
    BY <1>8, <1>9
  <2>2. CASE n = 1
    <3>1. g[0] = 0 /\ m + n - 1 = m /\ n - 1 = 0
      BY <2>2, <1>6, <1>8
    <3> QED BY ONLY <3>1, <2>1, <1>7, <1>1, SMTT(30) DEF Zero
  <2>3. CASE n > 1
    <3>1. g[n - 1] = L[m + (n - 1) - 1] /\ m + (n - 1) - 1 = (m + n - 1) - 1 /\ m + n - 1 \in 2 .. 6
      BY <2>3, <1>6, <1>8, <2>1
    <3>2. L[m + n - 1] = 8 * L[(m + n - 1) - 1] + (L[m + n - 1] % 8)
      BY ONLY <3>1, <1>2
    <3>3. L[m + n - 1] % 8 \in 0 .. 7 /\ L[(m + n - 1) - 1] \in Nat
      <4> DEFINE j == m + n - 1
      <4>1. j \in 1 .. 6 /\ j - 1 \in 1 .. 6
        BY ONLY <3>1
      <4> HIDE DEF j
      <4>2. L[j] % 8 \in 0 .. 7 /\ L[j - 1] \in Nat
        BY ONLY <4>1, <1>1
      <4> QED BY <4>2 DEF j
    <3> QED BY ONLY <3>1, <3>2, <3>3, <2>1 DEF Zero
  <2> QED BY <2>2, <2>3, <1>8
<1>12. number = [n \in 0 .. N |-> IF n = 0 THEN 0 ELSE 8 * number[n - 1] + o[n] - Zero]
  <2> HIDE DEF g
  <2> QED BY <1>8, <1>11
<1> HIDE DEF number
<1>13. \A n \in 0 .. N : n \in {k \in 0 .. N : number[k] = g[k]}
  <2> DEFINE Same == {k \in 0 .. N : number[k] = g[k]}
  <2>1. 0 \in Same /\ N \in Nat /\ 0 \in Nat
    BY <1>8, <1>12
  <2>2. ASSUME NEW n \in 0 .. N - 1, n \in Same PROVE n + 1 \in Same
    <3>1. n + 1 \in 0 .. N /\ n + 1 # 0 /\ (n + 1) - 1 = n
      BY <1>8
    <3>2. number[n + 1] = 8 * number[n] + o[n + 1] - Zero
      BY ONLY <1>12, <3>1
    <3>3. g[n + 1] = 8 * g[n] + o[n + 1] - Zero
      <4> HIDE DEF g
      <4> QED BY ONLY <1>11, <3>1
    <3> HIDE DEF g
    <3> QED BY <3>1, <3>2, <3>3, <2>2
  <2> HIDE DEF Same
  <2>3. \A x \in 0 .. N - 1 : x \in Same => x + 1 \in Same
    BY ONLY <2>2
  <2>4. \A x \in 0 .. N : x \in Same
    BY ONLY <2>1, <2>3, Ladder
  <2> QED BY <2>4 DEF Same
<1>14. number[N] = mode
  <2>1. N \in 0 .. N /\ N # 0 /\ m + N - 1 = 6
    BY <1>6, <1>8 DEF N
  <2>2. number[N] = L[m + N - 1]
    BY <1>13, <2>1
  <2> QED BY <2>1, <2>2, <1>1
<1> QED BY <1>o, <1>8, <1>9, <1>10, <1>14

-----------------------------------------------------------------------------
(* The keys of entries, and the paths below them.                          *)
LEMMA NamesAre ==
  ASSUME NEW e \in TreeEntries
  PROVE  /\ e.name \in Seq(Byte) /\ Len(e.name) > 0
         /\ \A k \in 1 .. Len(e.name) : e.name[k] # Slash /\ e.name[k] # Nul /\ e.name[k] \in Nat
         /\ e.id \in [1 .. 2 * IdLength -> 0 .. 15]
         /\ e.mode \in 1 .. 8 * Power[1] - 1
         /\ e = [mode |-> e.mode, name |-> e.name, id |-> e.id]
<1> DEFINE C == (1 .. 255) \ {Slash}
<1>1. e.name \in Seq(C) /\ e.name # <<>> /\ e.id \in [1 .. 2 * IdLength -> 0 .. 15]
      /\ e.mode \in 1 .. 8 * Power[1] - 1 /\ e = [mode |-> e.mode, name |-> e.name, id |-> e.id]
  <2> HIDE DEF Power
  <2> QED BY DEF TreeEntries
<1>2. \A c \in C : c \in Byte /\ c # Slash /\ c # Nul /\ c \in Nat
  BY SMT DEF Byte, Nul
<1> HIDE DEF C
<1>3. \A k \in 1 .. Len(e.name) : e.name[k] \in C
  BY <1>1, ElementOfSeq
<1>4. C \subseteq Byte
  BY <1>2
<1>5. e.name \in Seq(Byte)
  BY <1>1, <1>4, SeqMonotonic
<1>6. Len(e.name) > 0
  BY <1>1, EmptySeq
<1> QED BY ONLY <1>1, <1>2, <1>3, <1>5, <1>6

(* A key is the name, with a "/" if it is that of a directory.             *)
LEMMA KeyIs ==
  ASSUME NEW e \in TreeEntries
  PROVE  /\ Key(e) \in Seq(Nat)
         /\ Len(Key(e)) = Len(e.name) + (IF e.mode = TreeMode THEN 1 ELSE 0)
         /\ \A k \in 1 .. Len(e.name) : Key(e)[k] = e.name[k] /\ Key(e)[k] # Slash
         /\ e.mode = TreeMode => Key(e)[Len(e.name) + 1] = Slash
<1>1. /\ e.name \in Seq(Byte) /\ Len(e.name) > 0
      /\ \A k \in 1 .. Len(e.name) : e.name[k] # Slash
  BY NamesAre
<1>2. Byte \subseteq Nat /\ Slash \in Nat
  BY SMT DEF Byte, Slash
<1>3. e.name \in Seq(Nat)
  BY <1>1, <1>2, SeqMonotonic
<1>4. CASE e.mode = TreeMode
  <2>1. Key(e) = Append(e.name, Slash)
    BY <1>4 DEF Key
  <2> DEFINE n == e.name
  <2> HIDE DEF n
  <2>2. /\ Append(n, Slash) \in Seq(Nat) /\ Len(Append(n, Slash)) = Len(n) + 1
        /\ \A k \in 1 .. Len(n) : Append(n, Slash)[k] = n[k]
        /\ Append(n, Slash)[Len(n) + 1] = Slash
    <3>1. n \in Seq(Nat)
      BY <1>3 DEF n
    <3> QED BY ONLY <3>1, <1>2, AppendProperties
  <2> QED BY <2>1, <2>2, <1>1, <1>4 DEF n
<1>5. CASE e.mode # TreeMode
  <2>1. Key(e) = e.name
    BY <1>5 DEF Key
  <2>2. Len(e.name) = Len(e.name) + 0
    BY <1>1
  <2> QED BY <2>1, <2>2, <1>1, <1>3, <1>5
<1> QED BY <1>4, <1>5

(* No two names have one key.                                              *)
LEMMA KeysDiffer ==
  ASSUME NEW e \in TreeEntries, NEW f \in TreeEntries, Key(e) = Key(f)
  PROVE  e.name = f.name
<1> DEFINE u == Key(e)  v == Key(f)  a == e.name  b == f.name
<1>1. /\ a \in Seq(Byte) /\ b \in Seq(Byte) /\ Len(a) \in Nat /\ Len(b) \in Nat
  BY NamesAre
<1>2. /\ Len(u) = Len(a) + (IF e.mode = TreeMode THEN 1 ELSE 0)
      /\ \A k \in 1 .. Len(a) : u[k] = a[k] /\ u[k] # Slash
      /\ e.mode = TreeMode => u[Len(a) + 1] = Slash
  BY KeyIs
<1>3. /\ Len(v) = Len(b) + (IF f.mode = TreeMode THEN 1 ELSE 0)
      /\ \A k \in 1 .. Len(b) : v[k] = b[k] /\ v[k] # Slash
      /\ f.mode = TreeMode => v[Len(b) + 1] = Slash
  BY KeyIs
<1>4. u = v
  OBVIOUS
<1> HIDE DEF u, v, a, b
<1>5. Len(a) = Len(b)
  <2>1. CASE e.mode = TreeMode /\ f.mode # TreeMode
    <3>1. Len(a) + 1 \in 1 .. Len(b)
      BY <2>1, <1>1, <1>2, <1>3, <1>4
    <3> QED BY <3>1, <2>1, <1>2, <1>3, <1>4
  <2>2. CASE e.mode # TreeMode /\ f.mode = TreeMode
    <3>1. Len(b) + 1 \in 1 .. Len(a)
      BY <2>2, <1>1, <1>2, <1>3, <1>4
    <3> QED BY <3>1, <2>2, <1>2, <1>3, <1>4
  <2> QED BY <2>1, <2>2, <1>1, <1>2, <1>3, <1>4
<1>6. \A k \in 1 .. Len(a) : a[k] = b[k]
  BY <1>2, <1>3, <1>4, <1>5
<1>7. a = b
  BY ONLY <1>1, <1>5, <1>6, SeqEqual
<1> QED BY <1>7 DEF a, b

(* A path below an entry begins with its key.                              *)
LEMMA PathIs ==
  ASSUME NEW e \in TreeEntries, NEW p \in PathsBelow(e)
  PROVE  /\ Len(p) \in Nat /\ Len(p) >= Len(Key(e))
         /\ \A k \in 1 .. Len(Key(e)) : p[k] = Key(e)[k]
         /\ e.mode # TreeMode => p = Key(e)
<1>0. /\ Key(e) \in Seq(Nat)
      /\ Len(Key(e)) = Len(e.name) + (IF e.mode = TreeMode THEN 1 ELSE 0)
      /\ \A k \in 1 .. Len(e.name) : Key(e)[k] = e.name[k] /\ Key(e)[k] # Slash
      /\ e.mode = TreeMode => Key(e)[Len(e.name) + 1] = Slash
  BY KeyIs
<1>1. CASE e.mode # TreeMode
  <2>1. p = e.name /\ Key(e) = e.name
    BY <1>1 DEF PathsBelow, Key
  <2>2. Len(e.name) \in Nat
    BY NamesAre
  <2> QED BY <2>1, <2>2
<1>2. CASE e.mode = TreeMode
  <2>1. PICK c \in {1, Space, 255} : p = e.name \o <<Slash, c>>
    BY <1>2 DEF PathsBelow
  <2> DEFINE n == e.name  t == <<Slash, c>>
  <2>2. n \in Seq(Byte) /\ Len(n) \in Nat
    BY NamesAre
  <2>3. t \in Seq(Byte) /\ Len(t) = 2 /\ t[1] = Slash
    BY SMT DEF Byte, Slash, Space
  <2>k. /\ Len(Key(e)) = Len(n) + 1 /\ Key(e)[Len(n) + 1] = Slash
        /\ \A k \in 1 .. Len(n) : Key(e)[k] = n[k]
    BY ONLY <1>0, <1>2 DEF n
  <2> HIDE DEF n, t
  <2>4. /\ Len(n \o t) = Len(n) + Len(t)
        /\ \A k \in 1 .. Len(n) : (n \o t)[k] = n[k]
        /\ \A k \in 1 .. Len(t) : (n \o t)[Len(n) + k] = t[k]
    BY ONLY <2>2, <2>3, Joined
  <2>5. p = n \o t
    BY <2>1 DEF n, t
  <2> DEFINE key == Key(e)
  <2> HIDE DEF key
  <2>6. Len(key) = Len(n) + 1 /\ key[Len(n) + 1] = Slash /\ \A k \in 1 .. Len(n) : key[k] = n[k]
    BY <2>k DEF key
  <2>7. 1 \in 1 .. Len(t)
    BY <2>3
  <2>8. p[Len(n) + 1] = Slash
    BY ONLY <2>3, <2>4, <2>5, <2>7
  <2>9. \A k \in 1 .. Len(n) + 1 : p[k] = key[k]
    <3> SUFFICES ASSUME NEW k \in 1 .. Len(n) + 1 PROVE p[k] = key[k]
      OBVIOUS
    <3>1. CASE k \in 1 .. Len(n)
      BY ONLY <3>1, <2>4, <2>5, <2>6
    <3>2. CASE k = Len(n) + 1
      BY ONLY <3>2, <2>6, <2>8
    <3> QED BY <3>1, <3>2, <2>2
  <2>10. Len(p) = Len(n) + 2
    BY ONLY <2>3, <2>4, <2>5
  <2> QED BY <2>2, <2>6, <2>9, <2>10, <1>2 DEF key
<1> QED BY <1>1, <1>2

(* The order of the keys is that of the paths.                             *)
LEMMA KeyOrder ==
  ASSUME NEW e \in TreeEntries, NEW f \in TreeEntries, Before(Key(e), Key(f)),
         NEW p \in PathsBelow(e), NEW q \in PathsBelow(f)
  PROVE  Before(p, q)
<1> DEFINE u == Key(e)  v == Key(f)  a == e.name  b == f.name
<1>1. Len(a) \in Nat /\ Len(b) \in Nat /\ Len(a) > 0
  BY NamesAre
<1>2. /\ u \in Seq(Nat) /\ Len(u) = Len(a) + (IF e.mode = TreeMode THEN 1 ELSE 0)
      /\ e.mode = TreeMode => u[Len(a) + 1] = Slash
  BY KeyIs
<1>3. /\ v \in Seq(Nat) /\ Len(v) = Len(b) + (IF f.mode = TreeMode THEN 1 ELSE 0)
      /\ \A k \in 1 .. Len(b) : v[k] # Slash
  BY KeyIs
<1>4. /\ Len(p) \in Nat /\ Len(p) >= Len(u)
      /\ \A k \in 1 .. Len(u) : p[k] = u[k]
      /\ e.mode # TreeMode => p = u
  BY PathIs
<1>5. /\ Len(q) \in Nat /\ Len(q) >= Len(v)
      /\ \A k \in 1 .. Len(v) : q[k] = v[k]
  BY PathIs
<1>6. PICK n \in 1 .. Len(v) : /\ n <= Len(u) + 1 /\ \A k \in 1 .. n - 1 : u[k] = v[k]
                               /\ n <= Len(u) => u[n] < v[n]
  BY DEF Before
<1> HIDE DEF u, v, a, b
<1>7. Len(u) \in Nat /\ Len(v) \in Nat /\ n \in Nat
  BY <1>2, <1>3
<1>8. \A k \in 1 .. n - 1 : p[k] = q[k]
  <2> SUFFICES ASSUME NEW k \in 1 .. n - 1 PROVE p[k] = q[k]
    OBVIOUS
  <2>1. k \in 1 .. Len(u) /\ k \in 1 .. Len(v)
    BY <1>6, <1>7
  <2> QED BY <2>1, <1>4, <1>5, <1>6
<1>9. n \in 1 .. Len(q)
  BY <1>5, <1>7
<1>10. CASE n <= Len(u)
  <2>1. n \in 1 .. Len(u)
    BY <1>7, <1>10
  <2>2. p[n] < q[n] /\ n <= Len(p) + 1
    BY <2>1, <1>4, <1>5, <1>6, <1>10
  <2> QED BY <2>2, <1>8, <1>9 DEF Before
<1>11. CASE n = Len(u) + 1
  <2>1. e.mode # TreeMode
    <3> SUFFICES ASSUME e.mode = TreeMode PROVE FALSE
      OBVIOUS
    <3>1. Len(u) = Len(a) + 1 /\ u[Len(u)] = Slash /\ Len(u) \in 1 .. n - 1
      BY <1>1, <1>2, <1>11
    <3>2. Len(u) \in 1 .. Len(b)
      BY <3>1, <1>1, <1>3, <1>6, <1>7, <1>11
    <3>3. u[Len(u)] = v[Len(u)]
      BY <3>1, <1>6
    <3> QED BY <3>1, <3>2, <3>3, <1>3
  <2>2. p = u /\ n <= Len(p) + 1 /\ ~(n <= Len(p))
    BY <2>1, <1>4, <1>7, <1>11
  <2> QED BY <2>2, <1>8, <1>9 DEF Before
<1> QED BY <1>6, <1>7, <1>10, <1>11

-----------------------------------------------------------------------------
(* An entry is read back from its text, whatever follows it.               *)
LEMMA EntryTextIs ==
  ASSUME NEW e \in TreeEntries, NEW r \in Seq(Byte)
  PROVE  LET w == EntryText(e) \o r
             o == Octal(e.mode)
             b == HexToBinary(e.id)
             m == Len(o)
             n == m + 1 + Len(e.name)
             i == n + 1 + IdLength
         IN /\ EntryText(e) \in Seq(Byte) /\ Len(EntryText(e)) > 0
            /\ w \in Seq(Byte) /\ Len(w) = i + Len(r)
            /\ \A k \in 1 .. m : w[k] = o[k]
            /\ w[m + 1] = Space
            /\ \A k \in 1 .. Len(e.name) : w[m + 1 + k] = e.name[k]
            /\ w[n + 1] = Nul
            /\ \A k \in 1 .. IdLength : w[n + 1 + k] = b[k]
            /\ \A k \in 1 .. Len(r) : w[i + k] = r[k]
<1> DEFINE o == Octal(e.mode)  s == <<Space>>  a == e.name  z == <<Nul>>  b == HexToBinary(e.id)
           w1 == o \o s  w2 == w1 \o a  w3 == w2 \o z  w4 == w3 \o b  w == w4 \o r
           I == IdLength
<1>1. o \in Seq(Byte) /\ Len(o) > 0
  <2>1. e.mode \in 1 .. 8 * Power[1] - 1
    BY NamesAre
  <2> HIDE DEF Power
  <2> QED BY <2>1, OctalIs
<1>2. a \in Seq(Byte) /\ b \in Seq(Byte) /\ Len(b) = I
  BY NamesAre, IdsReadBack
<1>3. s \in Seq(Byte) /\ z \in Seq(Byte) /\ Len(s) = 1 /\ Len(z) = 1 /\ s[1] = Space /\ z[1] = Nul
  BY SMT DEF Byte, Space, Nul
<1>4. EntryText(e) = w4
  BY DEF EntryText
<1>5. 1 \in 1 .. 1
  OBVIOUS
<1> HIDE DEF o, s, a, z, b, w1, w2, w3, w4, w, I
<1>t. o \in Seq(Byte) /\ s \in Seq(Byte) /\ a \in Seq(Byte) /\ z \in Seq(Byte) /\ b \in Seq(Byte)
  BY <1>1, <1>2, <1>3
<1>s. w1 \in Seq(Byte) /\ w2 \in Seq(Byte) /\ w3 \in Seq(Byte) /\ w4 \in Seq(Byte) /\ w \in Seq(Byte)
  <2>1. w1 \in Seq(Byte)
    BY ONLY <1>1, <1>3, Joined DEF w1
  <2>2. w2 \in Seq(Byte)
    BY ONLY <2>1, <1>2, Joined DEF w2
  <2>3. w3 \in Seq(Byte)
    BY ONLY <2>2, <1>3, Joined DEF w3
  <2>4. w4 \in Seq(Byte)
    BY ONLY <2>3, <1>2, Joined DEF w4
  <2>5. w \in Seq(Byte)
    BY ONLY <2>4, r \in Seq(Byte), Joined DEF w
  <2> QED BY <2>1, <2>2, <2>3, <2>4, <2>5
<1>w1. /\ Len(w1) = Len(o) + Len(s)
       /\ \A k \in 1 .. Len(o) : w1[k] = o[k]
       /\ \A k \in 1 .. Len(s) : w1[Len(o) + k] = s[k]
  BY ONLY <1>s, <1>t, Joined DEF w1
<1>w2. /\ Len(w2) = Len(w1) + Len(a)
       /\ \A k \in 1 .. Len(w1) : w2[k] = w1[k]
       /\ \A k \in 1 .. Len(a) : w2[Len(w1) + k] = a[k]
  BY ONLY <1>s, <1>t, Joined DEF w2
<1>w3. /\ Len(w3) = Len(w2) + Len(z)
       /\ \A k \in 1 .. Len(w2) : w3[k] = w2[k]
       /\ \A k \in 1 .. Len(z) : w3[Len(w2) + k] = z[k]
  BY ONLY <1>s, <1>t, Joined DEF w3
<1>w4. /\ Len(w4) = Len(w3) + Len(b)
       /\ \A k \in 1 .. Len(w3) : w4[k] = w3[k]
       /\ \A k \in 1 .. Len(b) : w4[Len(w3) + k] = b[k]
  BY ONLY <1>s, <1>t, Joined DEF w4
<1>w. /\ Len(w) = Len(w4) + Len(r)
      /\ \A k \in 1 .. Len(w4) : w[k] = w4[k]
      /\ \A k \in 1 .. Len(r) : w[Len(w4) + k] = r[k]
  BY ONLY <1>s, r \in Seq(Byte), Joined DEF w
<1>6. Len(o) \in Nat /\ Len(a) \in Nat /\ I \in Nat /\ Len(r) \in Nat
  BY <1>1, <1>2
<1>7. /\ Len(w1) = Len(o) + 1 /\ Len(w2) = Len(o) + 1 + Len(a) /\ Len(w3) = Len(o) + 1 + Len(a) + 1
      /\ Len(w4) = Len(o) + 1 + Len(a) + 1 + I
  BY ONLY <1>w1, <1>w2, <1>w3, <1>w4, <1>2, <1>3, <1>6
<1>x3. \A k \in 1 .. Len(w3) : w[k] = w3[k]
  BY ONLY <1>w, <1>w4, <1>6, <1>7
<1>x2. \A k \in 1 .. Len(w2) : w[k] = w2[k]
  BY ONLY <1>x3, <1>w3, <1>6, <1>7
<1>x1. \A k \in 1 .. Len(w1) : w[k] = w1[k]
  BY ONLY <1>x2, <1>w2, <1>6, <1>7
<1>8. \A k \in 1 .. Len(o) : w[k] = o[k]
  BY ONLY <1>x1, <1>w1, <1>6, <1>7
<1>9. w[Len(o) + 1] = Space
  <2>1. w1[Len(o) + 1] = Space
    BY ONLY <1>w1, <1>3, <1>5
  <2>2. Len(o) + 1 \in 1 .. Len(w1)
    BY ONLY <1>6, <1>7
  <2> QED BY ONLY <2>1, <2>2, <1>x1
<1>10. \A k \in 1 .. Len(a) : w[Len(o) + 1 + k] = a[k]
  <2> SUFFICES ASSUME NEW k \in 1 .. Len(a) PROVE w[Len(o) + 1 + k] = a[k]
    OBVIOUS
  <2>1. Len(w1) + k = Len(o) + 1 + k /\ Len(o) + 1 + k \in 1 .. Len(w2)
    BY ONLY <1>6, <1>7, k \in 1 .. Len(a)
  <2> QED BY ONLY <2>1, <1>w2, <1>x2, k \in 1 .. Len(a)
<1>11. w[Len(o) + 1 + Len(a) + 1] = Nul
  <2>1. w3[Len(w2) + 1] = Nul
    BY ONLY <1>w3, <1>3, <1>5
  <2>2. Len(w2) + 1 = Len(o) + 1 + Len(a) + 1 /\ Len(w2) + 1 \in 1 .. Len(w3)
    BY ONLY <1>6, <1>7
  <2> QED BY ONLY <2>1, <2>2, <1>x3
<1>12. \A k \in 1 .. I : w[Len(o) + 1 + Len(a) + 1 + k] = b[k]
  <2> SUFFICES ASSUME NEW k \in 1 .. I PROVE w[Len(o) + 1 + Len(a) + 1 + k] = b[k]
    OBVIOUS
  <2>1. Len(w3) + k = Len(o) + 1 + Len(a) + 1 + k /\ Len(w3) + k \in 1 .. Len(w4) /\ k \in 1 .. Len(b)
    BY ONLY <1>2, <1>6, <1>7, k \in 1 .. I
  <2> QED BY ONLY <2>1, <1>w4, <1>w
<1>13. \A k \in 1 .. Len(r) : w[Len(o) + 1 + Len(a) + 1 + I + k] = r[k]
  BY ONLY <1>w, <1>7
<1>14. Len(w) = Len(o) + 1 + Len(a) + 1 + I + Len(r) /\ Len(w4) > 0
  BY ONLY <1>w, <1>6, <1>7
<1>15. EntryText(e) \o r = w
  BY <1>4 DEF w
<1> QED BY ONLY <1>4, <1>s, <1>8, <1>9, <1>10, <1>11, <1>12, <1>13, <1>14, <1>15 DEF o, a, b, I

LEMMA EntryRead ==
  ASSUME NEW e \in TreeEntries, NEW r \in Seq(Byte), NEW w, w = EntryText(e) \o r
  PROVE  LET space == Find(Space, w, 1)
             nul == Find(Nul, w, space + 1)
         IN /\ [mode |-> FromOctal(SubSeq(w, 1, space - 1)),
                name |-> SubSeq(w, space + 1, nul - 1),
                id |-> BinaryToHex(SubSeq(w, nul + 1, nul + IdLength))] = e
            /\ SubSeq(w, nul + IdLength + 1, Len(w)) = r
<1> DEFINE o == Octal(e.mode)
           b == HexToBinary(e.id)
           a == e.name
           m == Len(o)
           n == m + 1 + Len(a)
           i == n + 1 + IdLength
           space == Find(Space, w, 1)
           nul == Find(Nul, w, space + 1)
<1>1. /\ w \in Seq(Byte) /\ Len(w) = i + Len(r)
      /\ \A k \in 1 .. m : w[k] = o[k]
      /\ w[m + 1] = Space
      /\ \A k \in 1 .. Len(a) : w[m + 1 + k] = a[k]
      /\ w[n + 1] = Nul
      /\ \A k \in 1 .. IdLength : w[n + 1 + k] = b[k]
      /\ \A k \in 1 .. Len(r) : w[i + k] = r[k]
  BY EntryTextIs
<1>2. /\ o \in Seq(Byte) /\ \A k \in 1 .. m : o[k] # Space
      /\ FromOctal(o) = e.mode
  <2>1. e.mode \in 1 .. 8 * Power[1] - 1
    BY NamesAre
  <2> HIDE DEF Power
  <2> QED BY <2>1, OctalIs
<1>3. /\ a \in Seq(Byte) /\ \A k \in 1 .. Len(a) : a[k] # Nul
      /\ e.id \in [1 .. 2 * IdLength -> 0 .. 15]
      /\ e = [mode |-> e.mode, name |-> a, id |-> e.id]
  BY NamesAre
<1>4. b \in Seq(Byte) /\ Len(b) = IdLength /\ BinaryToHex(b) = e.id
  BY <1>3, IdsReadBack
<1>5. IdLength \in Nat /\ m \in Nat /\ Len(a) \in Nat /\ Len(r) \in Nat /\ n = m + 1 + Len(a) /\ i = n + 1 + IdLength
  BY <1>2, <1>3, <1>4
<1>6. Len(w) \in Nat
  <2>1. w \in Seq(Byte)
    BY <1>1
  <2> QED BY ONLY <2>1, LenProperties
<1> DEFINE spaces == {k \in 1 .. Len(w) : w[k] = Space}
<1>7. space = m + 1
  <2> HIDE DEF o, m, n, i
  <2>1. spaces \in SUBSET Nat
    BY <1>6
  <2>2. m + 1 \in spaces
    <3>0. Len(w) = m + 1 + Len(a) + 1 + IdLength + Len(r) /\ Len(a) \in Nat
      BY ONLY <1>1, <1>5
    <3> HIDE DEF a
    <3>1. m + 1 \in 1 .. Len(w)
      BY ONLY <3>0, <1>5
    <3>2. w[m + 1] = Space
      BY <1>1
    <3> QED BY ONLY <3>1, <3>2, <1>6
  <2>3. ASSUME NEW k \in spaces PROVE m + 1 <= k
    <3> SUFFICES ASSUME k < m + 1 PROVE FALSE
      BY <1>5, <1>6
    <3>1. k \in 1 .. m
      BY <1>5, <1>6
    <3> QED BY <3>1, <1>1, <1>2
  <2> HIDE DEF spaces
  <2>4. Min(spaces) = m + 1
    BY ONLY <2>1, <2>2, <2>3, MinUnique
  <2> QED BY <2>4 DEF spaces, Find
<1> DEFINE nuls == {k \in space + 1 .. Len(w) : w[k] = Nul}
<1>8. nul = n + 1
  <2> HIDE DEF a, m, n, i, space
  <2>1. nuls \in SUBSET Nat
    BY <1>5, <1>7
  <2>2. n + 1 \in nuls
    <3>1. n + 1 \in space + 1 .. Len(w)
      BY <1>1, <1>5, <1>7
    <3> QED BY <3>1, <1>1
  <2>3. ASSUME NEW k \in nuls PROVE n + 1 <= k
    <3>0. k \in Nat /\ k >= m + 2 /\ w[k] = Nul
      BY <1>5, <1>7
    <3> SUFFICES ASSUME k < n + 1 PROVE FALSE
      BY <3>0, <1>5
    <3> DEFINE j == k - m - 1
    <3>1. j \in 1 .. Len(a) /\ k = m + 1 + j
      BY <3>0, <1>5
    <3> HIDE DEF j
    <3>2. w[k] = a[j] /\ a[j] # Nul
      BY ONLY <3>1, <1>1, <1>3
    <3> QED BY <3>0, <3>2
  <2> HIDE DEF nuls
  <2>4. Min(nuls) = n + 1
    BY ONLY <2>1, <2>2, <2>3, MinUnique
  <2> QED BY <2>4 DEF nuls, space, Find
<1> HIDE DEF o, b, a, m, n, i, space, nul
<1>9. SubSeq(w, 1, space - 1) = o
  <2>1. 0 \in Nat /\ 0 + Len(o) <= Len(w) /\ \A k \in 1 .. Len(o) : w[0 + k] = o[k]
    BY <1>1, <1>5 DEF m
  <2>2. SubSeq(w, 0 + 1, 0 + Len(o)) = o
    BY ONLY <2>1, <1>1, <1>2, PieceIs
  <2>3. 0 + 1 = 1 /\ 0 + Len(o) = space - 1
    BY <1>5, <1>7 DEF m
  <2> QED BY ONLY <2>2, <2>3
<1>10. SubSeq(w, space + 1, nul - 1) = a
  <2>1. m + 1 \in Nat /\ m + 1 + Len(a) <= Len(w) /\ \A k \in 1 .. Len(a) : w[(m + 1) + k] = a[k]
    BY <1>1, <1>5
  <2>2. SubSeq(w, (m + 1) + 1, (m + 1) + Len(a)) = a
    BY ONLY <2>1, <1>1, <1>3, PieceIs
  <2>3. (m + 1) + 1 = space + 1 /\ (m + 1) + Len(a) = nul - 1
    BY ONLY <1>5, <1>7, <1>8
  <2> QED BY ONLY <2>2, <2>3
<1>11. SubSeq(w, nul + 1, nul + IdLength) = b
  <2>1. n + 1 \in Nat /\ n + 1 + Len(b) <= Len(w) /\ \A k \in 1 .. Len(b) : w[(n + 1) + k] = b[k]
    BY <1>1, <1>4, <1>5
  <2>2. SubSeq(w, (n + 1) + 1, (n + 1) + Len(b)) = b
    BY ONLY <2>1, <1>1, <1>4, PieceIs
  <2> QED BY ONLY <2>2, <1>4, <1>8
<1>12. SubSeq(w, nul + IdLength + 1, Len(w)) = r
  <2>1. i \in Nat /\ i + Len(r) <= Len(w) /\ \A k \in 1 .. Len(r) : w[i + k] = r[k]
    BY <1>1, <1>5
  <2>2. SubSeq(w, i + 1, i + Len(r)) = r
    BY ONLY <2>1, <1>1, r \in Seq(Byte), PieceIs
  <2>3. i = nul + IdLength
    BY ONLY <1>5, <1>8
  <2> QED BY ONLY <2>2, <2>3, <1>1
<1> QED BY ONLY <1>2, <1>3, <1>4, <1>9, <1>10, <1>11, <1>12 DEF space, nul, a

-----------------------------------------------------------------------------
(* A text written piece by piece: f[i] is what there is after i of them.   *)
Written(seqs, f) ==
  /\ f \in [0 .. Len(seqs) -> Seq(Byte)]
  /\ f[0] = <<>>
  /\ \A i \in 1 .. Len(seqs) : f[i] = f[i - 1] \o seqs[i]

(* FlattenSeq writes piece by piece.                                       *)
LEMMA FlatIs ==
  ASSUME NEW seqs \in Seq(Seq(Byte))
  PROVE  \E f : Written(seqs, f) /\ FlattenSeq(seqs) = f[Len(seqs)]
<1> DEFINE N == Len(seqs)
<1>1. N \in Nat /\ \A i \in 1 .. N : seqs[i] \in Seq(Byte)
  BY ElementOfSeq
<1>2. CASE N = 0
  <2>1. seqs = <<>> /\ FlattenSeq(seqs) = seqs
    BY <1>2, EmptySeq DEF FlattenSeq
  <2> DEFINE f == [i \in 0 .. 0 |-> <<>>]
  <2>2. f \in [0 .. 0 -> Seq(Byte)] /\ f[0] = <<>>
    BY EmptySeq
  <2> HIDE DEF f
  <2>3. Written(seqs, f) /\ FlattenSeq(seqs) = f[N]
    BY <1>2, <2>1, <2>2 DEF Written
  <2> QED BY <2>3
<1>3. CASE N # 0
  <2> DEFINE flatten[i \in 1 .. Len(seqs)] == IF i = 1 THEN seqs[i] ELSE flatten[i - 1] \o seqs[i]
             Good(g, k) == /\ g \in [1 .. k -> Seq(Byte)]
                           /\ \A i \in 1 .. k : g[i] = IF i = 1 THEN seqs[i] ELSE g[i - 1] \o seqs[i]
             Built == {k \in 1 .. N : \E g : Good(g, k)}
  <2>1. FlattenSeq(seqs) = flatten[N]
    BY <1>3 DEF FlattenSeq
  <2> HIDE DEF flatten, N
  <2>2. 1 \in Built
    <3> DEFINE g == [i \in 1 .. 1 |-> seqs[1]]
    <3>1. g \in [1 .. 1 -> Seq(Byte)] /\ g[1] = seqs[1]
      BY <1>1, <1>3
    <3> HIDE DEF g
    <3>2. Good(g, 1)
      BY <3>1
    <3>3. 1 \in 1 .. N
      BY <1>1, <1>3
    <3> QED BY <3>2, <3>3
  <2>3. ASSUME NEW k \in 1 .. N - 1, k \in Built PROVE k + 1 \in Built
    <3>1. PICK g : Good(g, k)
      BY <2>3
    <3>2. g[k] \in Seq(Byte) /\ seqs[k + 1] \in Seq(Byte) /\ k + 1 \in 1 .. N
      BY <3>1, <1>1
    <3>3. g[k] \o seqs[k + 1] \in Seq(Byte)
      BY ONLY <3>2, ConcatProperties
    <3> DEFINE h == [i \in 1 .. k + 1 |-> IF i <= k THEN g[i] ELSE g[k] \o seqs[k + 1]]
    <3>4. h \in [1 .. k + 1 -> Seq(Byte)]
      BY <3>1, <3>3, <1>1
    <3>5. (\A i \in 1 .. k : h[i] = g[i]) /\ h[k + 1] = g[k] \o seqs[k + 1]
      <4>1. k \in Nat /\ (\A i \in 1 .. k : i \in 1 .. k + 1 /\ i <= k) /\ k + 1 \in 1 .. k + 1 /\ ~(k + 1 <= k)
        BY <1>1
      <4>2. \A i \in 1 .. k : h[i] = g[i]
        BY ONLY <4>1
      <4>3. h[k + 1] = g[k] \o seqs[k + 1]
        BY ONLY <4>1
      <4> QED BY <4>2, <4>3
    <3> HIDE DEF h
    <3>6. ASSUME NEW i \in 1 .. k + 1 PROVE h[i] = IF i = 1 THEN seqs[i] ELSE h[i - 1] \o seqs[i]
      <4>1. CASE i \in 1 .. k
        <5>1. g[i] = IF i = 1 THEN seqs[i] ELSE g[i - 1] \o seqs[i]
          BY <3>1, <4>1
        <5>2. i # 1 => i - 1 \in 1 .. k
          BY <4>1, <1>1
        <5> QED BY <5>1, <5>2, <4>1, <3>5
      <4>2. CASE i = k + 1
        <5>1. i # 1 /\ i - 1 = k /\ k \in 1 .. k
          BY <4>2, <1>1
        <5>2. h[i] = h[i - 1] \o seqs[i]
          BY ONLY <5>1, <4>2, <3>5
        <5> QED BY ONLY <5>1, <5>2
      <4> QED BY <4>1, <4>2, <1>1
    <3>7. Good(h, k + 1)
      BY <3>4, <3>6
    <3> QED BY <3>2, <3>7
  <2>4. N \in Built
    <3> HIDE DEF Built
    <3>1. 1 \in Nat /\ N \in Nat /\ N \in 1 .. N
      BY <1>1, <1>3
    <3>2. \A x \in 1 .. N - 1 : x \in Built => x + 1 \in Built
      BY ONLY <2>3
    <3>3. \A x \in 1 .. N : x \in Built
      BY ONLY <2>2, <3>1, <3>2, Ladder
    <3> QED BY <3>1, <3>3
  <2>5. PICK g : Good(g, N)
    BY <2>4
  <2>6. g = [i \in 1 .. N |-> IF i = 1 THEN seqs[i] ELSE g[i - 1] \o seqs[i]]
    BY <2>5
  <2>7. flatten = [i \in 1 .. N |-> IF i = 1 THEN seqs[i] ELSE flatten[i - 1] \o seqs[i]]
    BY ONLY <2>6 DEF flatten, N
  <2>8. \A i \in 1 .. N : flatten[i] = IF i = 1 THEN seqs[i] ELSE flatten[i - 1] \o seqs[i]
    BY ONLY <2>7
  <2> DEFINE Same == {k \in 1 .. N : flatten[k] = g[k]}
  <2>9. \A k \in 1 .. N : k \in Same
    <3>1. 1 \in Same
      <4>1. 1 \in 1 .. N
        BY <1>1, <1>3
      <4>2. flatten[1] = seqs[1] /\ g[1] = seqs[1]
        BY <4>1, <2>5, <2>8
      <4> QED BY <4>1, <4>2
    <3>2. ASSUME NEW k \in 1 .. N - 1, k \in Same PROVE k + 1 \in Same
      <4>1. k + 1 \in 1 .. N /\ k + 1 # 1 /\ (k + 1) - 1 = k
        BY <1>1
      <4>2. flatten[k + 1] = flatten[k] \o seqs[k + 1]
        BY ONLY <2>8, <4>1
      <4>3. g[k + 1] = g[k] \o seqs[k + 1]
        BY <2>5, <4>1
      <4> QED BY <4>1, <4>2, <4>3, <3>2
    <3> HIDE DEF Same
    <3>3. \A x \in 1 .. N - 1 : x \in Same => x + 1 \in Same
      BY ONLY <3>2
    <3>4. 1 \in Nat /\ N \in Nat
      BY <1>1
    <3> QED BY ONLY <3>1, <3>3, <3>4, Ladder
  <2>10. \A i \in 1 .. N : flatten[i] = g[i] /\ g[i] \in Seq(Byte)
    BY <2>9, <2>5
  <2> DEFINE f == [i \in 0 .. N |-> IF i = 0 THEN <<>> ELSE g[i]]
  <2>11. f \in [0 .. N -> Seq(Byte)] /\ f[0] = <<>> /\ \A i \in 1 .. N : f[i] = g[i]
    BY <1>1, <2>10, EmptySeq
  <2> HIDE DEF f
  <2>12. ASSUME NEW i \in 1 .. N PROVE f[i] = f[i - 1] \o seqs[i]
    <3>0. g[i] = IF i = 1 THEN seqs[i] ELSE g[i - 1] \o seqs[i]
      BY <2>5
    <3>1. CASE i = 1
      <4>1. <<>> \o seqs[1] = seqs[1] /\ 1 - 1 = 0 /\ seqs[1] \in Seq(Byte)
        BY <3>1, <1>1, ConcatEmptySeq
      <4> QED BY <3>0, <3>1, <4>1, <2>11
    <3>2. CASE i # 1
      <4>1. i - 1 \in 1 .. N
        BY <3>2, <1>1
      <4> QED BY <3>0, <3>2, <4>1, <2>11
    <3> QED BY <3>1, <3>2
  <2>13. Written(seqs, f)
    BY ONLY <2>11, <2>12 DEF Written, N
  <2>14. FlattenSeq(seqs) = f[N]
    BY <1>1, <1>3, <2>1, <2>10, <2>11
  <2> QED BY ONLY <2>13, <2>14 DEF N
<1> QED BY <1>2, <1>3

(* What is written stays: the text begins with every stage of it.          *)
LEMMA WrittenMore ==
  ASSUME NEW seqs \in Seq(Seq(Byte)), NEW f, Written(seqs, f), NEW k \in 0 .. Len(seqs)
  PROVE  \E r \in Seq(Byte) : f[Len(seqs)] = f[k] \o r
<1> DEFINE N == Len(seqs)
           Reached == {j \in k .. N : \E r \in Seq(Byte) : f[j] = f[k] \o r}
<1>1. N \in Nat /\ (\A i \in 1 .. N : seqs[i] \in Seq(Byte)) /\ k \in Nat /\ k <= N
  BY ElementOfSeq
<1>2. /\ \A i \in 0 .. N : f[i] \in Seq(Byte)
      /\ \A i \in 1 .. N : f[i] = f[i - 1] \o seqs[i]
  BY DEF Written
<1> HIDE DEF N
<1>3. k \in Reached
  <2>1. f[k] \o <<>> = f[k] /\ <<>> \in Seq(Byte) /\ k \in k .. N
    BY <1>1, <1>2, ConcatEmptySeq, EmptySeq
  <2> QED BY <2>1
<1>4. ASSUME NEW j \in k .. N - 1, j \in Reached PROVE j + 1 \in Reached
  <2>1. PICK r \in Seq(Byte) : f[j] = f[k] \o r
    BY <1>4
  <2>2. j + 1 \in 1 .. N /\ j + 1 \in k .. N /\ (j + 1) - 1 = j
    BY <1>1
  <2>3. f[j + 1] = f[j] \o seqs[j + 1] /\ seqs[j + 1] \in Seq(Byte)
    BY ONLY <2>2, <1>1, <1>2
  <2>4. f[k] \in Seq(Byte)
    BY <1>1, <1>2
  <2>5. f[j + 1] = f[k] \o (r \o seqs[j + 1]) /\ r \o seqs[j + 1] \in Seq(Byte)
    <3>1. (f[k] \o r) \o seqs[j + 1] = f[k] \o (r \o seqs[j + 1])
      <4> DEFINE x == f[k]  y == seqs[j + 1]
      <4>1. x \in Seq(Byte) /\ y \in Seq(Byte)
        BY <2>3, <2>4
      <4> HIDE DEF x, y
      <4>2. (x \o r) \o y = x \o (r \o y)
        BY ONLY <4>1, r \in Seq(Byte), ConcatAssociative, SMTT(30)
      <4> QED BY <4>2 DEF x, y
    <3>2. r \o seqs[j + 1] \in Seq(Byte)
      BY ONLY <2>3, r \in Seq(Byte), ConcatProperties
    <3> QED BY ONLY <3>1, <3>2, <2>1, <2>3
  <2> QED BY <2>2, <2>5
<1> HIDE DEF Reached
<1>5. \A j \in k .. N : j \in Reached
  <2>1. \A x \in k .. N - 1 : x \in Reached => x + 1 \in Reached
    BY ONLY <1>4
  <2> QED BY ONLY <1>1, <1>3, <2>1, Ladder
<1>6. N \in Reached
  BY <1>1, <1>5
<1> QED BY <1>6 DEF Reached, N

-----------------------------------------------------------------------------
(* The entries of a tree in their order, and their texts.                  *)
Order(tree) == Sorted(tree, [e \in tree |-> Key(e)])
EntryTexts(tree) == [n \in DOMAIN Order(tree) |-> EntryText(Order(tree)[n])]

(* A tree has its entries in the order of their keys, each in one place.   *)
LEMMA OrderIs ==
  ASSUME NEW tree \in Trees
  PROVE  LET s == Order(tree)
             N == Cardinality(tree)
         IN /\ N \in Nat /\ s \in [1 .. N -> tree] /\ s \in [1 .. N -> TreeEntries]
            /\ \A m, n \in 1 .. N : m < n => Before(Key(s[m]), Key(s[n]))
            /\ \A e \in tree : \E n \in 1 .. N : s[n] = e
            /\ \A m, n \in 1 .. N : s[m].name = s[n].name => m = n
<1> DEFINE s == Order(tree)
           N == Cardinality(tree)
           key == [e \in tree |-> Key(e)]
<1>1. IsFiniteSet(tree) /\ (\A e \in tree : e \in TreeEntries) /\ \A e, f \in tree : e.name = f.name => e = f
  <2> HIDE DEF TreeEntries
  <2> QED BY ObjectFormatAssumption
<1>2. key \in [tree -> Seq(Nat)]
  <2>1. \A e \in tree : Key(e) \in Seq(Nat)
    BY <1>1, KeyIs
  <2> QED BY <2>1
<1>3. \A e, f \in tree : key[e] = key[f] => e = f
  <2> SUFFICES ASSUME NEW e \in tree, NEW f \in tree, key[e] = key[f] PROVE e = f
    OBVIOUS
  <2>1. e \in TreeEntries /\ f \in TreeEntries /\ Key(e) = Key(f)
    BY <1>1
  <2>2. e.name = f.name
    BY ONLY <2>1, KeysDiffer
  <2> QED BY <2>2, <1>1
<1>4. s = Sorted(tree, key)
  BY DEF Order
<1> HIDE DEF s, N
<1>5. /\ N \in Nat /\ s \in [1 .. N -> tree]
      /\ \A m, n \in 1 .. N : m < n => Before(key[s[m]], key[s[n]])
      /\ \A e \in tree : \E n \in 1 .. N : s[n] = e
      /\ \A m, n \in 1 .. N : s[m] = s[n] => m = n
  <2> HIDE DEF key
  <2> QED BY <1>1, <1>2, <1>3, <1>4, SortedIs DEF N
<1>6. \A n \in 1 .. N : s[n] \in tree /\ key[s[n]] = Key(s[n])
  BY <1>5
<1>7. \A m, n \in 1 .. N : m < n => Before(Key(s[m]), Key(s[n]))
  <2> HIDE DEF key
  <2> QED BY ONLY <1>5, <1>6
<1>8. \A m, n \in 1 .. N : s[m].name = s[n].name => m = n
  BY ONLY <1>1, <1>5, <1>6
<1>9. s \in [1 .. N -> TreeEntries]
  BY ONLY <1>1, <1>5
<1> QED BY ONLY <1>5, <1>7, <1>8, <1>9 DEF s, N

(* What is written of a tree are the texts of its entries.                 *)
LEMMA TreeIs ==
  ASSUME NEW tree \in Trees
  PROVE  /\ EntryTexts(tree) \in Seq(Seq(Byte)) /\ Len(EntryTexts(tree)) = Cardinality(tree)
         /\ \A n \in 1 .. Cardinality(tree) : EntryTexts(tree)[n] = EntryText(Order(tree)[n])
         /\ \E f : Written(EntryTexts(tree), f) /\ SerialiseTree(tree) = f[Cardinality(tree)]
<1> DEFINE s == Order(tree)
           N == Cardinality(tree)
           texts == EntryTexts(tree)
<1>1. N \in Nat /\ s \in [1 .. N -> TreeEntries]
  BY OrderIs
<1>2. texts = [n \in 1 .. N |-> EntryText(s[n])]
  BY <1>1 DEF EntryTexts
<1>3. SerialiseTree(tree) = FlattenSeq(texts)
  BY DEF SerialiseTree, EntryTexts, Order
<1> HIDE DEF s, N, texts
<1>4. \A n \in 1 .. N : EntryText(s[n]) \in Seq(Byte)
  <2> SUFFICES ASSUME NEW n \in 1 .. N PROVE EntryText(s[n]) \in Seq(Byte)
    OBVIOUS
  <2>1. s[n] \in TreeEntries /\ <<>> \in Seq(Byte)
    BY <1>1, EmptySeq
  <2> QED BY <2>1, EntryTextIs
<1>5. texts \in [1 .. N -> Seq(Byte)]
  BY <1>2, <1>4
<1>6. texts \in Seq(Seq(Byte)) /\ Len(texts) = N
  BY ONLY <1>1, <1>5, LengthOf
<1>7. \E f : Written(texts, f) /\ FlattenSeq(texts) = f[N]
  BY ONLY <1>6, FlatIs
<1> QED BY ONLY <1>2, <1>3, <1>6, <1>7 DEF s, N, texts

(* While a tree is read, some of its entries have been and the text of the *)
(* others is left; in the end they all have been.                          *)
ReadSoFar(tree, k) ==
  /\ k \in 0 .. Cardinality(tree)
  /\ fields = [n \in 1 .. k |-> Order(tree)[n]]
  /\ rest \in Seq(Byte)
  /\ \E f : /\ Written(EntryTexts(tree), f)
            /\ data = f[Cardinality(tree)]
            /\ data = f[k] \o rest

TreeInv ==
  /\ stage = "entries" => \E tree \in Trees : data = SerialiseTree(tree) /\ \E k \in Nat : ReadSoFar(tree, k)
  /\ stage = "read" =>
       \E tree \in Trees :
         /\ data = SerialiseTree(tree)
         /\ fields \in Seq(tree) /\ Len(fields) = Cardinality(tree) /\ ToSet(fields) = tree

LEMMA TreeInit == FormatInit => TreeInv
<1> SUFFICES ASSUME FormatInit PROVE TreeInv
  OBVIOUS
<1>1. CASE stage = "open"
  BY <1>1 DEF TreeInv
<1>2. CASE stage # "open"
  <2>1. PICK tree \in Trees : data = SerialiseTree(tree)
    BY <1>2 DEF FormatInit
  <2>2. stage = "entries" /\ rest = data /\ fields = <<>>
    BY <1>2 DEF FormatInit
  <2> DEFINE N == Cardinality(tree)
  <2>3. PICK f : Written(EntryTexts(tree), f) /\ SerialiseTree(tree) = f[N]
    BY TreeIs
  <2>4. N \in Nat /\ Len(EntryTexts(tree)) = N
    BY OrderIs, TreeIs
  <2>5. f[0] = <<>> /\ f[N] \in Seq(Byte) /\ 0 \in 0 .. N
    BY <2>3, <2>4 DEF Written
  <2>6. data \in Seq(Byte) /\ data = f[0] \o rest
    BY <2>1, <2>2, <2>3, <2>5, ConcatEmptySeq
  <2>7. fields = [n \in 1 .. 0 |-> Order(tree)[n]]
    <3> DEFINE g == [n \in 1 .. 0 |-> Order(tree)[n]]
    <3>1. g \in [1 .. 0 -> Byte] /\ 0 \in Nat
      OBVIOUS
    <3> HIDE DEF g
    <3>2. g \in Seq(Byte) /\ Len(g) = 0
      BY ONLY <3>1, LengthOf
    <3>3. g = <<>>
      BY ONLY <3>2, EmptySeq
    <3> QED BY <3>3, <2>2 DEF g
  <2>8. ReadSoFar(tree, 0)
    BY ONLY <2>1, <2>2, <2>3, <2>5, <2>6, <2>7 DEF ReadSoFar
  <2>9. 0 \in Nat
    OBVIOUS
  <2> QED BY ONLY <2>1, <2>2, <2>8, <2>9, tree \in Trees DEF TreeInv
<1> QED BY <1>1, <1>2

(* What is left begins with the next entry, if there is one.               *)
LEMMA NextEntry ==
  ASSUME NEW tree \in Trees, NEW k \in Nat, ReadSoFar(tree, k)
  PROVE  /\ rest = <<>> => k = Cardinality(tree)
         /\ rest # <<>> =>
              /\ k + 1 \in 1 .. Cardinality(tree)
              /\ \E r \in Seq(Byte) :
                   /\ rest = EntryText(Order(tree)[k + 1]) \o r
                   /\ \E f : /\ Written(EntryTexts(tree), f)
                             /\ data = f[Cardinality(tree)]
                             /\ data = f[k + 1] \o r
<1> DEFINE N == Cardinality(tree)
           texts == EntryTexts(tree)
           e == Order(tree)[k + 1]
           x == EntryText(e)
<1>1. k \in 0 .. N /\ rest \in Seq(Byte) /\ N \in Nat
  BY OrderIs DEF ReadSoFar
<1>2. PICK f : Written(texts, f) /\ data = f[N] /\ data = f[k] \o rest
  BY DEF ReadSoFar
<1>3. texts \in Seq(Seq(Byte)) /\ Len(texts) = N /\ \A n \in 1 .. N : texts[n] = EntryText(Order(tree)[n])
  BY TreeIs
<1>4. (\A i \in 0 .. N : f[i] \in Seq(Byte)) /\ \A i \in 1 .. N : f[i] = f[i - 1] \o texts[i]
  BY <1>2, <1>3 DEF Written
<1>5. ASSUME k < N
      PROVE  /\ k + 1 \in 1 .. N /\ rest # <<>>
             /\ \E r \in Seq(Byte) : rest = x \o r /\ data = f[k + 1] \o r
  <2>1. k + 1 \in 1 .. N /\ k + 1 \in 0 .. N /\ (k + 1) - 1 = k
    BY <1>1, <1>5
  <2>2. e \in TreeEntries
    BY <2>1, OrderIs
  <2>3. x \in Seq(Byte) /\ Len(x) > 0
    <3>1. <<>> \in Seq(Byte)
      BY EmptySeq
    <3> HIDE DEF e
    <3> QED BY ONLY <2>2, <3>1, EntryTextIs DEF x
  <2>4. f[k + 1] = f[k] \o x
    BY <2>1, <1>3, <1>4
  <2> DEFINE a == f[k]  b == f[k + 1]
  <2>5. a \in Seq(Byte) /\ b \in Seq(Byte) /\ b = a \o x
    BY <2>1, <2>4, <1>1, <1>4
  <2>6. PICK r \in Seq(Byte) : f[N] = b \o r
    <3> HIDE DEF texts, N
    <3> QED BY <2>1, <1>2, <1>3, WrittenMore
  <2> HIDE DEF a, b, x, N
  <2>7. data = (a \o x) \o r /\ data = a \o rest
    BY <2>5, <2>6, <1>2 DEF a
  <2>8. (a \o x) \o r = a \o (x \o r) /\ x \o r \in Seq(Byte)
    BY ONLY <2>3, <2>5, r \in Seq(Byte), ConcatAssociative, ConcatProperties
  <2>9. rest = x \o r
    BY ONLY <2>5, <2>7, <2>8, <1>1, ConcatSimplifications
  <2>10. x # <<>> /\ rest # <<>>
    <3>1. x # <<>>
      BY ONLY <2>3, EmptySeq
    <3>2. x \o r = <<>> => x = <<>>
      BY ONLY <2>3, r \in Seq(Byte), ConcatSimplifications
    <3> QED BY ONLY <3>1, <3>2, <2>9
  <2>11. data = f[k + 1] \o r
    BY ONLY <2>5, <2>7 DEF b
  <2> QED BY ONLY <2>1, <2>9, <2>10, <2>11, r \in Seq(Byte)
<1>6. ASSUME k = N PROVE rest = <<>>
  <2>1. f[N] \in Seq(Byte) /\ f[N] \o rest = f[N]
    BY <1>1, <1>2, <1>4, <1>6
  <2> DEFINE a == f[N]
  <2> HIDE DEF a
  <2>2. a \in Seq(Byte) /\ a \o rest = a
    BY <2>1 DEF a
  <2> QED BY ONLY <2>2, <1>1, ConcatSimplifications
<1> HIDE DEF N, texts, x, e
<1>7. k < N \/ k = N
  BY <1>1
<1>8. rest = <<>> => k = N
  BY ONLY <1>5, <1>7
<1>9. rest # <<>> => k < N
  BY ONLY <1>6, <1>7
<1>10. ASSUME rest # <<>>
       PROVE  /\ k + 1 \in 1 .. N
              /\ \E r \in Seq(Byte) : rest = x \o r /\ \E g : Written(texts, g) /\ data = g[N] /\ data = g[k + 1] \o r
  <2>1. k < N
    BY ONLY <1>9, <1>10
  <2>2. PICK r \in Seq(Byte) : rest = x \o r /\ data = f[k + 1] \o r
    BY ONLY <1>5, <2>1
  <2>3. k + 1 \in 1 .. N
    BY ONLY <1>5, <2>1
  <2> QED BY ONLY <2>2, <2>3, <1>2
<1> QED BY ONLY <1>8, <1>10 DEF N, texts, x, e

(* An entry read is the next of those written.                             *)
LEMMA TreeEntryStep ==
  ASSUME TreeInv, TreeEntry
  PROVE  TreeInv'
<1>1. stage = "entries" /\ rest # <<>> /\ stage' = "entries" /\ data' = data
  BY DEF TreeEntry
<1>2. PICK tree \in Trees : data = SerialiseTree(tree) /\ \E k \in Nat : ReadSoFar(tree, k)
  BY <1>1 DEF TreeInv
<1>3. PICK k \in Nat : ReadSoFar(tree, k)
  BY <1>2
<1> DEFINE N == Cardinality(tree)
           s == Order(tree)
           e == s[k + 1]
<1>4. k + 1 \in 1 .. N
  BY <1>1, <1>3, NextEntry
<1>5. PICK r \in Seq(Byte) : /\ rest = EntryText(e) \o r
                             /\ \E f : Written(EntryTexts(tree), f) /\ data = f[N] /\ data = f[k + 1] \o r
  BY <1>1, <1>3, NextEntry
<1>6. s \in [1 .. N -> TreeEntries] /\ N \in Nat
  BY OrderIs
<1>7. e \in TreeEntries
  BY <1>4, <1>6
<1> HIDE DEF N, s, e
<1>8. rest' = r /\ fields' = Append(fields, e)
  <2> DEFINE space == Find(Space, rest, 1)
             nul == Find(Nul, rest, space + 1)
             entry == [mode |-> FromOctal(SubSeq(rest, 1, space - 1)),
                       name |-> SubSeq(rest, space + 1, nul - 1),
                       id |-> BinaryToHex(SubSeq(rest, nul + 1, nul + IdLength))]
  <2>1. fields' = Append(fields, entry) /\ rest' = SubSeq(rest, nul + IdLength + 1, Len(rest))
    BY DEF TreeEntry
  <2>2. entry = e /\ SubSeq(rest, nul + IdLength + 1, Len(rest)) = r
    BY ONLY <1>5, <1>7, r \in Seq(Byte), EntryRead
  <2> HIDE DEF entry, nul
  <2> QED BY ONLY <2>1, <2>2
<1>9. fields = [n \in 1 .. k |-> s[n]]
  BY <1>3 DEF ReadSoFar, s
<1>10. fields' = [n \in 1 .. k + 1 |-> s[n]]
  <2> DEFINE g == [n \in 1 .. k |-> s[n]]  h == [n \in 1 .. k + 1 |-> s[n]]
  <2>1. g \in [1 .. k -> TreeEntries] /\ \A n \in 1 .. k : g[n] = s[n]
    BY <1>4, <1>6
  <2>2. h \in [1 .. k + 1 -> TreeEntries] /\ \A n \in 1 .. k + 1 : h[n] = s[n]
    BY <1>4, <1>6
  <2>3. k + 1 \in Nat /\ \A n \in 1 .. k + 1 : n \in 1 .. k \/ n = k + 1
    OBVIOUS
  <2> HIDE DEF g, h
  <2>4. g \in Seq(TreeEntries) /\ Len(g) = k
    BY ONLY <2>1, k \in Nat, LengthOf
  <2>5. h \in Seq(TreeEntries) /\ Len(h) = k + 1
    BY ONLY <2>2, <2>3, LengthOf
  <2> DEFINE a == Append(g, e)
  <2>6. /\ a \in Seq(TreeEntries) /\ Len(a) = Len(g) + 1
        /\ \A n \in 1 .. Len(g) : a[n] = g[n]
        /\ a[Len(g) + 1] = e
    BY ONLY <2>4, <1>7, AppendProperties
  <2> HIDE DEF a
  <2>7. \A n \in 1 .. k + 1 : a[n] = h[n]
    BY ONLY <2>1, <2>2, <2>3, <2>4, <2>6 DEF e
  <2>8. a = h
    BY ONLY <2>4, <2>5, <2>6, <2>7, SeqEqual
  <2> QED BY <2>8, <1>8, <1>9 DEF a, g, h
<1>11. ReadSoFar(tree, k + 1)'
  <2>1. k + 1 \in 0 .. N
    BY <1>4, <1>6
  <2>2. rest' \in Seq(Byte) /\ \E f : Written(EntryTexts(tree), f) /\ data' = f[N] /\ data' = f[k + 1] \o rest'
    BY ONLY <1>1, <1>5, <1>8, r \in Seq(Byte)
  <2> QED BY ONLY <2>1, <2>2, <1>10 DEF ReadSoFar, N, s
<1>12. k + 1 \in Nat /\ data' = SerialiseTree(tree)
  BY <1>1, <1>2
<1> QED BY ONLY <1>1, <1>11, <1>12, tree \in Trees DEF TreeInv

(* Sorting by name loses no entry and repeats none.                        *)
LEMMA TreeEndsStep ==
  ASSUME TreeInv, TreeEnds
  PROVE  TreeInv'
<1>1. stage = "entries" /\ rest = <<>> /\ stage' = "read" /\ data' = data
  BY DEF TreeEnds
<1>2. PICK tree \in Trees : data = SerialiseTree(tree) /\ \E k \in Nat : ReadSoFar(tree, k)
  BY <1>1 DEF TreeInv
<1>3. PICK k \in Nat : ReadSoFar(tree, k)
  BY <1>2
<1> DEFINE N == Cardinality(tree)
           s == Order(tree)
           name == [n \in DOMAIN fields |-> fields[n].name]
           order == Sorted(DOMAIN fields, name)
<1>4. k = N
  BY <1>1, <1>3, NextEntry
<1>5. /\ N \in Nat /\ s \in [1 .. N -> tree] /\ s \in [1 .. N -> TreeEntries]
      /\ \A e \in tree : \E n \in 1 .. N : s[n] = e
      /\ \A m, n \in 1 .. N : s[m].name = s[n].name => m = n
  BY OrderIs
<1>6. fields = s
  BY <1>3, <1>4, <1>5 DEF ReadSoFar
<1>7. fields' = [n \in DOMAIN fields |-> fields[order[n]]]
  BY DEF TreeEnds
<1> HIDE DEF N, s
<1>8. DOMAIN fields = 1 .. N
  BY <1>5, <1>6
<1>9. name \in [1 .. N -> Seq(Nat)] /\ \A n \in 1 .. N : name[n] = s[n].name
  <2>1. ASSUME NEW n \in 1 .. N PROVE s[n].name \in Seq(Nat)
    <3>1. s[n] \in TreeEntries
      BY <1>5
    <3>2. s[n].name \in Seq(Byte)
      BY ONLY <3>1, NamesAre
    <3>3. Byte \subseteq Nat
      BY SMT DEF Byte
    <3> QED BY ONLY <3>2, <3>3, SeqMonotonic
  <2> QED BY <2>1, <1>6, <1>8
<1> HIDE DEF name
<1>10. \A m, n \in 1 .. N : name[m] = name[n] => m = n
  BY ONLY <1>5, <1>9
<1>11. IsFiniteSet(1 .. N) /\ Cardinality(1 .. N) = N
  BY <1>5, FS_Interval
<1>12. order \in [1 .. N -> 1 .. N] /\ \A m \in 1 .. N : \E n \in 1 .. N : order[n] = m
  <2> DEFINE I == 1 .. N  o == Sorted(I, name)  C == Cardinality(I)
  <2>1. IsFiniteSet(I) /\ name \in [I -> Seq(Nat)] /\ (\A m, n \in I : name[m] = name[n] => m = n) /\ C = N
    BY <1>9, <1>10, <1>11
  <2> HIDE DEF I
  <2>2. o \in [1 .. C -> I] /\ \A m \in I : \E n \in 1 .. C : o[n] = m
    BY ONLY <2>1, SortedIs
  <2>3. order = o
    BY <1>8 DEF I
  <2> HIDE DEF o, C, order
  <2> QED BY ONLY <2>1, <2>2, <2>3 DEF I
<1> HIDE DEF order
<1>13. fields' = [n \in 1 .. N |-> s[order[n]]]
  BY ONLY <1>6, <1>7, <1>8
<1>14. fields' \in [1 .. N -> tree]
  BY ONLY <1>5, <1>12, <1>13
<1>15. fields' \in Seq(tree) /\ Len(fields') = N
  BY ONLY <1>5, <1>14, LengthOf
<1>16. ToSet(fields') = tree
  <2>1. ToSet(fields') = {fields'[n] : n \in 1 .. N}
    BY <1>14 DEF ToSet
  <2>2. ASSUME NEW e \in tree PROVE \E n \in 1 .. N : fields'[n] = e
    <3>1. PICK m \in 1 .. N : s[m] = e
      BY <1>5
    <3>2. PICK n \in 1 .. N : order[n] = m
      BY <1>12
    <3> QED BY ONLY <3>1, <3>2, <1>13, n \in 1 .. N
  <2>3. \A n \in 1 .. N : fields'[n] \in tree
    BY <1>14
  <2> QED BY ONLY <2>1, <2>2, <2>3
<1> QED BY ONLY <1>1, <1>2, <1>15, <1>16, tree \in Trees DEF TreeInv, N

LEMMA TreeStep == TreeInv /\ [FormatNext]_formatVars => TreeInv'
<1> SUFFICES ASSUME TreeInv, [FormatNext]_formatVars PROVE TreeInv'
  OBVIOUS
<1>1. CASE Open /\ UNCHANGED data
  <2>1. stage' \in {"done", "threw", "lines"}
    BY <1>1 DEF Open, Throw
  <2> QED BY ONLY <2>1 DEF TreeInv
<1>2. CASE HeaderLine
  <2>1. stage' \in {"threw", "lines"}
    BY <1>2 DEF HeaderLine, Throw
  <2> QED BY ONLY <2>1 DEF TreeInv
<1>3. CASE HeaderEnds
  BY <1>3 DEF HeaderEnds, TreeInv
<1>4. CASE Take
  <2>1. stage' \in {"threw", "fields"}
    BY <1>4 DEF Take, Throw
  <2> QED BY ONLY <2>1 DEF TreeInv
<1>5. CASE Finish
  <2>1. stage' \in {"threw", "done"}
    BY <1>5 DEF Finish
  <2> QED BY ONLY <2>1 DEF TreeInv
<1>6. CASE TreeEntry
  BY <1>6, TreeEntryStep
<1>7. CASE TreeEnds
  BY <1>7, TreeEndsStep
<1>8. CASE UNCHANGED formatVars
  BY <1>8 DEF formatVars, TreeInv, ReadSoFar
<1> QED BY <1>1, <1>2, <1>3, <1>4, <1>5, <1>6, <1>7, <1>8 DEF FormatNext

(* Whatever the tree, its entries come back one by one.                    *)
LEMMA TreeInvariant == FormatSpec => []TreeInv
<1>1. FormatInit => TreeInv
  BY TreeInit
<1>2. TreeInv /\ [FormatNext]_formatVars => TreeInv'
  BY TreeStep
<1> QED BY <1>1, <1>2, PTL DEF FormatSpec

(* A tree of any entries, their names of any bytes but "/" and NUL, is     *)
(* written in the order of the paths below them and read back as the same  *)
(* entries, whatever bytes their ids have (tree.cpp:32-70).                *)
THEOREM TreesKeepTheirOrder == FormatSpec => []TreesInIndexOrder
<1>1. TreeInv => TreesInIndexOrder
  <2> SUFFICES ASSUME TreeInv PROVE TreesInIndexOrder
    OBVIOUS
  <2>1. ASSUME stage = "entries", NEW m \in DOMAIN fields, NEW n \in DOMAIN fields, m < n,
               NEW p \in PathsBelow(fields[m]), NEW q \in PathsBelow(fields[n])
        PROVE  Before(p, q)
    <3>1. PICK tree \in Trees : \E k \in Nat : ReadSoFar(tree, k)
      BY <2>1 DEF TreeInv
    <3>2. PICK k \in Nat : ReadSoFar(tree, k)
      BY <3>1
    <3> DEFINE N == Cardinality(tree)  s == Order(tree)
    <3>3. k \in 0 .. N /\ fields = [i \in 1 .. k |-> s[i]]
      BY <3>2 DEF ReadSoFar
    <3>4. /\ N \in Nat /\ s \in [1 .. N -> TreeEntries]
          /\ \A i, j \in 1 .. N : i < j => Before(Key(s[i]), Key(s[j]))
      BY OrderIs
    <3> HIDE DEF N, s
    <3>5. m \in 1 .. k /\ n \in 1 .. k
      BY <3>3
    <3>6. m \in 1 .. N /\ n \in 1 .. N /\ fields[m] = s[m] /\ fields[n] = s[n]
      BY <3>3, <3>4, <3>5
    <3>7. s[m] \in TreeEntries /\ s[n] \in TreeEntries /\ Before(Key(s[m]), Key(s[n]))
      BY ONLY <3>4, <3>6, m < n
    <3>8. p \in PathsBelow(s[m]) /\ q \in PathsBelow(s[n])
      BY <3>6
    <3> QED BY ONLY <3>7, <3>8, KeyOrder
  <2>2. ASSUME stage = "read"
        PROVE  /\ ToSet(fields) \in Trees /\ SerialiseTree(ToSet(fields)) = data
               /\ Cardinality(ToSet(fields)) = Len(fields)
    BY <2>2 DEF TreeInv
  <2> QED BY ONLY <2>1, <2>2 DEF TreesInIndexOrder
<1> QED BY <1>1, TreeInvariant, PTL
===============================================================================
