---------------------------- MODULE PathRulesProofs ----------------------------
(* What add stages for the paths it is given, and what the .gitignore      *)
(* files ignore, for any paths, patterns and lines.                        *)
EXTENDS Pathspec, IgnoreRules, FiniteSetTheorems, SequenceTheorems, WellFoundedInduction, TLAPS

-----------------------------------------------------------------------------
(* Every set of natural numbers with an element has a least one, and one   *)
(* with a bound a greatest.                                                *)
LEMMA LeastNatural ==
  ASSUME NEW S \in SUBSET Nat, S # {}
  PROVE  \E m \in S : \A k \in S : m <= k
<1> DEFINE T == {1 .. n : n \in S}
<1>1. T \subseteq FiniteSubsetsOf(Nat) /\ T # {}
  <2>1. ASSUME NEW n \in S PROVE (1 .. n) \subseteq Nat /\ IsFiniteSet(1 .. n)
    BY FS_Interval
  <2> QED BY <2>1 DEF FiniteSubsetsOf
<1>2. PICK x \in T : \A y \in T : <<y, x>> \notin StrictSubsetOrdering(Nat)
  <2> HIDE DEF T
  <2> QED BY <1>1, FS_StrictSubsetOrderingWellFounded, WFMin
<1>3. PICK m \in S : x = 1 .. m
  OBVIOUS
<1>4. ASSUME NEW k \in S, k < m PROVE FALSE
  <2>1. 1 .. k \in T
    OBVIOUS
  <2>2. (1 .. k) \subseteq (1 .. m) /\ (1 .. k) # (1 .. m)
    <3>1. m \in 1 .. m /\ m \notin 1 .. k
      BY <1>4
    <3> QED BY <3>1, <1>4
  <2>3. <<1 .. k, x>> \in StrictSubsetOrdering(Nat)
    BY <2>2, <1>3 DEF StrictSubsetOrdering
  <2> QED BY <2>1, <2>3, <1>2
<1> QED BY <1>4

LEMMA GreatestNatural ==
  ASSUME NEW S \in SUBSET Nat, S # {}, NEW n \in Nat, \A k \in S : k <= n
  PROVE  \E m \in S : \A k \in S : k <= m
<1> DEFINE T == {n - k : k \in S}
<1>1. T \in SUBSET Nat /\ T # {}
  <2>1. ASSUME NEW k \in S PROVE n - k \in Nat
    <3>1. k <= n /\ k \in Nat
      OBVIOUS
    <3> QED BY <3>1
  <2> QED BY <2>1
<1>2. PICK t \in T : \A u \in T : t <= u
  <2> HIDE DEF T
  <2> QED BY <1>1, LeastNatural
<1>3. PICK m \in S : t = n - m
  OBVIOUS
<1>4. ASSUME NEW k \in S PROVE k <= m
  <2>1. n - m <= n - k
    BY <1>2, <1>3
  <2>2. k \in Nat /\ m \in Nat
    OBVIOUS
  <2> QED BY <2>1, <2>2
<1> QED BY <1>4

LEMMA MaxIs ==
  ASSUME NEW S \in SUBSET Nat, S # {}, NEW n \in Nat, \A k \in S : k <= n
  PROVE  Max(S) \in S /\ \A k \in S : k <= Max(S)
<1>1. \E m \in S : \A k \in S : m >= k
  BY GreatestNatural
<1> QED BY <1>1 DEF Max

LEMMA MinIs ==
  ASSUME NEW S \in SUBSET Nat, S # {}
  PROVE  Min(S) \in S /\ \A k \in S : Min(S) <= k
BY LeastNatural DEF Min

(* A set with a that has the next of each of its numbers, up to b.         *)
LEMMA Ladder ==
  ASSUME NEW S, NEW a \in Nat, NEW b \in Nat, a \in S,
         \A x \in a .. b - 1 : x \in S => x + 1 \in S
  PROVE  \A x \in a .. b : x \in S
<1> DEFINE Missed == {x \in a .. b : x \notin S}
<1>1. ASSUME Missed # {} PROVE FALSE
  <2>1. Missed \in SUBSET Nat
    OBVIOUS
  <2>2. PICK m \in Missed : \A k \in Missed : m <= k
    <3> HIDE DEF Missed
    <3> QED BY <1>1, <2>1, LeastNatural
  <2>3. m \in a .. b /\ m \notin S /\ m # a
    OBVIOUS
  <2>4. m - 1 \in a .. b - 1 /\ m - 1 \in a .. b /\ ~(m <= m - 1)
    BY <2>3
  <2>5. m - 1 \in S
    BY <2>2, <2>4
  <2>6. (m - 1) + 1 = m
    BY <2>3
  <2> QED BY <2>3, <2>4, <2>5, <2>6
<1> QED BY <1>1

-----------------------------------------------------------------------------
(* Paths and the places where their names end.                             *)
LEMMA UptoIs ==
  ASSUME NEW p \in Seq(Char), NEW n \in 0 .. Len(p)
  PROVE  /\ Upto(p, n) \in Seq(Char) /\ Len(Upto(p, n)) = n
         /\ \A x \in 1 .. n : Upto(p, n)[x] = p[x]
BY DEF Upto

LEMMA UptoSame ==
  ASSUME NEW p \in Seq(Char), NEW q \in Seq(Char), NEW n \in 0 .. Len(p), n <= Len(q),
         \A x \in 1 .. n : p[x] = q[x]
  PROVE  Upto(p, n) = Upto(q, n)
<1>1. n \in 0 .. Len(q)
  OBVIOUS
<1> QED BY <1>1, UptoIs, SeqEqual

LEMMA UptoAll ==
  ASSUME NEW p \in Seq(Char)
  PROVE  Upto(p, Len(p)) = p /\ Upto(p, 0) = <<>>
<1>1. Len(p) \in 0 .. Len(p) /\ 0 \in 0 .. Len(p)
  OBVIOUS
<1>2. Upto(p, Len(p)) = p
  BY <1>1, UptoIs, SeqEqual
<1> QED BY <1>1, <1>2, UptoIs

LEMMA UptoUpto ==
  ASSUME NEW p \in Seq(Char), NEW n \in 0 .. Len(p), NEW m \in 0 .. n
  PROVE  Upto(Upto(p, n), m) = Upto(p, m)
<1>1. Upto(p, n) \in Seq(Char) /\ Len(Upto(p, n)) = n /\ m \in 0 .. Len(Upto(p, n)) /\ m <= Len(p)
  BY UptoIs
<1>2. \A x \in 1 .. m : Upto(p, n)[x] = p[x]
  BY UptoIs
<1> QED BY <1>1, <1>2, UptoSame

LEMMA EndsTyped ==
  ASSUME NEW p \in Seq(Char)
  PROVE  /\ Ends(p) \subseteq 1 .. Len(p)
         /\ p # <<>> => Len(p) \in Ends(p) /\ Len(p) > 0
         /\ Len(p) \in Nat
BY DEF Ends

LEMMA EndsUpto ==
  ASSUME NEW p \in Seq(Char), NEW n \in Ends(p)
  PROVE  Ends(Upto(p, n)) = {m \in Ends(p) : m <= n}
<1>1. n \in 0 .. Len(p) /\ Len(Upto(p, n)) = n /\ Upto(p, n) \in Seq(Char)
  BY EndsTyped, UptoIs
<1>2. \A x \in 1 .. n : Upto(p, n)[x] = p[x]
  BY <1>1, UptoIs
<1>3. ASSUME NEW m \in 1 .. n PROVE m \in Ends(Upto(p, n)) <=> m \in Ends(p)
  BY <1>1, <1>2 DEF Ends
<1>4. Ends(Upto(p, n)) \subseteq 1 .. n /\ Ends(p) \subseteq 1 .. Len(p)
  BY <1>1, EndsTyped
<1> QED BY <1>1, <1>3, <1>4

LEMMA NamesUpto ==
  ASSUME NEW p \in Seq(Char), NEW n \in Ends(p)
  PROVE  Names(Upto(p, n)) = {Upto(p, m) : m \in {k \in Ends(p) : k <= n}}
<1>1. n \in 0 .. Len(p) /\ Ends(p) \subseteq 1 .. Len(p)
  BY EndsTyped
<1>2. \A m \in Ends(p) : m <= n => Upto(Upto(p, n), m) = Upto(p, m)
  <2>1. \A m \in Ends(p) : m <= n => m \in 0 .. n
    BY <1>1
  <2> QED BY <1>1, <2>1, UptoUpto
<1> QED BY <1>2, EndsUpto DEF Names


LEMMA ParentPathIs ==
  ASSUME NEW p \in Seq(Char), p # <<>>
  PROVE  \E n \in {0} \cup Ends(p) :
           n < Len(p) /\ ParentPath(p) = Upto(p, n) /\ \A m \in Ends(p) : m < Len(p) => m <= n
<1> DEFINE S == {0} \cup (Ends(p) \ {Len(p)})
<1>1. S \in SUBSET Nat /\ S # {} /\ Len(p) \in Nat /\ Len(p) > 0
  BY EndsTyped
<1>2. \A k \in S : k < Len(p)
  BY <1>1, EndsTyped
<1>3. Max(S) \in S /\ \A k \in S : k <= Max(S)
  <2>1. \A k \in S : k <= Len(p)
    BY <1>1, <1>2
  <2> HIDE DEF S
  <2> QED BY <1>1, <2>1, MaxIs
<1>4. ParentPath(p) = Upto(p, Max(S))
  BY DEF ParentPath
<1>5. \A m \in Ends(p) : m < Len(p) => m \in S
  OBVIOUS
<1>6. Max(S) \in {0} \cup Ends(p) /\ Max(S) < Len(p)
  BY <1>2, <1>3
<1> HIDE DEF S
<1> QED BY <1>3, <1>4, <1>5, <1>6

LEMMA NameAfterIs ==
  ASSUME NEW p \in Seq(Char), NEW n \in 0 .. Len(p) - 1
  PROVE  /\ NameAfter(p, n) \in Ends(p) /\ n < NameAfter(p, n)
         /\ \A m \in Ends(p) : n < m => NameAfter(p, n) <= m
<1> DEFINE S == {m \in Ends(p) : n < m}
<1>1. Len(p) \in Nat /\ n \in Nat /\ n < Len(p)
  BY EndsTyped
<1>2. Len(p) \in S
  BY <1>1 DEF Ends
<1>3. S \in SUBSET Nat /\ S # {}
  BY <1>2, EndsTyped
<1>4. Min(S) \in S /\ \A k \in S : Min(S) <= k
  <2> HIDE DEF S
  <2> QED BY <1>3, MinIs
<1>5. NameAfter(p, n) = Min(S)
  BY DEF NameAfter
<1> QED BY <1>4, <1>5

(* The name after a directory's is a name in that directory.               *)
LEMMA NextIsChild ==
  ASSUME NEW p \in Seq(Char), NEW n \in {0} \cup Ends(p), n < Len(p)
  PROVE  ParentPath(Upto(p, NameAfter(p, n))) = Upto(p, n)
<1> DEFINE m == NameAfter(p, n)
           q == Upto(p, m)
<1>1. n \in 0 .. Len(p) - 1 /\ Len(p) \in Nat /\ Ends(p) \subseteq 1 .. Len(p)
  BY EndsTyped
<1>2. m \in Ends(p) /\ n < m /\ \A k \in Ends(p) : n < k => m <= k
  BY <1>1, NameAfterIs
<1> HIDE DEF m
<1>3. m \in 0 .. Len(p) /\ q \in Seq(Char) /\ Len(q) = m /\ q # <<>>
  BY <1>1, <1>2, UptoIs
<1>4. Ends(q) = {k \in Ends(p) : k <= m}
  BY <1>2, EndsUpto
<1>5. PICK k \in {0} \cup Ends(q) :
        k < Len(q) /\ ParentPath(q) = Upto(q, k) /\ \A l \in Ends(q) : l < Len(q) => l <= k
  <2> HIDE DEF q
  <2> QED BY <1>3, ParentPathIs
<1>6. k = n
  <2>1. k \in Nat /\ n \in Nat /\ m \in Nat /\ k < m
    BY <1>1, <1>2, <1>3, <1>4, <1>5
  <2>2. k <= n
    BY <1>2, <1>4, <1>5, <2>1
  <2>3. n <= k
    <3>1. CASE n = 0
      BY <3>1, <2>1
    <3>2. CASE n # 0
      BY <3>2, <1>2, <1>3, <1>4, <1>5, <2>1
    <3> QED BY <3>1, <3>2
  <2> QED BY <2>1, <2>2, <2>3
<1>7. Upto(q, n) = Upto(p, n)
  <2>1. n \in 0 .. m
    BY <1>1, <1>2
  <2> QED BY <1>3, <2>1, UptoUpto
<1> QED BY <1>5, <1>6, <1>7 DEF m

LEMMA WithinIs ==
  ASSUME NEW p \in Seq(Char), NEW d
  PROVE  Within(d, p) <=> \E n \in {0} \cup Ends(p) : n < Len(p) /\ d = Upto(p, n)
<1>1. Len(p) \in Nat /\ Ends(p) \subseteq 1 .. Len(p) /\ Upto(p, 0) = <<>> /\ Upto(p, Len(p)) = p
  BY EndsTyped, UptoAll
<1>2. \A n \in 0 .. Len(p) : Len(Upto(p, n)) = n
  BY UptoIs
<1>3. p # <<>> <=> Len(p) > 0
  BY <1>1
<1>4. ASSUME Within(d, p) PROVE \E n \in {0} \cup Ends(p) : n < Len(p) /\ d = Upto(p, n)
  <2>1. CASE d = <<>>
    BY <2>1, <1>1, <1>3, <1>4 DEF Within
  <2>2. CASE d # <<>>
    <3>1. PICK n \in Ends(p) : d = Upto(p, n)
      BY <2>2, <1>4 DEF Within, Names
    <3>2. n # Len(p)
      BY <3>1, <1>1, <1>4 DEF Within
    <3> QED BY <3>1, <3>2, <1>1
  <2> QED BY <2>1, <2>2
<1>5. ASSUME NEW n \in {0} \cup Ends(p), n < Len(p), d = Upto(p, n) PROVE Within(d, p)
  <2>1. n \in 0 .. Len(p) /\ Len(d) = n
    BY <1>1, <1>2, <1>5
  <2>2. d # p
    BY <2>1, <1>5
  <2>3. d \in {<<>>} \cup Names(p)
    BY <1>1, <1>5 DEF Names
  <2> QED BY <2>2, <2>3 DEF Within
<1> QED BY <1>4, <1>5

(* A file in a directory is right in it, or further down in another.       *)
LEMMA WithinDescends ==
  ASSUME NEW p \in Seq(Char), NEW d, Within(d, p)
  PROVE  \/ ParentPath(p) = d
         \/ \E e \in Names(p) : ParentPath(e) = d /\ Within(e, p)
<1>1. PICK n \in {0} \cup Ends(p) : n < Len(p) /\ d = Upto(p, n)
  BY WithinIs
<1>2. n \in 0 .. Len(p) - 1 /\ Len(p) \in Nat /\ Upto(p, Len(p)) = p
  BY <1>1, EndsTyped, UptoAll
<1>3. NameAfter(p, n) \in Ends(p)
  BY <1>2, NameAfterIs
<1>4. ParentPath(Upto(p, NameAfter(p, n))) = d
  BY <1>1, NextIsChild
<1>5. CASE NameAfter(p, n) = Len(p)
  BY <1>2, <1>4, <1>5
<1>6. CASE NameAfter(p, n) # Len(p)
  <2>1. NameAfter(p, n) < Len(p)
    BY <1>2, <1>3, <1>6, EndsTyped
  <2>2. Within(Upto(p, NameAfter(p, n)), p)
    BY <2>1, <1>3, WithinIs
  <2> QED BY <2>2, <1>3, <1>4 DEF Names
<1> QED BY <1>5, <1>6

(* The names on the way to a path are those of its directory and its own.  *)
LEMMA NamesOfParent ==
  ASSUME NEW p \in Seq(Char), p # <<>>
  PROVE  /\ ParentPath(p) \in Seq(Char) /\ Within(ParentPath(p), p)
         /\ Names(p) = Names(ParentPath(p)) \cup {p}
<1>1. PICK n \in {0} \cup Ends(p) :
        n < Len(p) /\ ParentPath(p) = Upto(p, n) /\ \A m \in Ends(p) : m < Len(p) => m <= n
  BY ParentPathIs
<1>2. Len(p) \in Nat /\ Len(p) \in Ends(p) /\ Ends(p) \subseteq 1 .. Len(p) /\ n \in 0 .. Len(p)
      /\ Upto(p, 0) = <<>> /\ Upto(p, Len(p)) = p
  BY <1>1, EndsTyped, UptoAll
<1>3. Names(Upto(p, n)) = {Upto(p, m) : m \in {k \in Ends(p) : k <= n}}
  <2>1. CASE n = 0
    <3>1. Ends(<<>>) = {}
      BY DEF Ends
    <3>2. Names(<<>>) = {}
      BY <3>1 DEF Names
    <3>3. {k \in Ends(p) : k <= n} = {}
      BY <2>1, <1>2
    <3> QED BY <2>1, <1>2, <3>2, <3>3
  <2>2. CASE n # 0
    BY <2>2, <1>1, NamesUpto
  <2> QED BY <2>1, <2>2
<1>4. Ends(p) = {k \in Ends(p) : k <= n} \cup {Len(p)}
  BY <1>1, <1>2
<1>5. Names(p) = {Upto(p, m) : m \in {k \in Ends(p) : k <= n}} \cup {p}
  BY <1>2, <1>4 DEF Names
<1> QED BY <1>1, <1>2, <1>3, <1>5, WithinIs, UptoIs

-----------------------------------------------------------------------------
(* wildmatch.  That a pattern matches says where its pieces are.           *)
Placed(p, s, place) ==
  /\ place \in [Starts(p) -> 1 .. Len(s) + 1]
  /\ place[1] = 1
  /\ \A i \in Starts(p) : \A x \in Piece(p, i) : Fits(p, s, x, place[i] + (x - i), place)

LEMMA MatchIs ==
  ASSUME NEW p, NEW s
  PROVE  Match(p, s) <=> \E place : Placed(p, s, place)
BY DEF Match, Placed

LEMMA StartsTyped ==
  ASSUME NEW p \in Seq(Char)
  PROVE  /\ 1 \in Starts(p) /\ Starts(p) \subseteq 1 .. Len(p) + 1
         /\ \A i \in Starts(p) : Piece(p, i) \subseteq i .. Len(p) + 1 /\ i \in Piece(p, i)
         /\ Len(p) \in Nat
<1>1. Len(p) \in Nat
  OBVIOUS
<1>2. Starts(p) \subseteq 1 .. Len(p) + 1
  BY <1>1 DEF Starts
<1> QED BY <1>1, <1>2 DEF Starts, Piece

(* Where a pattern has no wildcards it is read character by character.     *)
LEMMA LiteralPlaced ==
  ASSUME NEW p \in Seq(Char), NEW s \in Seq(Char), NEW place, Placed(p, s, place),
         NEW n \in 0 .. Len(p), \A x \in 1 .. n : p[x] \notin Wildcard
  PROVE  /\ n <= Len(s) /\ \A x \in 1 .. n : p[x] = s[x]
         /\ n = Len(p) => n = Len(s) \/ (n + 1 <= Len(s) /\ s[n + 1] = "/")
         /\ n < Len(p) /\ p[n + 1] = "/" => n + 1 <= Len(s) /\ s[n + 1] = "/"
<1>1. Len(p) \in Nat /\ Len(s) \in Nat /\ n \in Nat /\ n <= Len(p)
  OBVIOUS
<1>2. 1 .. n + 1 \subseteq Piece(p, 1)
  BY <1>1 DEF Piece, Wildcard
<1>3. \A x \in 1 .. n + 1 : Fits(p, s, x, x, place)
  <2>1. \A x \in Piece(p, 1) : Fits(p, s, x, place[1] + (x - 1), place)
    BY StartsTyped DEF Placed
  <2>2. \A x \in 1 .. n + 1 : place[1] + (x - 1) = x
    BY <1>1 DEF Placed
  <2> QED BY <1>2, <2>1, <2>2
<1>4. \A x \in 1 .. n : x <= Len(s) /\ p[x] = s[x]
  BY <1>1, <1>3 DEF Fits, Wildcard
<1>5. n <= Len(s)
  BY <1>1, <1>4
<1>6. n + 1 \in 1 .. n + 1
  BY <1>1
<1>7. n = Len(p) => n = Len(s) \/ (n + 1 <= Len(s) /\ s[n + 1] = "/")
  BY <1>1, <1>3, <1>6 DEF Fits
<1>8. n < Len(p) /\ p[n + 1] = "/" => n + 1 <= Len(s) /\ s[n + 1] = "/"
  BY <1>1, <1>3, <1>6 DEF Fits
<1> QED BY <1>4, <1>5, <1>7, <1>8

LEMMA LiteralPrefix ==
  ASSUME NEW p \in Seq(Char), NEW s \in Seq(Char), s # <<>>, Match(p, s),
         NEW n \in {0} \cup Ends(p), \A x \in 1 .. n : p[x] \notin Wildcard
  PROVE  n \in {0} \cup Ends(s) /\ Upto(s, n) = Upto(p, n) /\ (n < Len(p) => n < Len(s))
<1>1. PICK place : Placed(p, s, place)
  BY MatchIs
<1>2. n \in 0 .. Len(p) /\ Len(p) \in Nat /\ Len(s) \in Nat
  BY EndsTyped
<1>3. /\ n <= Len(s) /\ \A x \in 1 .. n : p[x] = s[x]
      /\ n = Len(p) => n = Len(s) \/ (n + 1 <= Len(s) /\ s[n + 1] = "/")
      /\ n < Len(p) /\ p[n + 1] = "/" => n + 1 <= Len(s) /\ s[n + 1] = "/"
  BY <1>1, <1>2, LiteralPlaced
<1>4. Upto(s, n) = Upto(p, n)
  BY <1>2, <1>3, UptoSame
<1>5. CASE n = 0
  BY <1>2, <1>4, <1>5
<1>6. CASE n \in Ends(p)
  BY <1>2, <1>3, <1>4, <1>6 DEF Ends
<1> QED BY <1>5, <1>6

(* A pattern without wildcards matches the path it is and all below it.    *)
LEMMA LiteralMatches ==
  ASSUME NEW p \in Seq(Char), p # <<>>, NEW s \in Seq(Char), s = p \/ Within(p, s),
         \A x \in 1 .. Len(p) : p[x] \notin Wildcard
  PROVE  Match(p, s)
<1> DEFINE place == [i \in Starts(p) |-> 1]
<1>1. Len(p) \in Nat /\ Len(s) \in Nat /\ Len(p) > 0
  BY EndsTyped
<1>2. Starts(p) = {1}
  BY DEF Starts, Wildcard
<1>3. /\ Len(p) <= Len(s) /\ \A x \in 1 .. Len(p) : s[x] = p[x]
      /\ Len(p) = Len(s) \/ s[Len(p) + 1] = "/"
  <2>1. CASE s = p
    BY <2>1, <1>1
  <2>2. CASE Within(p, s)
    <3>1. PICK n \in {0} \cup Ends(s) : n < Len(s) /\ p = Upto(s, n)
      BY <2>2, WithinIs
    <3>2. n \in 0 .. Len(s) /\ Len(p) = n /\ \A x \in 1 .. n : p[x] = s[x]
      <4>1. n \in 0 .. Len(s)
        BY <3>1, <1>1, EndsTyped
      <4> QED BY <4>1, <3>1, UptoIs
    <3>3. s[n + 1] = "/"
      BY <3>1, <3>2, <1>1 DEF Ends
    <3> QED BY <3>1, <3>2, <3>3, <1>1
  <2> QED BY <2>1, <2>2
<1>4. place \in [Starts(p) -> 1 .. Len(s) + 1] /\ place[1] = 1
  BY <1>1, <1>2
<1>5. ASSUME NEW x \in Piece(p, 1) PROVE Fits(p, s, x, 1 + (x - 1), place)
  <2>1. x \in 1 .. Len(p) + 1 /\ 1 + (x - 1) = x
    BY <1>1, <1>2, StartsTyped
  <2>2. CASE x > Len(p)
    BY <1>1, <1>3, <2>1, <2>2 DEF Fits
  <2>3. CASE x \in 1 .. Len(p)
    BY <1>1, <1>3, <2>1, <2>3 DEF Fits, Wildcard
  <2> QED BY <1>1, <2>1, <2>2, <2>3
<1>6. \A i \in Starts(p) : \A x \in Piece(p, i) : Fits(p, s, x, place[i] + (x - i), place)
  BY <1>2, <1>4, <1>5
<1> HIDE DEF place
<1> QED BY <1>4, <1>6, MatchIs DEF Placed

(* Every place in a pattern is in a piece, and the pieces are in order.    *)
LEMMA PieceOf ==
  ASSUME NEW p \in Seq(Char), NEW x \in 1 .. Len(p) + 1
  PROVE  \E i \in Starts(p) : x \in Piece(p, i)
<1> DEFINE S == {i \in Starts(p) : i <= x}
<1>1. S \in SUBSET Nat /\ 1 \in S /\ x \in Nat /\ Len(p) \in Nat
  BY StartsTyped
<1>2. PICK i \in S : \A j \in S : j <= i
  <2>1. \A j \in S : j <= x
    OBVIOUS
  <2>2. S # {}
    BY <1>1
  <2> HIDE DEF S
  <2> QED BY <1>1, <2>1, <2>2, GreatestNatural
<1>3. ASSUME NEW y \in i .. x - 1, p[y] = "*" PROVE FALSE
  <2>0. i \in 1 .. Len(p) + 1 /\ i <= x
    BY StartsTyped
  <2>1. y \in DOMAIN p /\ y + 1 <= x /\ i < y + 1
    BY <1>1, <2>0
  <2>2. y + 1 \in S
    BY <2>1, <1>3 DEF Starts
  <2> QED BY <1>1, <1>2, <2>1, <2>2
<1> QED BY <1>1, <1>3 DEF Piece

LEMMA NextStar ==
  ASSUME NEW p \in Seq(Char), NEW i \in Starts(p), NEW j \in Starts(p), i < j
  PROVE  \E z \in i .. j - 1 : z \in Piece(p, i) /\ z <= Len(p) /\ p[z] = "*" /\ z + 1 \in Starts(p)
<1> DEFINE S == {z \in i .. j - 1 : p[z] = "*"}
<1>1. i \in 1 .. Len(p) + 1 /\ j \in 1 .. Len(p) + 1 /\ Len(p) \in Nat
  BY StartsTyped
<1>2. j - 1 \in S
  BY <1>1 DEF Starts
<1>3. PICK z \in S : \A y \in S : z <= y
  <2>1. S \in SUBSET Nat /\ S # {}
    BY <1>1, <1>2
  <2> HIDE DEF S
  <2> QED BY <2>1, LeastNatural
<1>4. z \in i .. j - 1 /\ p[z] = "*" /\ z \in DOMAIN p
  BY <1>1
<1>5. ASSUME NEW y \in i .. z - 1 PROVE p[y] # "*"
  <2>1. y \in i .. j - 1 /\ ~(z <= y)
    BY <1>1, <1>4
  <2> QED BY <2>1, <1>3
<1> QED BY <1>1, <1>4, <1>5 DEF Piece, Starts

LEMMA PlacedInOrder ==
  ASSUME NEW p \in Seq(Char), NEW s \in Seq(Char), NEW place, Placed(p, s, place),
         NEW i \in Starts(p), NEW j \in Starts(p), i <= j
  PROVE  place[i] <= place[j]
<1> DEFINE S == {k \in Starts(p) : k <= j /\ place[k] > place[j]}
<1>1. Starts(p) \subseteq 1 .. Len(p) + 1 /\ Len(p) \in Nat /\ Len(s) \in Nat
  BY StartsTyped
<1>2. \A k \in Starts(p) : place[k] \in Nat
  BY <1>1 DEF Placed
<1>3. ASSUME S # {} PROVE FALSE
  <2>1. PICK k \in S : \A l \in S : l <= k
    <3>1. S \in SUBSET Nat /\ j \in Nat /\ \A l \in S : l <= j
      BY <1>1
    <3> HIDE DEF S
    <3> QED BY <1>3, <3>1, GreatestNatural
  <2>2. k \in Starts(p) /\ k < j /\ place[k] > place[j]
    BY <1>1, <1>2
  <2>3. PICK z \in k .. j - 1 : z \in Piece(p, k) /\ z <= Len(p) /\ p[z] = "*" /\ z + 1 \in Starts(p)
    BY <2>2, NextStar
  <2>4. Fits(p, s, z, place[k] + (z - k), place)
    BY <2>2, <2>3 DEF Placed
  <2>5. place[k] + (z - k) <= place[z + 1]
    BY <1>1, <2>2, <2>3, <2>4 DEF Fits
  <2>6. z + 1 \notin S
    BY <1>1, <2>1, <2>2, <2>3
  <2>7. place[z + 1] <= place[j]
    BY <1>1, <1>2, <2>2, <2>3, <2>6
  <2>8. k <= z /\ k \in Nat /\ z \in Nat
    BY <1>1, <2>2, <2>3
  <2> QED BY <1>2, <2>2, <2>3, <2>5, <2>7, <2>8
<1> QED BY <1>1, <1>2, <1>3

LEMMA PlacedBefore ==
  ASSUME NEW p \in Seq(Char), NEW s \in Seq(Char), NEW place, Placed(p, s, place),
         NEW i \in Starts(p), NEW j \in Starts(p), i < j, NEW x \in Piece(p, i)
  PROVE  /\ x < j /\ x <= Len(p)
         /\ p[x] # "*" => place[i] + (x - i) < place[j]
<1>1. PICK z \in i .. j - 1 : z \in Piece(p, i) /\ z <= Len(p) /\ p[z] = "*" /\ z + 1 \in Starts(p)
  BY NextStar
<1>2. /\ Starts(p) \subseteq 1 .. Len(p) + 1 /\ Len(p) \in Nat /\ Len(s) \in Nat
      /\ x \in Nat /\ i <= x /\ i \in Nat /\ j \in Nat /\ z \in Nat /\ i <= z /\ z < j
  BY <1>1, StartsTyped
<1>3. x <= z
  BY <1>1, <1>2 DEF Piece
<1>4. place[i] \in Nat /\ place[j] \in Nat /\ place[z + 1] \in Nat
  <2>1. \A k \in Starts(p) : place[k] \in 1 .. Len(s) + 1
    BY DEF Placed
  <2> QED BY <1>1, <1>2, <2>1
<1>5. place[i] + (z - i) <= place[z + 1]
  <2>1. Fits(p, s, z, place[i] + (z - i), place)
    BY <1>1 DEF Placed
  <2> QED BY <1>1, <1>2, <2>1 DEF Fits
<1>6. place[z + 1] <= place[j]
  BY <1>1, <1>2, PlacedInOrder
<1>7. p[x] # "*" => x < z
  BY <1>1, <1>2, <1>3
<1>8. x < j /\ x <= Len(p)
  BY ONLY <1>1, <1>2, <1>3
<1>9. x < z => place[i] + (x - i) < place[j]
  BY ONLY <1>2, <1>4, <1>5, <1>6
<1> QED BY ONLY <1>7, <1>8, <1>9

(* A pattern of several names matches a file only where the pattern's      *)
(* directory matches the file's: add_folder skips no file that matches.    *)
LEMMA ParentMatches ==
  ASSUME NEW p \in Seq(Char), p # <<>>, ParentPath(p) # <<>>,
         NEW s \in Seq(Char), s # <<>>, s[1] # "/", Match(p, s)
  PROVE  ParentPath(s) # <<>> /\ Match(ParentPath(p), ParentPath(s))
<1>1. PICK m \in {0} \cup Ends(p) : m < Len(p) /\ ParentPath(p) = Upto(p, m)
  BY ParentPathIs
<1>2. PICK n \in {0} \cup Ends(s) :
        n < Len(s) /\ ParentPath(s) = Upto(s, n) /\ \A e \in Ends(s) : e < Len(s) => e <= n
  BY ParentPathIs
<1>3. /\ Len(p) \in Nat /\ Len(s) \in Nat /\ m \in 1 .. Len(p) /\ n \in 0 .. Len(s)
      /\ m < Len(p) /\ p[m + 1] = "/"
  <2>1. Len(p) \in Nat /\ Len(s) \in Nat /\ m \in 0 .. Len(p) /\ n \in 0 .. Len(s) /\ Upto(p, 0) = <<>>
    BY <1>1, <1>2, EndsTyped, UptoAll
  <2>2. m # 0
    BY <1>1, <2>1
  <2> QED BY <1>1, <2>1, <2>2 DEF Ends
<1>4. PICK place : Placed(p, s, place)
  BY MatchIs
<1>5. PICK i \in Starts(p) : m + 1 \in Piece(p, i)
  <2>1. m + 1 \in 1 .. Len(p) + 1
    BY <1>3
  <2> QED BY <2>1, PieceOf
<1> DEFINE slash == place[i] + ((m + 1) - i)
           q == Upto(p, m)
           g == Upto(s, n)
<1>6. /\ \A k \in Starts(p) : k \in 1 .. Len(p) + 1 /\ place[k] \in 1 .. Len(s) + 1
      /\ i <= m + 1
  BY <1>4, <1>5, StartsTyped DEF Placed
<1>7. slash \in 1 .. Len(s) /\ s[slash] = "/" /\ slash <= n + 1 /\ n > 0
  <2>1. Fits(p, s, m + 1, slash, place)
    <3>1. \A x \in Piece(p, i) : Fits(p, s, x, place[i] + (x - i), place)
      BY <1>4 DEF Placed
    <3> QED BY <3>1, <1>5
  <2>3. slash \in Nat /\ slash > 0
    BY <1>3, <1>6
  <2>2. slash <= Len(s) /\ s[slash] = "/"
    <3> HIDE DEF slash
    <3>1. m + 1 <= Len(p) /\ p[m + 1] # "*"
      BY <1>3
    <3>2. slash <= Len(s) /\ p[m + 1] \in {"?", s[slash]}
      BY <1>3, <2>1, <3>1 DEF Fits
    <3> QED BY <1>3, <3>2
  <2>4. slash # 1
    BY <2>2
  <2> HIDE DEF slash
  <2>5. slash - 1 \in Ends(s) /\ slash - 1 < Len(s)
    BY <1>3, <2>2, <2>3, <2>4 DEF Ends
  <2> QED BY <1>2, <1>3, <2>2, <2>3, <2>4, <2>5
<1>8. /\ q \in Seq(Char) /\ Len(q) = m /\ \A x \in 1 .. m : q[x] = p[x]
      /\ g \in Seq(Char) /\ Len(g) = n /\ \A x \in 1 .. n : g[x] = s[x]
  BY <1>3, UptoIs
<1>9. g # <<>>
  BY <1>7, <1>8
<1>10. \A k \in Starts(q) : k \in Starts(p) /\ k <= m + 1
  <2>1. \A k \in Starts(q) : k \in 1 .. m + 1
    BY <1>8, StartsTyped
  <2>2. \A k \in Starts(q) : k = 1 \/ (k - 1 \in 1 .. m /\ q[k - 1] = "*" /\ k = k - 1 + 1)
    BY <1>3, <1>8 DEF Starts
  <2>3. \A k \in Starts(q) : k \in Starts(p)
    BY <1>3, <1>8, <2>2 DEF Starts
  <2> QED BY <1>3, <2>1, <2>3
<1>11. \A k \in Starts(p) : k <= m + 1 => k <= i
  <2>1. ASSUME NEW k \in Starts(p), k <= m + 1, i < k PROVE FALSE
    BY <1>3, <1>4, <1>5, <1>6, <2>1, PlacedBefore
  <2> QED BY <1>6, <2>1
<1> DEFINE inner == [k \in Starts(q) |-> place[k]]
<1>12. \A k \in Starts(q) : place[k] \in 1 .. n + 1
  <2>1. ASSUME NEW k \in Starts(q) PROVE place[k] <= place[i]
    BY <1>4, <1>10, <1>11, PlacedInOrder
  <2>2. place[i] <= slash
    BY <1>3, <1>6
  <2> QED BY <1>3, <1>6, <1>7, <1>10, <2>1, <2>2
<1>13. inner \in [Starts(q) -> 1 .. Len(g) + 1] /\ inner[1] = 1
  BY <1>4, <1>8, <1>12, StartsTyped DEF Placed
<1>14. ASSUME NEW k \in Starts(q), NEW x \in Piece(q, k)
       PROVE  Fits(q, g, x, place[k] + (x - k), inner)
  <2>1. k \in Starts(p) /\ k <= i /\ k \in 1 .. m + 1 /\ x \in k .. m + 1
    BY <1>3, <1>8, <1>10, <1>11, StartsTyped
  <2>2. x \in Piece(p, k)
    <3>1. \A y \in k .. x - 1 : q[y] # "*" /\ y \in 1 .. m
      BY <1>3, <2>1 DEF Piece
    <3> QED BY <1>3, <1>8, <2>1, <3>1 DEF Piece
  <2>3. Fits(p, s, x, place[k] + (x - k), place)
    BY <1>4, <2>1, <2>2 DEF Placed
  <2>4. place[k] + (x - k) \in Nat /\ place[k] + (x - k) > 0 /\ place[k] \in Nat
    BY <1>3, <1>6, <2>1
  <2>5. CASE x = m + 1
    <3>1. k = i
      BY <1>3, <1>4, <1>5, <1>6, <2>1, <2>2, <2>5, PlacedBefore
    <3>2. slash = n + 1 \/ (slash <= n /\ g[slash] = "/")
      BY <1>3, <1>7, <1>8
    <3>3. place[k] + (x - k) = slash
      BY <2>5, <3>1
    <3> HIDE DEF slash
    <3>4. Fits(q, g, x, slash, inner)
      BY <1>3, <1>8, <2>5, <3>2 DEF Fits
    <3> QED BY <3>3, <3>4
  <2>6. CASE x <= m /\ p[x] = "*"
    <3>1. x \in DOMAIN q
      BY <1>3, <1>8, <2>1, <2>6
    <3>2. x + 1 \in Starts(q)
      <4>1. q[x] = "*"
        BY <1>3, <1>8, <2>1, <2>6
      <4> QED BY ONLY <3>1, <4>1 DEF Starts
    <3> QED BY <1>3, <1>8, <2>1, <2>3, <2>6, <3>1, <3>2 DEF Fits
  <2>7. CASE x <= m /\ p[x] # "*"
    <3>1. place[k] + (x - k) < slash
      <4>1. CASE k = i
        BY <1>3, <1>6, <2>1, <2>7, <4>1
      <4>2. CASE k < i
        <5>1. place[k] + (x - k) < place[i]
          BY <1>4, <2>1, <2>2, <2>7, <4>2, PlacedBefore
        <5> QED BY <1>3, <1>6, <2>4, <5>1
      <4> QED BY <1>6, <2>1, <4>1, <4>2
    <3>2. place[k] + (x - k) \in 1 .. n
      BY <1>3, <1>7, <2>4, <3>1
    <3>3. p[x] \in {"?", s[place[k] + (x - k)]}
      BY <1>3, <2>1, <2>3, <2>7 DEF Fits
    <3>4. g[place[k] + (x - k)] = s[place[k] + (x - k)] /\ q[x] = p[x] /\ ~(x > m)
      BY <1>3, <1>8, <2>1, <2>7, <3>2
    <3>5. place[k] + (x - k) <= n
      BY <3>2
    <3> HIDE DEF q, g, inner
    <3> DEFINE here == place[k] + (x - k)
    <3>6. here <= n /\ p[x] \in {"?", s[here]} /\ g[here] = s[here]
      BY <3>3, <3>4, <3>5
    <3> HIDE DEF here
    <3>7. Fits(q, g, x, here, inner)
      BY <1>8, <2>7, <3>4, <3>6 DEF Fits
    <3> QED BY <3>7 DEF here
  <2> QED BY <1>3, <2>1, <2>5, <2>6, <2>7
<1>15. Placed(q, g, inner)
  BY <1>13, <1>14 DEF Placed
<1> QED BY <1>1, <1>2, <1>9, <1>15, MatchIs

-----------------------------------------------------------------------------
(* The places are found from the end of the pattern on.                    *)
Backwards(p, s, n, f) == f = [i \in Len(p) + 1 - n .. Len(p) + 1 |-> From(p, s, i, f[i + 1])]

LEMMA EndIsFound ==
  ASSUME NEW p \in Seq(Char), NEW s \in Seq(Char), NEW u, NEW v
  PROVE  From(p, s, Len(p) + 1, u) = From(p, s, Len(p) + 1, v)
<1>1. Len(p) \in Nat /\ Len(p) + 1 > Len(p)
  OBVIOUS
<1> QED BY <1>1 DEF From

LEMMA FoundBackwards ==
  ASSUME NEW p \in Seq(Char), NEW s \in Seq(Char), NEW n \in 0 .. Len(p)
  PROVE  \E f : Backwards(p, s, n, f)
<1> DEFINE S == {m \in 0 .. Len(p) : \E f : Backwards(p, s, m, f)}
<1>1. Len(p) \in Nat
  OBVIOUS
<1>2. 0 \in S
  <2> DEFINE f == [i \in {Len(p) + 1} |-> From(p, s, i, {})]
  <2>1. f = [i \in {Len(p) + 1} |-> From(p, s, i, f[i + 1])]
    BY EndIsFound
  <2>2. Len(p) + 1 - 0 .. Len(p) + 1 = {Len(p) + 1}
    BY <1>1
  <2> HIDE DEF f
  <2>3. Backwards(p, s, 0, f)
    BY <2>1, <2>2 DEF Backwards
  <2> QED BY <1>1, <2>3
<1>3. ASSUME NEW m \in 0 .. Len(p) - 1, m \in S PROVE m + 1 \in S
  <2> DEFINE a == Len(p) - m
  <2>1. a \in 1 .. Len(p) /\ Len(p) + 1 - m = a + 1 /\ Len(p) + 1 - (m + 1) = a /\ m + 1 \in 0 .. Len(p)
    BY <1>1
  <2> HIDE DEF a
  <2>2. PICK f : f = [i \in a + 1 .. Len(p) + 1 |-> From(p, s, i, f[i + 1])]
    BY <1>3, <2>1 DEF Backwards
  <2> DEFINE g == [i \in a .. Len(p) + 1 |-> IF i = a THEN From(p, s, a, f[a + 1]) ELSE f[i]]
  <2>3. \A i \in a .. Len(p) + 1 : g[i] = From(p, s, i, g[i + 1])
    <3> SUFFICES ASSUME NEW i \in a .. Len(p) + 1 PROVE g[i] = From(p, s, i, g[i + 1])
      OBVIOUS
    <3>1. CASE i = a
      <4>1. a + 1 \in a .. Len(p) + 1 /\ a + 1 # a /\ a \in a .. Len(p) + 1
        BY <1>1, <2>1
      <4>2. g[a + 1] = f[a + 1] /\ g[a] = From(p, s, a, f[a + 1])
        BY <4>1
      <4> QED BY <3>1, <4>2
    <3>2. CASE i \in a + 1 .. Len(p)
      <4>1. i + 1 \in a .. Len(p) + 1 /\ i + 1 # a /\ i # a /\ i \in a + 1 .. Len(p) + 1
        BY <1>1, <2>1, <3>2
      <4>2. g[i + 1] = f[i + 1] /\ g[i] = f[i]
        BY <4>1
      <4>3. f[i] = From(p, s, i, f[i + 1])
        BY <2>2, <4>1
      <4> QED BY <4>2, <4>3
    <3>3. CASE i = Len(p) + 1
      <4>1. i # a /\ i \in a + 1 .. Len(p) + 1
        BY <1>1, <2>1, <3>3
      <4>2. g[i] = f[i] /\ f[i] = From(p, s, i, f[i + 1])
        BY <2>2, <4>1
      <4>3. From(p, s, i, f[i + 1]) = From(p, s, i, g[i + 1])
        BY <3>3, EndIsFound
      <4> QED BY <4>2, <4>3
    <3>4. i = a \/ i \in a + 1 .. Len(p) \/ i = Len(p) + 1
      BY <1>1, <2>1
    <3> HIDE DEF g
    <3> QED BY <3>1, <3>2, <3>3, <3>4
  <2>4. DOMAIN g = a .. Len(p) + 1 /\ g = [i \in a .. Len(p) + 1 |-> g[i]]
    OBVIOUS
  <2> HIDE DEF g
  <2>5. g = [i \in a .. Len(p) + 1 |-> From(p, s, i, g[i + 1])]
    BY <2>3, <2>4
  <2>6. Backwards(p, s, m + 1, g)
    BY <2>1, <2>5 DEF Backwards
  <2> QED BY <2>1, <2>6
<1>4. 0 \in Nat /\ Len(p) \in Nat
  OBVIOUS
<1> HIDE DEF S
<1>5. \A x \in 0 .. Len(p) : x \in S
  BY <1>2, <1>3, <1>4, Ladder
<1> QED BY <1>5 DEF S

(* What wildmatch finds is what it finds out place by place.               *)
LEMMA WildmatchIs ==
  ASSUME NEW p \in Seq(Char), NEW s \in Seq(Char)
  PROVE  \E f : /\ f \in [1 .. Len(p) + 1 -> SUBSET (1 .. Len(s) + 1)]
                /\ \A i \in 1 .. Len(p) + 1 : f[i] = From(p, s, i, f[i + 1])
                /\ Wildmatch(p, s) <=> 1 \in f[1]
<1> DEFINE from[i \in 1 .. Len(p) + 1] == From(p, s, i, from[i + 1])
<1>1. Len(p) \in 0 .. Len(p) /\ Len(p) + 1 - Len(p) = 1
  OBVIOUS
<1>2. PICK f : f = [i \in 1 .. Len(p) + 1 |-> From(p, s, i, f[i + 1])]
  BY <1>1, FoundBackwards DEF Backwards
<1>3. from = [i \in 1 .. Len(p) + 1 |-> From(p, s, i, from[i + 1])]
  BY <1>2
<1>4. Wildmatch(p, s) <=> 1 \in from[1]
  BY DEF Wildmatch
<1> HIDE DEF from
<1>5. \A i \in 1 .. Len(p) + 1 : from[i] = From(p, s, i, from[i + 1])
  BY <1>3
<1>6. \A i \in 1 .. Len(p) + 1 : From(p, s, i, from[i + 1]) \in SUBSET (1 .. Len(s) + 1)
  BY DEF From
<1>7. from \in [1 .. Len(p) + 1 -> SUBSET (1 .. Len(s) + 1)]
  BY <1>3, <1>5, <1>6
<1> QED BY <1>4, <1>5, <1>7

(* A place in a pattern is in one piece.                                   *)
LEMMA OnePiece ==
  ASSUME NEW p \in Seq(Char), NEW a \in Starts(p), NEW b \in Starts(p),
         NEW x \in Piece(p, a), x \in Piece(p, b)
  PROVE  a = b
<1>1. a \in 1 .. Len(p) + 1 /\ b \in 1 .. Len(p) + 1 /\ Len(p) \in Nat
      /\ x \in a .. Len(p) + 1 /\ x \in b .. Len(p) + 1
  BY StartsTyped
<1>2. CASE a < b
  <2>1. p[b - 1] = "*" /\ b - 1 \in a .. x - 1
    BY <1>1, <1>2 DEF Starts
  <2> QED BY <2>1 DEF Piece
<1>3. CASE b < a
  <2>1. p[a - 1] = "*" /\ a - 1 \in b .. x - 1
    BY <1>1, <1>3 DEF Starts
  <2> QED BY <2>1 DEF Piece
<1> QED BY <1>1, <1>2, <1>3

(* From one place in a pattern to the next.                                *)
LEMMA PieceGoesOn ==
  ASSUME NEW p \in Seq(Char), NEW a \in Starts(p), NEW x \in Piece(p, a), x <= Len(p)
  PROVE  /\ x \in 1 .. Len(p) /\ x + 1 \in 1 .. Len(p) + 1
         /\ p[x] # "*" => x + 1 \in Piece(p, a)
         /\ p[x] = "*" => x + 1 \in Starts(p) /\ x + 1 \in Piece(p, x + 1)
<1>1. a \in 1 .. Len(p) + 1 /\ Len(p) \in Nat /\ x \in a .. Len(p) + 1
  BY StartsTyped
<1>2. x \in 1 .. Len(p) /\ x + 1 \in 1 .. Len(p) + 1 /\ x + 1 \in a .. Len(p) + 1
  BY <1>1
<1>3. ASSUME p[x] # "*" PROVE x + 1 \in Piece(p, a)
  <2>1. \A y \in a .. (x + 1) - 1 : y = x \/ y \in a .. x - 1
    BY <1>1
  <2> QED BY <1>2, <1>3, <2>1 DEF Piece
<1>4. p[x] = "*" => x + 1 \in Starts(p)
  BY <1>2 DEF Starts
<1> QED BY <1>2, <1>3, <1>4, StartsTyped

(* Where the pieces are, wildmatch finds them.                             *)
LEMMA PlacedIsFound ==
  ASSUME NEW p \in Seq(Char), NEW s \in Seq(Char), NEW place, Placed(p, s, place),
         NEW f, \A i \in 1 .. Len(p) + 1 : f[i] = From(p, s, i, f[i + 1])
  PROVE  1 \in f[1]
<1> DEFINE Right(i) == \A a \in Starts(p) : i \in Piece(p, a) => place[a] + (i - a) \in f[i]
           S == {n \in 0 .. Len(p) : Right(Len(p) + 1 - n)}
<1>1. Len(p) \in Nat /\ Len(s) \in Nat /\ \A a \in Starts(p) : place[a] \in 1 .. Len(s) + 1
  BY DEF Placed
<1>2. ASSUME NEW i \in 1 .. Len(p) + 1, i <= Len(p) => Right(i + 1) PROVE Right(i)
  <2> SUFFICES ASSUME NEW a \in Starts(p), i \in Piece(p, a) PROVE place[a] + (i - a) \in f[i]
    OBVIOUS
  <2> DEFINE k == place[a] + (i - a)
  <2>1. Fits(p, s, i, k, place) /\ a \in 1 .. Len(p) + 1 /\ i \in a .. Len(p) + 1
    BY StartsTyped DEF Placed
  <2>2. k \in Nat /\ k >= 1 /\ k + 1 = place[a] + ((i + 1) - a)
    BY <1>1, <2>1
  <2> HIDE DEF k
  <2>3. CASE i > Len(p)
    <3>1. k \in 1 .. Len(s) + 1 /\ (k > Len(s) \/ s[k] = "/")
      BY <1>1, <2>1, <2>2, <2>3 DEF Fits
    <3>2. k \in From(p, s, i, f[i + 1])
      BY <2>3, <3>1 DEF From
    <3> QED BY <3>2 DEF k
  <2>4. CASE i <= Len(p) /\ p[i] = "*"
    <3>1. i + 1 \in Starts(p) /\ i + 1 \in Piece(p, i + 1) /\ i + 1 \in 1 .. Len(p) + 1 /\ i \in 1 .. Len(p)
      BY <2>4, PieceGoesOn
    <3>2. place[i + 1] + ((i + 1) - (i + 1)) \in f[i + 1]
      BY <1>2, <2>4, <3>1
    <3>3. place[i + 1] \in f[i + 1] /\ k <= place[i + 1]
      BY <1>1, <2>1, <2>4, <3>1, <3>2 DEF Fits
    <3>4. k \in 1 .. Len(s) + 1
      BY <1>1, <2>2, <3>1, <3>3
    <3>5. CASE place[i + 1] <= Len(s)
      <4>1. place[i + 1] \in f[i + 1] \cap k .. Len(s)
        BY <1>1, <2>2, <3>1, <3>3, <3>5
      <4>2. k \in From(p, s, i, f[i + 1])
        BY <1>1, <2>4, <3>1, <3>4, <4>1 DEF From
      <4> QED BY <4>2 DEF k
    <3>6. CASE place[i + 1] > Len(s)
      <4>1. place[i + 1] = Len(s) + 1 /\ Len(s) + 1 \in From(p, s, i + 1, f[(i + 1) + 1])
        BY <1>1, <3>1, <3>3, <3>6
      <4>2. i + 1 <= Len(p) => \A x \in i + 1 .. Len(p) : p[x] = "*"
        <5>1. f[(i + 1) + 1] \cap Len(s) + 1 .. Len(s) = {} /\ ~(Len(s) + 1 <= Len(s))
          BY <1>1
        <5>2. i + 1 <= Len(p) => ~(i + 1 > Len(p))
          BY <1>1, <3>1
        <5> QED BY <4>1, <5>1, <5>2 DEF From
      <4>3. \A x \in i .. Len(p) : x = i \/ x \in i + 1 .. Len(p)
        BY <3>1
      <4>4. \A x \in i .. Len(p) : p[x] = "*"
        BY <2>4, <4>2, <4>3, <3>1, <1>1
      <4>5. k \in From(p, s, i, f[i + 1])
        BY <1>1, <2>4, <3>1, <3>4, <4>4 DEF From
      <4> QED BY <4>5 DEF k
    <3> QED BY <1>1, <3>1, <3>5, <3>6
  <2>5. CASE i <= Len(p) /\ p[i] # "*"
    <3>1. i + 1 \in Piece(p, a) /\ i \in 1 .. Len(p)
      BY <2>5, PieceGoesOn
    <3>2. k + 1 \in f[i + 1]
      BY <1>2, <2>2, <2>5, <3>1
    <3>3. k <= Len(s) /\ p[i] \in {"?", s[k]} /\ ~(i > Len(p))
      BY <1>1, <2>1, <2>5, <3>1 DEF Fits
    <3>4. k \in 1 .. Len(s) + 1
      BY <1>1, <2>2, <3>3
    <3>5. k \in From(p, s, i, f[i + 1])
      BY <2>5, <3>2, <3>3, <3>4 DEF From
    <3> QED BY <3>5 DEF k
  <2> QED BY <1>1, <2>3, <2>4, <2>5
<1> HIDE DEF Right
<1>3. 0 \in S
  BY <1>1, <1>2
<1>4. ASSUME NEW n \in 0 .. Len(p) - 1, n \in S PROVE n + 1 \in S
  <2>1. /\ n + 1 \in 0 .. Len(p) /\ Len(p) + 1 - (n + 1) \in 1 .. Len(p) + 1
        /\ (Len(p) + 1 - (n + 1)) + 1 = Len(p) + 1 - n
    BY <1>1
  <2> QED BY <1>2, <1>4, <2>1
<1>5. Right(1)
  <2> HIDE DEF S
  <2>1. \A n \in 0 .. Len(p) : n \in S
    BY <1>1, <1>3, <1>4, Ladder
  <2>2. Len(p) \in 0 .. Len(p) /\ Len(p) + 1 - Len(p) = 1
    BY <1>1
  <2> QED BY <2>1, <2>2 DEF S
<1>6. 1 \in Starts(p) /\ 1 \in Piece(p, 1) /\ place[1] + (1 - 1) = 1
  BY StartsTyped DEF Placed
<1> QED BY <1>5, <1>6 DEF Right

(* Where wildmatch finds a match, the pieces have places: those before i   *)
(* are placed, and what follows is found from there on.                    *)
PlacedTo(p, s, f, i, place) ==
  /\ place \in [Starts(p) -> 1 .. Len(s) + 1] /\ place[1] = 1
  /\ \A a \in Starts(p) : \A x \in Piece(p, a) : x < i => Fits(p, s, x, place[a] + (x - a), place)
  /\ \E a \in Starts(p) : i \in Piece(p, a) /\ place[a] + (i - a) \in f[i]

LEMMA FoundIsPlaced ==
  ASSUME NEW p \in Seq(Char), NEW s \in Seq(Char), NEW f, 1 \in f[1],
         f \in [1 .. Len(p) + 1 -> SUBSET (1 .. Len(s) + 1)],
         \A i \in 1 .. Len(p) + 1 : f[i] = From(p, s, i, f[i + 1])
  PROVE  \E place : Placed(p, s, place)
<1> DEFINE S == {i \in 1 .. Len(p) + 1 : \E place : PlacedTo(p, s, f, i, place)}
<1>1. Len(p) \in Nat /\ Len(s) \in Nat
  OBVIOUS
<1>2. 1 \in S
  <2> DEFINE place == [a \in Starts(p) |-> 1]
  <2>1. 1 \in Starts(p) /\ 1 \in Piece(p, 1) /\ 1 \in 1 .. Len(s) + 1 /\ 1 + (1 - 1) = 1 /\ 1 \in 1 .. Len(p) + 1
    BY <1>1, StartsTyped
  <2>2. \A a \in Starts(p) : \A x \in Piece(p, a) : ~(x < 1)
    BY StartsTyped
  <2>3. PlacedTo(p, s, f, 1, place)
    BY <2>1, <2>2 DEF PlacedTo
  <2> QED BY <2>1, <2>3
<1>3. ASSUME NEW i \in 1 .. (Len(p) + 1) - 1, i \in S PROVE i + 1 \in S
  <2>1. PICK place : PlacedTo(p, s, f, i, place)
    BY <1>3
  <2>2. PICK a \in Starts(p) : i \in Piece(p, a) /\ place[a] + (i - a) \in f[i]
    BY <2>1 DEF PlacedTo
  <2> DEFINE k == place[a] + (i - a)
  <2>3. i \in 1 .. Len(p) /\ i \in 1 .. Len(p) + 1 /\ ~(i > Len(p)) /\ i + 1 \in 1 .. Len(p) + 1 /\ a <= i /\ a \in Nat
    BY <1>1, <2>2, StartsTyped
  <2>4. k \in From(p, s, i, f[i + 1]) /\ k \in 1 .. Len(s) + 1 /\ place[a] \in Nat
    <3>1. f[i] = From(p, s, i, f[i + 1]) /\ f[i] \subseteq 1 .. Len(s) + 1
      BY <2>3
    <3>2. place \in [Starts(p) -> 1 .. Len(s) + 1]
      BY <2>1 DEF PlacedTo
    <3>3. place[a] \in Nat
      BY <1>1, <3>2
    <3> HIDE DEF k
    <3>4. k \in f[i]
      BY <2>2 DEF k
    <3> QED BY <3>1, <3>3, <3>4
  <2>5. CASE p[i] # "*"
    <3>1. k <= Len(s) /\ p[i] \in {"?", s[k]} /\ k + 1 \in f[i + 1]
      <4> HIDE DEF k
      <4> QED BY <2>3, <2>4, <2>5 DEF From
    <3>2. i + 1 \in Piece(p, a) /\ k + 1 = place[a] + ((i + 1) - a)
      BY <2>2, <2>3, <2>4, <2>5, PieceGoesOn
    <3>3. Fits(p, s, i, k, place)
      BY <2>3, <2>5, <3>1 DEF Fits
    <3>4. ASSUME NEW b \in Starts(p), NEW x \in Piece(p, b), x < i + 1
          PROVE  Fits(p, s, x, place[b] + (x - b), place)
      <4>1. CASE x = i
        BY <2>2, <3>3, <4>1, OnePiece
      <4>2. CASE x < i
        BY <2>1, <4>2 DEF PlacedTo
      <4>3. x \in Int /\ i \in Int
        BY <2>3, StartsTyped
      <4> QED BY <3>4, <4>1, <4>2, <4>3
    <3>5. place[a] + ((i + 1) - a) \in f[i + 1]
      BY <3>1, <3>2
    <3>6. PlacedTo(p, s, f, i + 1, place)
      BY <2>1, <3>2, <3>4, <3>5 DEF PlacedTo
    <3> QED BY <2>3, <3>6
  <2>6. CASE p[i] = "*"
    <3>1. \E l \in f[i + 1] : l \in 1 .. Len(s) + 1 /\ k <= l
      <4> HIDE DEF k
      <4>1. CASE f[i + 1] \cap k .. Len(s) # {}
        <5>1. PICK l \in f[i + 1] : l \in k .. Len(s)
          BY <4>1
        <5> QED BY <1>1, <2>4, <5>1
      <4>2. CASE \A x \in i .. Len(p) : p[x] = "*"
        <5> DEFINE l == Len(s) + 1
        <5>1. l \in 1 .. Len(s) + 1 /\ k <= l /\ l > Len(s)
          BY <1>1, <2>4
        <5>2. i + 1 <= Len(p) => p[i + 1] = "*" /\ \A x \in i + 1 .. Len(p) : p[x] = "*"
          BY <1>1, <2>3, <4>2
        <5>3. (i + 1 <= Len(p)) \/ i + 1 > Len(p)
          BY <1>1, <2>3
        <5> HIDE DEF l
        <5>4. l \in From(p, s, i + 1, f[(i + 1) + 1])
          <6>1. CASE i + 1 > Len(p)
            BY <5>1, <6>1 DEF From
          <6>2. CASE ~(i + 1 > Len(p))
            BY <5>1, <5>2, <5>3, <6>2 DEF From
          <6> QED BY <6>1, <6>2
        <5> QED BY <2>3, <5>1, <5>4
      <4> QED BY <2>3, <2>4, <2>6, <4>1, <4>2 DEF From
    <3>2. PICK l \in f[i + 1] : l \in 1 .. Len(s) + 1 /\ k <= l
      BY <3>1
    <3> DEFINE found == [place EXCEPT ![i + 1] = l]
    <3>3. i + 1 \in Starts(p) /\ i + 1 \in Piece(p, i + 1) /\ i + 1 # 1
      BY <2>2, <2>3, <2>6, PieceGoesOn
    <3>4. /\ found \in [Starts(p) -> 1 .. Len(s) + 1] /\ found[1] = 1 /\ found[i + 1] = l
          /\ \A b \in Starts(p) : b # i + 1 => found[b] = place[b]
      BY <2>1, <3>2, <3>3, StartsTyped DEF PlacedTo
    <3> HIDE DEF found
    <3>5. ASSUME NEW b \in Starts(p), NEW x \in Piece(p, b), x < i + 1
          PROVE  Fits(p, s, x, found[b] + (x - b), found)
      <4>2. found[b] = place[b] /\ x \in Nat /\ b \in Nat
        BY <2>3, <3>4, <3>5, StartsTyped
      <4>3. CASE x = i
        <5>1. b = a
          BY <2>2, <4>3, OnePiece
        <5>2. found[x + 1] = l /\ found[b] + (x - b) = k
          BY <3>4, <4>2, <4>3, <5>1
        <5> HIDE DEF k
        <5> QED BY <2>3, <2>6, <3>2, <4>3, <5>2 DEF Fits
      <4>4. CASE x < i
        <5>1. Fits(p, s, x, place[b] + (x - b), place)
          BY <2>1, <4>4 DEF PlacedTo
        <5>2. ~(x > Len(p)) /\ x <= Len(p) /\ x + 1 # i + 1
          BY <2>3, <4>2, <4>4, <1>1
        <5>3. p[x] = "*" => x + 1 \in Starts(p)
          BY <5>2, PieceGoesOn
        <5>4. p[x] = "*" => found[x + 1] = place[x + 1]
          BY <3>4, <5>2, <5>3
        <5> QED BY <4>2, <5>1, <5>2, <5>4 DEF Fits
      <4> QED BY <2>3, <3>5, <4>2, <4>3, <4>4
    <3>6. found[i + 1] + ((i + 1) - (i + 1)) \in f[i + 1]
      BY <2>3, <3>2, <3>4
    <3>7. PlacedTo(p, s, f, i + 1, found)
      BY <3>3, <3>4, <3>5, <3>6 DEF PlacedTo
    <3> QED BY <2>3, <3>7
  <2> QED BY <2>5, <2>6
<1>4. Len(p) + 1 \in S
  <2>1. 1 \in Nat /\ Len(p) + 1 \in Nat /\ Len(p) + 1 \in 1 .. Len(p) + 1
    BY <1>1
  <2> HIDE DEF S
  <2> QED BY <1>2, <1>3, <2>1, Ladder
<1>5. PICK place : PlacedTo(p, s, f, Len(p) + 1, place)
  BY <1>4
<1> DEFINE e == Len(p) + 1
<1>6. PICK a \in Starts(p) : e \in Piece(p, a) /\ place[a] + (e - a) \in f[e]
  <2> HIDE DEF e
  <2>1. PlacedTo(p, s, f, e, place)
    BY <1>5 DEF e
  <2> QED BY ONLY <2>1 DEF PlacedTo
<1> DEFINE k == place[a] + (e - a)
<1>7. k \in From(p, s, Len(p) + 1, f[(Len(p) + 1) + 1])
  BY <1>1, <1>6
<1> HIDE DEF k
<1>8. Fits(p, s, Len(p) + 1, k, place)
  BY <1>1, <1>7 DEF From, Fits
<1>9. ASSUME NEW b \in Starts(p), NEW x \in Piece(p, b)
      PROVE  Fits(p, s, x, place[b] + (x - b), place)
  <2>1. x \in 1 .. Len(p) + 1
    BY StartsTyped
  <2>2. CASE x = Len(p) + 1
    <3>1. b = a
      BY <1>6, <2>2, OnePiece
    <3> QED BY <1>8, <2>2, <3>1 DEF k
  <2>3. CASE x < Len(p) + 1
    BY <1>5, <2>3 DEF PlacedTo
  <2> QED BY <1>1, <2>1, <2>2, <2>3
<1> QED BY <1>5, <1>9 DEF PlacedTo, Placed

(* For any pattern of characters, * and ?, and any string: the pieces of   *)
(* the pattern have places in the string, which is what Match says, just   *)
(* when wildmatch finds a match, though it tries a star at every place     *)
(* but the last and one at the end at none (wildmatch.c:69-162).           *)
THEOREM WildmatchFindsPlaces ==
  ASSUME NEW p \in Seq(Char), NEW s \in Seq(Char)
  PROVE  Match(p, s) <=> Wildmatch(p, s)
<1>1. PICK f : /\ f \in [1 .. Len(p) + 1 -> SUBSET (1 .. Len(s) + 1)]
               /\ \A i \in 1 .. Len(p) + 1 : f[i] = From(p, s, i, f[i + 1])
               /\ Wildmatch(p, s) <=> 1 \in f[1]
  BY WildmatchIs
<1>2. ASSUME NEW place, Placed(p, s, place) PROVE 1 \in f[1]
  BY <1>1, <1>2, PlacedIsFound
<1>3. 1 \in f[1] => \E place : Placed(p, s, place)
  BY <1>1, FoundIsPlaced
<1> QED BY <1>1, <1>2, <1>3, MatchIs

-----------------------------------------------------------------------------
(***************************************************************************)
(* add.  Between two steps the files staged so far are those the patterns  *)
(* before this one ask for, and of this one those in no directory that is  *)
(* still to be listed.                                                     *)
(***************************************************************************)
WantedIn(F, C, p) == {f \in F : Names(f) \cap C = {} /\ (p = All \/ Match(p, f))}
FolderIn(F, d) == \E f \in F : Within(d, f)
Ahead(D, f) == \E d \in D : Within(d, f)

Current == args[arg]
Sought == WantedIn(files, closed, args[arg])
Earlier == UNION {WantedIn(files, closed, args[i]) : i \in 1 .. arg - 1}

TreeInv == files \subseteq FilePath /\ \A f, g \in files : ~Within(f, g)
LineInv == args \in Seq(Pattern) /\ arg \in 1 .. Len(args)
EarlierInv == \A i \in 1 .. arg - 1 : WantedIn(files, closed, args[i]) # {}
StartInv == phase = "start" => matches = Earlier
DescendInv ==
  phase = "descend" =>
    /\ matches = Earlier /\ matched = FALSE /\ pat = Current
    /\ at \in {0} \cup Ends(pat)
    /\ \A x \in 1 .. at : pat[x] \notin Wildcard
    /\ \A n \in Ends(pat) : n <= at => Upto(pat, n) \notin closed
    /\ at > 0 => FolderIn(files, Upto(pat, at))
WalkInv ==
  phase = "walk" =>
    /\ \A d \in open : Names(d) \cap closed = {}
    /\ \/ pat = Current
       \/ /\ pat = All
          /\ \A f \in files : Ahead(open, f) => Current = All \/ Match(Current, f)
    /\ Earlier \subseteq matches /\ matches \subseteq Earlier \cup Sought
    /\ matched \in BOOLEAN /\ (matched => Sought # {})
    /\ \A f \in Sought : Ahead(open, f) \/ (f \in matches /\ matched)
EndInv ==
  /\ phase = "threw" => Sought = {}
  /\ phase = "staged" => arg = Len(args) /\ matches = Earlier \cup Sought /\ Sought # {}
PathInv == TreeInv /\ LineInv /\ EarlierInv /\ StartInv /\ DescendInv /\ WalkInv /\ EndInv

LEMMA SameTree ==
  ASSUME TreeInv, LineInv, EarlierInv, UNCHANGED <<tree, line>>
  PROVE  /\ TreeInv' /\ LineInv' /\ EarlierInv'
         /\ Earlier' = Earlier /\ Sought' = Sought /\ Current' = Current
         /\ files' = files /\ closed' = closed /\ args' = args /\ arg' = arg
BY DEF TreeInv, LineInv, EarlierInv, Earlier, Sought, Current, tree, line

LEMMA FileTyped ==
  ASSUME TreeInv, NEW f \in files
  PROVE  f \in Seq(Char) /\ f # <<>> /\ f[1] # "/"
BY PathspecAssumption DEF TreeInv

LEMMA CurrentTyped ==
  ASSUME LineInv
  PROVE  Current \in Seq(Char)
<1>1. args[arg] \in Pattern
  BY DEF LineInv
<1> QED BY <1>1, PathspecAssumption DEF Current

LEMMA PathInvStart ==
  ASSUME PathInv, Start
  PROVE  PathInv'
<1>1. /\ TreeInv' /\ LineInv' /\ EarlierInv'
      /\ Earlier' = Earlier /\ Current' = Current
  BY SameTree DEF PathInv, Start
<1>2. DescendInv'
  <2>1. Current \in Seq(Char) /\ phase = "start"
    BY CurrentTyped DEF PathInv, Start
  <2>2. /\ phase' = "descend" /\ at' = 0 /\ pat' = Current /\ matched' = FALSE
        /\ matches' = Earlier'
    BY <1>1, <2>1 DEF PathInv, Start, StartInv, Current
  <2>3. \A n \in Ends(Current) : ~(n <= 0)
    BY <2>1, EndsTyped
  <2> QED BY <1>1, <2>2, <2>3 DEF DescendInv
<1>3. StartInv' /\ WalkInv' /\ EndInv'
  BY DEF Start, StartInv, WalkInv, EndInv
<1> QED BY <1>1, <1>2, <1>3 DEF PathInv

(* All below a directory the pattern names literally is wanted.            *)
LEMMA PathInvDescendDone ==
  ASSUME PathInv, DescendDone
  PROVE  PathInv'
<1>1. /\ TreeInv' /\ LineInv' /\ EarlierInv' /\ files' = files
      /\ Earlier' = Earlier /\ Current' = Current /\ Sought' = Sought
  BY SameTree DEF PathInv, DescendDone
<1>2. /\ Current \in Seq(Char) /\ pat = Current /\ at = Len(pat) /\ Len(pat) \in Nat
      /\ \A x \in 1 .. at : pat[x] \notin Wildcard
      /\ \A n \in Ends(pat) : n <= at => Upto(pat, n) \notin closed
      /\ at > 0 => FolderIn(files, Upto(pat, at))
      /\ matches = Earlier /\ matched = FALSE
  BY CurrentTyped DEF PathInv, DescendDone, DescendInv
<1>3. /\ Upto(pat, at) = pat /\ phase' = "walk" /\ open' = {pat} /\ pat' = All
      /\ matched' = matched /\ matches' = matches
  BY <1>2, UptoAll DEF DescendDone, Walk
<1>4. Names(pat) \cap closed' = {}
  <2>1. \A n \in Ends(pat) : Upto(pat, n) \notin closed
    BY <1>2, EndsTyped
  <2> QED BY <2>1 DEF Names, DescendDone, tree
<1>5. ASSUME NEW f \in files, Within(pat, f) PROVE Current = All \/ Match(Current, f)
  <2>1. f \in Seq(Char)
    BY FileTyped DEF PathInv
  <2> QED BY <1>2, <1>5, <2>1, LiteralMatches DEF All
<1>6. ASSUME NEW f \in Sought PROVE Within(pat, f)
  <2>1. f \in files /\ f \in Seq(Char) /\ f # <<>> /\ (Current = All \/ Match(Current, f))
    BY FileTyped DEF PathInv, Sought, WantedIn, Current
  <2>2. CASE Current = All
    BY <1>2, <2>1, <2>2 DEF Within, All
  <2>3. CASE Current # All
    <3>1. Len(pat) \in Ends(pat) /\ Len(pat) > 0
      BY <1>2, <2>3, EndsTyped DEF All
    <3>2. Len(pat) \in {0} \cup Ends(f) /\ Upto(f, Len(pat)) = Upto(pat, Len(pat))
      BY <1>2, <2>1, <2>3, <3>1, LiteralPrefix
    <3>3. Len(pat) \in Ends(f) /\ Upto(f, Len(pat)) = pat
      BY <1>2, <3>1, <3>2, UptoAll
    <3>4. Len(f) \in Nat /\ Len(pat) <= Len(f)
      BY <2>1, <3>3, EndsTyped
    <3>5. CASE Len(pat) = Len(f)
      <4>1. pat = f
        BY <2>1, <3>3, <3>5, UptoAll
      <4>2. \E g \in files : Within(pat, g)
        BY <1>2, <1>3, <3>1 DEF FolderIn
      <4> QED BY <2>1, <4>1, <4>2 DEF PathInv, TreeInv
    <3>6. CASE Len(pat) < Len(f)
      BY <2>1, <3>3, <3>6, WithinIs
    <3> QED BY <1>2, <3>4, <3>5, <3>6
  <2> QED BY <2>2, <2>3
<1>7. WalkInv'
  <2>1. \A f \in files : Ahead(open', f) <=> Within(pat, f)
    BY <1>3 DEF Ahead
  <2>2. \A f \in Sought : Ahead(open', f)
    BY <1>6, <2>1 DEF Sought, WantedIn
  <2> QED BY <1>1, <1>2, <1>3, <1>4, <1>5, <2>1, <2>2 DEF WalkInv
<1>8. StartInv' /\ DescendInv' /\ EndInv'
  BY <1>3 DEF StartInv, DescendInv, EndInv
<1> QED BY <1>1, <1>7, <1>8 DEF PathInv

(* Where the literal names end, what the pattern matches is all ahead.     *)
LEMMA PathInvDescendWild ==
  ASSUME PathInv, DescendWild
  PROVE  PathInv'
<1>1. /\ TreeInv' /\ LineInv' /\ EarlierInv' /\ files' = files /\ closed' = closed
      /\ Earlier' = Earlier /\ Current' = Current /\ Sought' = Sought
  BY SameTree DEF PathInv, DescendWild
<1>2. /\ Current \in Seq(Char) /\ pat = Current /\ at < Len(pat) /\ Len(pat) \in Nat
      /\ at \in {0} \cup Ends(pat)
      /\ \A x \in 1 .. at : pat[x] \notin Wildcard
      /\ \A n \in Ends(pat) : n <= at => Upto(pat, n) \notin closed
      /\ matches = Earlier /\ matched = FALSE
  BY CurrentTyped DEF PathInv, DescendWild, DescendInv
<1>3. /\ phase' = "walk" /\ open' = {Upto(pat, at)} /\ pat' = pat
      /\ matched' = matched /\ matches' = matches
  BY DEF DescendWild, Walk
<1>4. Names(Upto(pat, at)) \cap closed = {}
  <2>1. CASE at = 0
    <3>1. Upto(pat, at) = <<>> /\ Ends(<<>>) = {}
      BY <1>2, <2>1, UptoAll DEF Ends
    <3> QED BY <3>1 DEF Names
  <2>2. CASE at \in Ends(pat)
    BY <1>2, <2>2, NamesUpto
  <2> QED BY <1>2, <2>1, <2>2
<1>5. ASSUME NEW f \in Sought PROVE Within(Upto(pat, at), f)
  <2>1. f \in files /\ f \in Seq(Char) /\ f # <<>> /\ (Current = All \/ Match(Current, f))
    BY FileTyped DEF PathInv, Sought, WantedIn, Current
  <2>2. Match(pat, f)
    <3>1. pat # <<>>
      <4>1. at \in Nat /\ Len(<<>>) = 0
        BY <1>2, EndsTyped
      <4> QED BY <1>2, <4>1
    <3> QED BY <1>2, <2>1, <3>1 DEF All
  <2>3. at \in {0} \cup Ends(f) /\ Upto(f, at) = Upto(pat, at) /\ at < Len(f)
    BY <1>2, <2>1, <2>2, LiteralPrefix
  <2> QED BY <2>1, <2>3, WithinIs
<1>6. WalkInv'
  <2>1. \A f \in Sought : Ahead(open', f)
    BY <1>3, <1>5 DEF Ahead
  <2> QED BY <1>1, <1>2, <1>3, <1>4, <2>1 DEF WalkInv
<1>7. StartInv' /\ DescendInv' /\ EndInv'
  BY <1>3 DEF StartInv, DescendInv, EndInv
<1> QED BY <1>1, <1>6, <1>7 DEF PathInv

LEMMA LiteralFurther ==
  ASSUME LineInv, DescendInv, phase = "descend", at < Len(pat), Literal(pat, at)
  PROVE  /\ NameAfter(pat, at) \in Ends(pat)
         /\ \A x \in 1 .. NameAfter(pat, at) : pat[x] \notin Wildcard
         /\ \A n \in Ends(pat) : n <= NameAfter(pat, at) => n <= at \/ n = NameAfter(pat, at)
<1>1. /\ pat \in Seq(Char) /\ at \in 0 .. Len(pat) - 1
      /\ \A x \in 1 .. at : pat[x] \notin Wildcard
  <2>1. pat \in Seq(Char) /\ at \in {0} \cup Ends(pat)
    BY CurrentTyped DEF DescendInv
  <2> QED BY <2>1, EndsTyped DEF DescendInv
<1> DEFINE m == NameAfter(pat, at)
<1>2. m \in Ends(pat) /\ at < m /\ \A n \in Ends(pat) : at < n => m <= n
  BY <1>1, NameAfterIs
<1>3. \A x \in at + 1 .. m : pat[x] \notin Wildcard
  BY DEF Literal
<1> HIDE DEF m
<1>4. m \in Nat /\ at \in Nat /\ \A n \in Ends(pat) : n \in Nat
  BY <1>1, <1>2, EndsTyped
<1>5. \A n \in Ends(pat) : n <= m => n <= at \/ n = m
  BY <1>2, <1>4
<1>6. \A x \in 1 .. m : pat[x] \notin Wildcard
  BY <1>1, <1>3, <1>4
<1> QED BY <1>2, <1>5, <1>6 DEF m

LEMMA PathInvDescendFolder ==
  ASSUME PathInv, DescendFolder
  PROVE  PathInv'
<1>1. /\ TreeInv' /\ LineInv' /\ EarlierInv' /\ files' = files /\ closed' = closed
      /\ Earlier' = Earlier /\ Current' = Current /\ Sought' = Sought
  BY SameTree DEF PathInv, DescendFolder
<1> DEFINE m == NameAfter(pat, at)
<1>2. /\ m \in Ends(pat) /\ \A x \in 1 .. m : pat[x] \notin Wildcard
      /\ \A n \in Ends(pat) : n <= m => n <= at \/ n = m
  BY LiteralFurther DEF PathInv, DescendFolder
<1>3. /\ phase' = "descend" /\ at' = m /\ pat' = pat /\ matched' = matched /\ matches' = matches
      /\ Upto(pat, m) \notin closed /\ FolderIn(files, Upto(pat, m)) /\ phase = "descend"
  BY DEF DescendFolder, IsFolder, FolderIn
<1> HIDE DEF m
<1>4. DescendInv'
  BY <1>1, <1>2, <1>3 DEF DescendInv, PathInv
<1>5. StartInv' /\ WalkInv' /\ EndInv'
  BY <1>3 DEF StartInv, WalkInv, EndInv
<1> QED BY <1>1, <1>4, <1>5 DEF PathInv

(* A name that leads to no open directory can only be that of a file.      *)
LEMMA PathInvDescendFile ==
  ASSUME PathInv, DescendFile
  PROVE  PathInv'
<1>1. /\ TreeInv' /\ LineInv' /\ EarlierInv' /\ files' = files /\ closed' = closed
      /\ Earlier' = Earlier /\ Current' = Current /\ Sought' = Sought
  BY SameTree DEF PathInv, DescendFile
<1> DEFINE m == NameAfter(pat, at)
           candidate == Upto(pat, m)
           S == {f \in files \cap {candidate} : FileMatches(f, pat)}
<1>2. /\ m \in Ends(pat) /\ \A x \in 1 .. m : pat[x] \notin Wildcard
      /\ \A n \in Ends(pat) : n <= m => n <= at \/ n = m
  BY LiteralFurther DEF PathInv, DescendFile
<1>3. /\ phase' = "walk" /\ open' = {} /\ pat' = pat /\ phase = "descend"
      /\ matches' = matches \cup S /\ matched' = (matched \/ S # {})
      /\ candidate \in closed \/ ~FolderIn(files, candidate)
  BY DEF DescendFile, EndOfArg, Take, IsFolder, FolderIn
<1>4. /\ Current \in Seq(Char) /\ pat = Current /\ matches = Earlier /\ matched = FALSE
      /\ \A n \in Ends(pat) : n <= at => Upto(pat, n) \notin closed
  BY <1>3, CurrentTyped DEF PathInv, DescendInv
<1> HIDE DEF m
<1>5. /\ Len(pat) \in Nat /\ m \in 0 .. Len(pat) /\ m > 0 /\ candidate \in Seq(Char)
      /\ Len(candidate) = m /\ pat # All
  <2>1. Len(pat) \in Nat /\ m \in 0 .. Len(pat) /\ m > 0
    BY <1>2, <1>4, EndsTyped
  <2> QED BY <1>4, <2>1, UptoIs DEF All
<1>6. ASSUME NEW f \in S PROVE f \in Sought
  <2>1. f \in files /\ f = candidate /\ f \notin closed /\ Match(pat, f)
    BY <1>5 DEF FileMatches
  <2>2. Names(f) = {Upto(pat, n) : n \in {k \in Ends(pat) : k <= m}}
    BY <1>2, <1>4, <2>1, NamesUpto
  <2>3. \A n \in Ends(pat) : n <= m => Upto(pat, n) \notin closed
    BY <1>2, <1>4, <2>1
  <2>4. Names(f) \cap closed = {}
    BY <2>2, <2>3
  <2> QED BY <1>4, <2>1, <2>4 DEF Sought, WantedIn, Current
<1>7. ASSUME NEW f \in Sought PROVE f \in S
  <2>1. /\ f \in files /\ f \in Seq(Char) /\ f # <<>> /\ Match(pat, f)
        /\ Names(f) \cap closed = {}
    BY <1>4, <1>5, FileTyped DEF PathInv, Sought, WantedIn, Current
  <2>2. m \in Ends(f) /\ Upto(f, m) = candidate
    BY <1>2, <1>4, <1>5, <2>1, LiteralPrefix
  <2>3. candidate \in Names(f)
    BY <2>2 DEF Names
  <2>4. ~FolderIn(files, candidate)
    BY <1>3, <2>1, <2>3
  <2>5. Len(f) \in Nat /\ m <= Len(f) /\ Upto(f, Len(f)) = f
    BY <2>1, <2>2, EndsTyped, UptoAll
  <2>6. ~(m < Len(f))
    BY <2>1, <2>2, <2>4, WithinIs DEF FolderIn
  <2>7. f = candidate
    BY <1>5, <2>2, <2>5, <2>6
  <2>8. f \in Names(f)
    BY <2>3, <2>7
  <2> QED BY <1>4, <2>1, <2>7, <2>8 DEF FileMatches
<1>8. S = Sought
  BY <1>6, <1>7 DEF Sought, WantedIn
<1>9. WalkInv'
  <2> HIDE DEF S
  <2>1. \A f : ~Ahead({}, f)
    BY DEF Ahead
  <2> QED BY <1>1, <1>3, <1>4, <1>8, <2>1 DEF WalkInv
<1>10. StartInv' /\ DescendInv' /\ EndInv'
  BY <1>3 DEF StartInv, DescendInv, EndInv
<1> QED BY <1>1, <1>9, <1>10 DEF PathInv

(* Listing a directory stages the files in it that are asked for, and      *)
(* leaves ahead the directories in it that may hold some.                  *)
LEMMA PathInvList ==
  ASSUME PathInv, NEW d, List(d)
  PROVE  PathInv'
<1>1. /\ TreeInv' /\ LineInv' /\ EarlierInv' /\ files' = files /\ closed' = closed
      /\ Earlier' = Earlier /\ Current' = Current /\ Sought' = Sought
  BY SameTree DEF PathInv, List
<1> DEFINE S == {f \in files : ParentPath(f) = d /\ MatchFiles(d, pat) /\ FileMatches(f, pat)}
           inner == {e \in UNION {Names(f) : f \in files} :
                       ParentPath(e) = d /\ IsFolder(e) /\ e \notin closed}
<1>2. /\ phase = "walk" /\ d \in open /\ phase' = "walk" /\ open' = (open \ {d}) \cup inner
      /\ pat' = pat /\ matches' = matches \cup S /\ matched' = (matched \/ S # {})
  BY DEF List, Take
<1>3. /\ \A c \in open : Names(c) \cap closed = {}
      /\ \/ pat = Current
         \/ /\ pat = All
            /\ \A f \in files : Ahead(open, f) => Current = All \/ Match(Current, f)
      /\ Earlier \subseteq matches /\ matches \subseteq Earlier \cup Sought
      /\ matched \in BOOLEAN /\ (matched => Sought # {})
      /\ \A f \in Sought : Ahead(open, f) \/ (f \in matches /\ matched)
  BY <1>2 DEF PathInv, WalkInv
<1>4. \A f \in files : /\ f \in Seq(Char) /\ f # <<>> /\ f[1] # "/"
                       /\ Within(ParentPath(f), f) /\ Names(f) = Names(ParentPath(f)) \cup {f}
  BY FileTyped, NamesOfParent DEF PathInv
<1>5. ASSUME NEW f \in files, NEW e \in Names(f)
      PROVE  /\ e \in Seq(Char) /\ e # <<>> /\ Names(e) = Names(ParentPath(e)) \cup {e}
             /\ Within(ParentPath(e), e) /\ \A c : Within(c, e) => Within(c, f)
  <2>1. PICK n \in Ends(f) : e = Upto(f, n)
    BY DEF Names
  <2>2. n \in 1 .. Len(f) /\ Len(f) \in Nat /\ f \in Seq(Char)
    BY <1>4, EndsTyped
  <2>3. e \in Seq(Char) /\ Len(e) = n /\ e # <<>>
    BY <2>1, <2>2, UptoIs
  <2>4. ASSUME NEW c, Within(c, e) PROVE Within(c, f)
    <3>1. PICK k \in {0} \cup Ends(e) : k < n /\ c = Upto(e, k)
      BY <2>3, <2>4, WithinIs
    <3>2. k \in {0} \cup Ends(f)
      BY <2>1, <2>2, <3>1, EndsUpto
    <3>3. k \in 0 .. n
      BY <2>3, <3>1, EndsTyped
    <3>4. c = Upto(f, k)
      BY <2>1, <2>2, <3>1, <3>3, UptoUpto
    <3>5. k < Len(f)
      BY <2>2, <3>1, <3>3
    <3> QED BY <2>2, <3>2, <3>4, <3>5, WithinIs
  <2> QED BY <2>3, <2>4, NamesOfParent
<1>6. \A c \in open' : Names(c) \cap closed' = {}
  <2>1. ASSUME NEW c \in inner PROVE Names(c) \cap closed = {}
    <3>1. PICK f \in files : c \in Names(f)
      OBVIOUS
    <3>2. Names(c) = Names(d) \cup {c} /\ c \notin closed
      BY <1>5, <3>1
    <3> QED BY <1>2, <1>3, <3>2
  <2> HIDE DEF inner
  <2> QED BY <1>1, <1>2, <1>3, <2>1
<1>7. ASSUME NEW f \in files, Ahead(open', f) PROVE Ahead(open, f)
  <2>1. PICK c \in open' : Within(c, f)
    BY <1>7 DEF Ahead
  <2>2. CASE c \in open
    BY <2>1, <2>2 DEF Ahead
  <2>3. CASE c \in inner
    <3>1. PICK g \in files : c \in Names(g)
      BY <2>3
    <3>2. ParentPath(c) = d
      BY <2>3
    <3>3. c \in Seq(Char) /\ c # <<>>
      BY <1>5, <3>1
    <3>4. Within(d, c)
      BY <1>5, <3>1, <3>2
    <3>5. c \in Names(f)
      BY <2>1, <3>3 DEF Within
    <3>6. Within(d, f)
      BY <1>5, <3>4, <3>5
    <3> QED BY <1>2, <3>6 DEF Ahead
  <2> HIDE DEF inner
  <2> QED BY <1>2, <2>1, <2>2, <2>3
<1>8. ASSUME NEW f \in S PROVE f \in Sought
  <2>1. f \in files /\ ParentPath(f) = d /\ f \notin closed /\ (pat = All \/ Match(pat, f))
    BY DEF FileMatches
  <2>2. Names(f) \cap closed = {}
    BY <1>2, <1>3, <1>4, <2>1
  <2>3. Ahead(open, f)
    BY <1>2, <1>4, <2>1 DEF Ahead
  <2>4. Current = All \/ Match(Current, f)
    BY <1>3, <2>1, <2>3
  <2> QED BY <2>1, <2>2, <2>4 DEF Sought, WantedIn, Current
<1>9. ASSUME NEW f \in Sought, ParentPath(f) = d PROVE f \in S
  <2>1. /\ f \in files /\ Names(f) \cap closed = {} /\ (Current = All \/ Match(Current, f))
    BY DEF Sought, WantedIn, Current
  <2>2. f \in Names(f)
    BY <1>4, <2>1
  <2>3. pat = All \/ Match(pat, f)
    BY <1>3, <2>1
  <2>4. MatchFiles(d, pat)
    <3>1. pat \in Seq(Char)
      <4>1. Current \in Seq(Char)
        BY CurrentTyped DEF PathInv
      <4>2. <<>> \in Seq(Char)
        OBVIOUS
      <4> QED BY <1>3, <4>1, <4>2 DEF All
    <3>2. CASE pat = <<>> 
      <4>1. ParentPath(pat) = <<>>
        <5>1. Ends(<<>>) = {}
          BY DEF Ends
        <5>2. {0} \cup (Ends(pat) \ {Len(pat)}) = {0}
          BY <3>2, <5>1
        <5>3. Max({0}) = 0
          BY DEF Max
        <5> QED BY <3>1, <5>2, <5>3, UptoAll DEF ParentPath
      <4> QED BY <4>1 DEF MatchFiles
    <3>3. CASE pat # <<>> /\ ParentPath(pat) # <<>>
      <4>1. d # <<>> /\ Match(ParentPath(pat), d)
        BY <1>4, <1>9, <2>1, <2>3, <3>1, <3>3, ParentMatches DEF All
      <4> QED BY <4>1 DEF MatchFiles
    <3> QED BY <3>2, <3>3 DEF MatchFiles
  <2> QED BY <1>9, <2>1, <2>2, <2>3, <2>4 DEF FileMatches
<1>10. ASSUME NEW f \in Sought PROVE Ahead(open', f) \/ (f \in matches' /\ matched')
  <2>1. f \in files /\ Names(f) \cap closed = {}
    BY DEF Sought, WantedIn
  <2>2. CASE \E c \in open : c # d /\ Within(c, f)
    BY <1>2, <2>2 DEF Ahead
  <2>3. CASE Within(d, f)
    <3>1. CASE ParentPath(f) = d
      <4>1. f \in S
        BY <1>9, <3>1
      <4> QED BY <1>2, <4>1
    <3>2. CASE ParentPath(f) # d
      <4>1. PICK e \in Names(f) : ParentPath(e) = d /\ Within(e, f)
        BY <1>4, <2>1, <2>3, <3>2, WithinDescends
      <4>2. e \in inner
        BY <2>1, <4>1 DEF IsFolder
      <4> QED BY <1>2, <4>1, <4>2 DEF Ahead
    <3> QED BY <3>1, <3>2
  <2>4. CASE f \in matches /\ matched
    <3> HIDE DEF S
    <3> QED BY <1>2, <2>4
  <2> QED BY <1>3, <2>2, <2>3, <2>4 DEF Ahead
<1>11. WalkInv'
  <2> HIDE DEF S, inner
  <2>1. Earlier' \subseteq matches' /\ matches' \subseteq Earlier' \cup Sought'
    BY <1>1, <1>2, <1>3, <1>8
  <2>2. matched' \in BOOLEAN /\ (matched' => Sought' # {})
    BY <1>1, <1>2, <1>3, <1>8
  <2>3. \A f \in Sought' : Ahead(open', f) \/ (f \in matches' /\ matched')
    BY <1>1, <1>10
  <2>4. \/ pat' = Current'
        \/ /\ pat' = All
           /\ \A f \in files' : Ahead(open', f) => Current' = All \/ Match(Current', f)
    BY <1>1, <1>2, <1>3, <1>7
  <2> QED BY <1>6, <2>1, <2>2, <2>3, <2>4 DEF WalkInv
<1>12. StartInv' /\ DescendInv' /\ EndInv'
  BY <1>2 DEF StartInv, DescendInv, EndInv
<1> QED BY <1>1, <1>11, <1>12 DEF PathInv

LEMMA PathInvArgDone ==
  ASSUME PathInv, ArgDone
  PROVE  PathInv'
<1>1. /\ phase = "walk" /\ open = {} /\ matches' = matches /\ args' = args
      /\ files' = files /\ closed' = closed
  BY DEF ArgDone, tree
<1>2. /\ Earlier \subseteq matches /\ matches \subseteq Earlier \cup Sought
      /\ matched \in BOOLEAN /\ (matched => Sought # {})
      /\ \A f \in Sought : f \in matches /\ matched
  BY <1>1 DEF PathInv, WalkInv, Ahead
<1>3. matches = Earlier \cup Sought /\ (matched <=> Sought # {})
  BY <1>2
<1>4. CASE matched /\ arg < Len(args)
  <2>1. phase' = "start" /\ arg' = arg + 1
    BY <1>4 DEF ArgDone
  <2>2. LineInv' /\ arg \in Nat /\ 1 .. arg' - 1 = (1 .. arg - 1) \cup {arg}
    BY <1>1, <1>4, <2>1 DEF PathInv, LineInv
  <2>3. Earlier' = Earlier \cup Sought
    BY <1>1, <2>2 DEF Earlier, Sought
  <2>4. EarlierInv'
    BY <1>1, <1>3, <1>4, <2>2 DEF PathInv, EarlierInv, Sought
  <2>5. TreeInv'
    BY <1>1 DEF PathInv, TreeInv
  <2>6. StartInv' /\ DescendInv' /\ WalkInv' /\ EndInv'
    BY <1>1, <1>3, <2>1, <2>3 DEF StartInv, DescendInv, WalkInv, EndInv
  <2> QED BY <2>2, <2>4, <2>5, <2>6 DEF PathInv
<1>5. CASE ~(matched /\ arg < Len(args))
  <2>1. phase' = (IF matched THEN "staged" ELSE "threw") /\ arg' = arg
    BY <1>5 DEF ArgDone
  <2>2. /\ TreeInv' /\ LineInv' /\ EarlierInv'
        /\ Earlier' = Earlier /\ Sought' = Sought
    BY <1>1, <2>1, SameTree DEF PathInv, tree, line
  <2>3. matched => arg = Len(args)
    BY <1>5 DEF PathInv, LineInv
  <2>4. EndInv'
    BY <1>1, <1>3, <2>1, <2>2, <2>3 DEF EndInv
  <2>5. StartInv' /\ DescendInv' /\ WalkInv'
    BY <2>1 DEF StartInv, DescendInv, WalkInv
  <2> QED BY <2>2, <2>4, <2>5 DEF PathInv
<1> QED BY <1>4, <1>5

LEMMA PathInvInit == PathspecInit => PathInv
<1> SUFFICES ASSUME PathspecInit PROVE PathInv
  OBVIOUS
<1>1. args \in Seq(Pattern) /\ arg \in 1 .. Len(args)
  <2>1. PICK n \in 1 .. MaxArgs : args \in [1 .. n -> Pattern]
    BY DEF PathspecInit
  <2>2. n \in Nat /\ n > 0
    BY PathspecAssumption
  <2>3. args \in Seq(Pattern) /\ Len(args) = n
    BY <2>1, <2>2
  <2> QED BY <2>2, <2>3 DEF PathspecInit
<1>2. 1 .. arg - 1 = {}
  BY DEF PathspecInit
<1> QED BY <1>1, <1>2 DEF PathspecInit, PathInv, TreeInv, LineInv, EarlierInv, StartInv,
        DescendInv, WalkInv, EndInv, Earlier

LEMMA PathInvariance == PathspecSpec => []PathInv
<1>1. ASSUME PathInv, [PathspecNext]_pathspecVars PROVE PathInv'
  <2>1. CASE UNCHANGED pathspecVars
    <3>1. /\ TreeInv' /\ LineInv' /\ EarlierInv' /\ files' = files /\ closed' = closed
          /\ Earlier' = Earlier /\ Current' = Current /\ Sought' = Sought
      BY <1>1, <2>1, SameTree DEF PathInv, pathspecVars
    <3>2. /\ phase' = phase /\ at' = at /\ open' = open /\ pat' = pat
          /\ matched' = matched /\ matches' = matches /\ arg' = arg /\ args' = args
      BY <2>1 DEF pathspecVars, line
    <3>3. StartInv' /\ DescendInv' /\ WalkInv' /\ EndInv'
      BY <1>1, <3>1, <3>2 DEF PathInv, StartInv, DescendInv, WalkInv, EndInv
    <3> QED BY <3>1, <3>3 DEF PathInv
  <2>2. CASE PathspecNext
    BY <1>1, <2>2, PathInvStart, PathInvDescendDone, PathInvDescendWild, PathInvDescendFolder,
       PathInvDescendFile, PathInvArgDone, PathInvList DEF PathspecNext
  <2> QED BY <1>1, <2>1, <2>2
<1> QED BY <1>1, PathInvInit, PTL DEF PathspecSpec

LEMMA SoughtIsWanted ==
  /\ \A i : Wanted(args[i]) = WantedIn(files, closed, args[i])
  /\ Sought = Wanted(args[arg])
BY DEF Wanted, WantedIn, Sought

(* Whatever the work tree, the ignored paths and the patterns: add stages  *)
(* exactly the files its patterns ask for.                                 *)
THEOREM AddStagesWhatIsAsked == PathspecSpec => []StagesWhatIsAsked
<1>1. ASSUME PathInv PROVE StagesWhatIsAsked
  <2>1. ASSUME phase = "staged" PROVE matches = UNION {Wanted(args[i]) : i \in DOMAIN args}
    <3>1. arg = Len(args) /\ matches = Earlier \cup Sought /\ args \in Seq(Pattern) /\ Len(args) \in Nat
          /\ arg \in Nat /\ arg >= 1
      BY <1>1, <2>1 DEF PathInv, EndInv, LineInv
    <3>2. DOMAIN args = (1 .. arg - 1) \cup {arg}
      BY <3>1
    <3> QED BY <3>1, <3>2, SoughtIsWanted DEF Earlier
  <2> QED BY <2>1 DEF StagesWhatIsAsked
<1> QED BY <1>1, PathInvariance, PTL

(* It stages all of them or, when a pattern asks for none, nothing.        *)
THEOREM AddIsAllOrNothing == PathspecSpec => []AllOrNothing
<1>1. ASSUME PathInv PROVE AllOrNothing
  <2>1. phase = "threw" => Wanted(args[arg]) = {}
    BY <1>1, SoughtIsWanted DEF PathInv, EndInv
  <2>2. ASSUME phase = "staged", NEW i \in DOMAIN args PROVE Wanted(args[i]) # {}
    <3>1. arg = Len(args) /\ Sought # {} /\ args \in Seq(Pattern) /\ Len(args) \in Nat
      BY <1>1, <2>2 DEF PathInv, EndInv, LineInv
    <3>2. i = arg \/ i \in 1 .. arg - 1
      BY <3>1
    <3> QED BY <1>1, <3>1, <3>2, SoughtIsWanted DEF PathInv, EarlierInv
  <2> QED BY <2>1, <2>2 DEF AllOrNothing
<1> QED BY <1>1, PathInvariance, PTL

-----------------------------------------------------------------------------
(***************************************************************************)
(* Ignore rules.                                                           *)
(***************************************************************************)
LEMMA PathIs ==
  ASSUME NEW p \in Dir \cup File
  PROVE  p \in Seq(Name) /\ p # <<>> /\ Len(p) \in Nat /\ Len(p) > 0 /\ Parent(p) \in Folder
<1>1. p \in Seq(Name) /\ p # <<>> /\ Parent(p) \in Folder
  BY IgnoreRulesAssumption
<1> QED BY <1>1

LEMMA BeginningIs ==
  ASSUME NEW p \in Seq(Name), NEW n \in 0 .. Len(p)
  PROVE  /\ SubSeq(p, 1, n) \in Seq(Name) /\ Len(SubSeq(p, 1, n)) = n
         /\ \A x \in 1 .. n : SubSeq(p, 1, n)[x] = p[x]
OBVIOUS

LEMMA BeginningsOfBeginning ==
  ASSUME NEW p \in Seq(Name), NEW n \in 1 .. Len(p)
  PROVE  Beginnings(SubSeq(p, 1, n)) = {SubSeq(p, 1, m) : m \in 1 .. n}
<1>1. Len(SubSeq(p, 1, n)) = n /\ Len(p) \in Nat /\ n \in 0 .. Len(p)
  BY BeginningIs
<1>2. ASSUME NEW m \in 1 .. n PROVE SubSeq(SubSeq(p, 1, n), 1, m) = SubSeq(p, 1, m)
  <2>1. m \in 0 .. n /\ m \in 0 .. Len(p)
    BY <1>1
  <2>2. /\ SubSeq(p, 1, n) \in Seq(Name) /\ \A x \in 1 .. n : SubSeq(p, 1, n)[x] = p[x]
        /\ SubSeq(p, 1, m) \in Seq(Name) /\ Len(SubSeq(p, 1, m)) = m
        /\ \A x \in 1 .. m : SubSeq(p, 1, m)[x] = p[x]
    BY <1>1, <2>1, BeginningIs
  <2>3. /\ SubSeq(SubSeq(p, 1, n), 1, m) \in Seq(Name) /\ Len(SubSeq(SubSeq(p, 1, n), 1, m)) = m
        /\ \A x \in 1 .. m : SubSeq(SubSeq(p, 1, n), 1, m)[x] = SubSeq(p, 1, n)[x]
    BY <1>1, <2>1, <2>2, BeginningIs
  <2>4. \A x \in 1 .. m : SubSeq(SubSeq(p, 1, n), 1, m)[x] = SubSeq(p, 1, m)[x]
    BY <2>2, <2>3
  <2> QED BY <2>2, <2>3, <2>4, SeqEqual
<1> QED BY <1>1, <1>2 DEF Beginnings

(* A pattern and where its segments are found.                             *)
Located(p, s, place) ==
  /\ place \in [Segments(p) -> 1 .. Len(s)]
  /\ place[1] = 1
  /\ \A i \in Segments(p) : \A x \in Segment(p, i) : Found(p, s, place, i, x)

LEMMA WildIs ==
  ASSUME NEW p, NEW s, s # <<>>
  PROVE  Wild(p, s) <=> \E place : Located(p, s, place)
BY DEF Wild, Located

LEMMA SegmentsTyped ==
  ASSUME NEW p \in Seq(Components)
  PROVE  /\ 1 \in Segments(p) /\ Segments(p) \subseteq 1 .. Len(p) + 1 /\ Len(p) \in Nat
         /\ \A i \in Segments(p) : Segment(p, i) \subseteq i .. Len(p) + 1 /\ i \in Segment(p, i)
<1>1. Len(p) \in Nat
  OBVIOUS
<1>2. Segments(p) \subseteq 1 .. Len(p) + 1
  BY <1>1 DEF Segments
<1> QED BY <1>1, <1>2 DEF Segments, Segment

(* The restarts begin no earlier than the segment, and no later than after *)
(* what was matched.                                                       *)
LEMMA AfterSlashIs ==
  ASSUME NEW p \in Seq(Components), NEW place, NEW i \in Segments(p), NEW x \in Segment(p, i),
         place[i] \in Nat
  PROVE  LET a == AfterSlash(p, place, i, x)
         IN /\ a \in Nat /\ place[i] <= a /\ a <= place[i] + (x - i) + 1
            /\ i = 1 => place[i] + 1 <= a
<1> DEFINE stars == {y \in i .. x - 1 : p[y] \in Starred}
           a == AfterSlash(p, place, i, x)
<1>1. i \in Nat /\ x \in Nat /\ i <= x /\ i >= 1
  BY SegmentsTyped
<1>2. CASE stars # {}
  <2>1. stars \in SUBSET Nat /\ \A y \in stars : y <= x
    BY <1>1
  <2>2. Max(stars) \in stars
    <3> HIDE DEF stars
    <3> QED BY <1>1, <1>2, <2>1, MaxIs
  <2>3. Max(stars) \in i .. x - 1
    BY <2>2
  <2>4. a = place[i] + (Max(stars) - i) + 1
    BY <1>2 DEF AfterSlash
  <2> HIDE DEF stars, a
  <2> QED BY <1>1, <2>3, <2>4 DEF a
<1>3. CASE stars = {}
  <2>1. a = place[i] + 1 \/ (a = place[i] /\ i > 1)
    BY <1>3 DEF AfterSlash
  <2> HIDE DEF stars, a
  <2> QED BY <1>1, <2>1 DEF a
<1> QED BY <1>2, <1>3

(* What matches a directory matches all there is in it.                    *)
LEMMA WildStays ==
  ASSUME NEW p \in Seq(Components), NEW s \in Seq(Name), NEW t \in Seq(Name), s # <<>>,
         Len(s) <= Len(t), \A x \in 1 .. Len(s) : t[x] = s[x], Wild(p, s)
  PROVE  Wild(p, t)
<1>1. Len(s) \in Nat /\ Len(t) \in Nat /\ Len(s) > 0 /\ t # <<>>
  OBVIOUS
<1>2. PICK place : Located(p, s, place)
  BY WildIs
<1>3. place \in [Segments(p) -> 1 .. Len(t)] /\ place[1] = 1
  BY <1>1, <1>2 DEF Located
<1>4. ASSUME NEW i \in Segments(p), NEW x \in Segment(p, i)
      PROVE  Found(p, t, place, i, x)
  <2>1. Found(p, s, place, i, x)
    BY <1>2 DEF Located
  <2>2. place[i] \in 1 .. Len(s) /\ i \in Nat /\ x \in Nat /\ i <= x
    BY <1>2, SegmentsTyped DEF Located
  <2> DEFINE k == place[i] + (x - i)
  <2>3. k \in Nat /\ k >= 1
    BY <1>1, <2>2
  <2>4. k <= Len(s) => k <= Len(t) /\ t[k] = s[k]
    BY <1>1, <2>3
  <2>5. Restarts(p, s, place, i, x) \subseteq Restarts(p, t, place, i, x)
    <3>1. AfterSlash(p, place, i, x) \in Nat
      BY <2>2, AfterSlashIs
    <3> QED BY <1>1, <3>1 DEF Restarts
  <2>6. CASE x > Len(p)
    BY <2>6 DEF Found
  <2>7. CASE ~(x > Len(p)) /\ p[x] = StarStar
    <3>1. (x > i => k <= Len(s)) /\ (x < Len(p) => place[x + 1] \in Restarts(p, s, place, i, x))
      BY <2>1, <2>7 DEF Found
    <3>2. (x > i => k <= Len(t)) /\ (x < Len(p) => place[x + 1] \in Restarts(p, t, place, i, x))
      BY <2>4, <2>5, <3>1
    <3> QED BY <2>7, <3>2 DEF Found
  <2>8. CASE ~(x > Len(p)) /\ p[x] # StarStar
    <3>1. k <= Len(s) /\ Matches(p[x], s[k])
      BY <2>1, <2>8 DEF Found
    <3>2. k <= Len(t) /\ Matches(p[x], t[k])
      BY <2>4, <3>1
    <3> QED BY <2>8, <3>2 DEF Found
  <2> QED BY <2>6, <2>7, <2>8
<1>5. Located(p, t, place)
  BY <1>3, <1>4 DEF Located
<1> QED BY <1>1, <1>5, WildIs

-----------------------------------------------------------------------------
Parsed == [rooted : BOOLEAN, names : Seq(Components), folders : BOOLEAN]

RulesTypeOK ==
  /\ rules \subseteq [dir : Folder, line : Line]
  /\ nested \subseteq Dir
  /\ patterns \subseteq Parsed
  /\ pending \subseteq Dir

LEMMA FolderIs ==
  ASSUME NEW d \in Folder
  PROVE  d \in Seq(Name) /\ d \in Seq(Components) /\ Len(d) \in Nat
<1>1. d \in Seq(Name)
  <2>1. <<>> \in Seq(Name)
    OBVIOUS
  <2> QED BY <2>1, IgnoreRulesAssumption DEF Folder
<1>2. Name \subseteq Components
  BY DEF Components
<1> QED BY <1>1, <1>2

LEMMA AnyDepthTyped ==
  ASSUME NEW names \in Seq(Components)
  PROVE  /\ AtAnyDepth(names) \in Seq(Components)
         /\ names # <<>> => AtAnyDepth(names) # <<>>
<1>1. <<StarStar>> \in Seq(Components) /\ Len(<<StarStar>>) = 1
  BY DEF Components
<1>2. (<<StarStar>> \o names) \in Seq(Components) /\ Len(<<StarStar>> \o names) = 1 + Len(names)
  BY <1>1
<1>3. Len(names) \in Nat /\ Len(<<>>) = 0
  OBVIOUS
<1> QED BY <1>2, <1>3 DEF AtAnyDepth

LEMMA RewriteTyped ==
  ASSUME NEW d \in Folder, NEW l \in Line
  PROVE  Rewrite(d, l) \in Parsed
<1>1. l \in Parsed
  BY IgnoreRulesAssumption DEF Parsed
<1>2. AtAnyDepth(l.names) \in Seq(Components) /\ l.names \in Seq(Components) /\ d \in Seq(Components)
  BY <1>1, AnyDepthTyped, FolderIs DEF Parsed
<1>3. (d \o l.names) \in Seq(Components) /\ (d \o AtAnyDepth(l.names)) \in Seq(Components)
  BY <1>2
<1> QED BY <1>1, <1>3 DEF Rewrite, Parsed

LEMMA RulesTyped == RulesSpec => []RulesTypeOK
<1>1. ASSUME rules \subseteq [dir : Folder, line : Line], NEW d \in Folder
      PROVE  Load(d) \subseteq Parsed
  BY <1>1, RewriteTyped DEF Load
<1>2. RulesInit => RulesTypeOK
  <2> SUFFICES ASSUME RulesInit PROVE RulesTypeOK
    OBVIOUS
  <2>1. rules \subseteq [dir : Folder, line : Line]
    BY DEF RulesInit, Range
  <2>2. DotGit \in Parsed
    <3>1. <<".git">> \in Seq(Components)
      BY DEF Components
    <3> QED BY <3>1 DEF DotGit, Parsed
  <2> QED BY <1>1, <2>1, <2>2 DEF RulesInit, RulesTypeOK, Children, Folder
<1>3. ASSUME RulesTypeOK, [RulesNext]_ruleVars PROVE RulesTypeOK'
  <2>1. CASE UNCHANGED ruleVars
    BY <1>3, <2>1 DEF RulesTypeOK, ruleVars
  <2>2. ASSUME NEW d \in Dir, Visit(d) PROVE RulesTypeOK'
    <3>1. Load(d) \subseteq Parsed
      BY <1>1, <1>3 DEF RulesTypeOK, Folder
    <3> QED BY <1>3, <2>2, <3>1 DEF RulesTypeOK, Visit, Children
  <2> QED BY <1>3, <2>1, <2>2 DEF RulesNext
<1> QED BY <1>2, <1>3, PTL DEF RulesSpec

(* A directory on the way to a path is on the way to the path's own        *)
(* directory, or is the path.                                              *)
LEMMA OnTheWay ==
  ASSUME NEW p \in Dir \cup File, NEW d \in Beginnings(p)
  PROVE  /\ d \in Seq(Name) /\ d # <<>> /\ Len(d) <= Len(p) /\ \A x \in 1 .. Len(d) : p[x] = d[x]
         /\ Beginnings(d) \subseteq Beginnings(p)
         /\ d # p => /\ Len(d) <= Len(Parent(p)) /\ \A x \in 1 .. Len(d) : Parent(p)[x] = d[x]
                     /\ d \in Beginnings(Parent(p)) /\ Beginnings(d) \subseteq Beginnings(Parent(p))
<1>1. PICK n \in 1 .. Len(p) : d = SubSeq(p, 1, n)
  BY DEF Beginnings
<1>2. p \in Seq(Name) /\ Len(p) \in Nat /\ n \in 0 .. Len(p) /\ n > 0 /\ n <= Len(p)
  BY <1>1, PathIs
<1>3. d \in Seq(Name) /\ Len(d) = n /\ \A x \in 1 .. n : d[x] = p[x]
  BY <1>1, <1>2, BeginningIs
<1>4. Beginnings(d) = {SubSeq(p, 1, m) : m \in 1 .. n}
  BY <1>1, <1>2, BeginningsOfBeginning
<1>5. Beginnings(d) \subseteq Beginnings(p)
  BY <1>2, <1>4 DEF Beginnings
<1>6. ASSUME d # p
      PROVE  /\ Len(d) <= Len(Parent(p)) /\ \A x \in 1 .. Len(d) : Parent(p)[x] = d[x]
             /\ d \in Beginnings(Parent(p)) /\ Beginnings(d) \subseteq Beginnings(Parent(p))
  <2>1. n # Len(p)
    BY <1>2, <1>3, <1>6, SeqEqual
  <2>2. n <= Len(p) - 1 /\ Len(p) - 1 \in 0 .. Len(p) /\ Len(p) - 1 \in 1 .. Len(p)
    BY <1>2, <2>1
  <2>3. Len(Parent(p)) = Len(p) - 1 /\ \A x \in 1 .. Len(p) - 1 : Parent(p)[x] = p[x]
    BY <1>2, <2>2, BeginningIs DEF Parent
  <2>4. Beginnings(Parent(p)) = {SubSeq(p, 1, m) : m \in 1 .. Len(p) - 1}
    BY <1>2, <2>2, BeginningsOfBeginning DEF Parent
  <2>5. n \in 1 .. Len(p) - 1 /\ 1 .. n \subseteq 1 .. Len(p) - 1
    BY <1>2, <2>2
  <2> QED BY <1>1, <1>3, <1>4, <2>2, <2>3, <2>4, <2>5
<1>7. d # <<>>
  BY <1>2, <1>3
<1> QED BY <1>2, <1>3, <1>5, <1>6, <1>7

LEMMA HitsStay ==
  ASSUME NEW r \in Parsed, NEW p \in Dir \cup File, NEW d \in Beginnings(p) \cap Dir,
         Hits(r, d, TRUE)
  PROVE  Hits(r, p, p \in Dir)
<1> DEFINE q == IF r.rooted THEN r.names ELSE AtAnyDepth(r.names)
<1>1. q \in Seq(Components) /\ r.names # <<>> /\ Wild(q, d)
  BY AnyDepthTyped DEF Hits, Parsed
<1> HIDE DEF q
<1>2. /\ d \in Seq(Name) /\ d # <<>> /\ Len(d) <= Len(p) /\ \A x \in 1 .. Len(d) : p[x] = d[x]
      /\ d # p => Len(d) <= Len(Parent(p)) /\ \A x \in 1 .. Len(d) : Parent(p)[x] = d[x]
      /\ p \in Seq(Name) /\ Parent(p) \in Seq(Name)
  BY OnTheWay, PathIs, FolderIs
<1>3. Wild(q, p)
  BY <1>1, <1>2, WildStays
<1>4. p \notin Dir => Wild(q, Parent(p))
  BY <1>1, <1>2, WildStays
<1> QED BY <1>1, <1>3, <1>4 DEF Hits, q

(* Whatever the .gitignore files say, and at any time: what lies in an     *)
(* ignored directory is ignored.                                           *)
LEMMA DownFromTyped == RulesTypeOK => IgnoredAllTheWayDown
<1> SUFFICES ASSUME RulesTypeOK, NEW p \in Dir \cup File, NEW d \in Beginnings(p) \cap Dir, Ignored(d)
             PROVE  Ignored(p)
  BY DEF IgnoredAllTheWayDown
<1>1. CASE InNestedRepository(d, TRUE)
  <2>1. Beginnings(d) \cap nested # {}
    BY <1>1 DEF InNestedRepository
  <2>2. Beginnings(d) \subseteq Beginnings(IF p \in Dir THEN p ELSE Parent(p))
    BY OnTheWay
  <2>3. InNestedRepository(p, p \in Dir)
    BY <2>1, <2>2 DEF InNestedRepository
  <2> QED BY <2>3 DEF Ignored, IsIgnored
<1>2. CASE \E r \in patterns : Hits(r, d, TRUE)
  <2>1. PICK r \in patterns : Hits(r, d, TRUE)
    BY <1>2
  <2>2. Hits(r, p, p \in Dir)
    BY <2>1, HitsStay DEF RulesTypeOK
  <2> QED BY <2>2 DEF Ignored, IsIgnored
<1>3. IsIgnored(d, TRUE)
  BY DEF Ignored
<1> QED BY <1>1, <1>2, <1>3 DEF IsIgnored

(* So the walks of status and add pass over nothing that is_ignored would *)
(* let through, for any rules and directories (index.cpp:176-182,          *)
(* add.cpp:43-48).                                                         *)
THEOREM IgnoredBelowIgnored == RulesSpec => []IgnoredAllTheWayDown
BY DownFromTyped, RulesTyped, PTL

-----------------------------------------------------------------------------
(* A pattern that begins with a directory's name matches only below it.    *)
LEMMA MatchesLiteral ==
  ASSUME NEW c, NEW n, c \notin DOMAIN Glob
  PROVE  Matches(c, n) <=> c = n
BY DEF Matches

LEMMA PrefixHolds ==
  ASSUME NEW d \in Folder, d # <<>>, ToSet(d) \cap (DOMAIN Glob \cup {StarStar}) = {},
         NEW q \in Seq(Components), q # <<>>, NEW s \in Seq(Name), Wild(d \o q, s)
  PROVE  Len(s) > Len(d) /\ \A x \in 1 .. Len(d) : s[x] = d[x]
<1> DEFINE p == d \o q
<1>1. /\ d \in Seq(Components) /\ Len(d) \in Nat /\ Len(d) > 0 /\ Len(q) \in Nat /\ Len(q) > 0
      /\ p \in Seq(Components) /\ Len(p) = Len(d) + Len(q)
      /\ Len(s) \in Nat
  BY FolderIs
<1>2. \A x \in 1 .. Len(d) : p[x] = d[x] /\ d[x] \notin DOMAIN Glob /\ d[x] # StarStar
  BY <1>1 DEF ToSet
<1> HIDE DEF p
<1>3. s # <<>>
  <2>1. ASSUME s = <<>> PROVE FALSE
    <3>1. MatchesEmpty(p)
      BY <2>1 DEF Wild, p
    <3>2. 1 \in 1 .. Len(p) - 1 /\ 1 \in 1 .. Len(d)
      BY <1>1
    <3> QED BY <1>2, <3>1, <3>2 DEF MatchesEmpty
  <2> QED BY <2>1
<1>4. PICK place : Located(p, s, place)
  BY <1>3, WildIs DEF p
<1>5. 1 .. Len(d) + 1 \subseteq Segment(p, 1)
  <2> SUFFICES ASSUME NEW x \in 1 .. Len(d) + 1 PROVE x \in Segment(p, 1)
    OBVIOUS
  <2>1. x \in 1 .. Len(p) + 1 /\ \A y \in 1 .. x - 1 : y \in 1 .. Len(d)
    BY <1>1
  <2> QED BY <1>2, <2>1 DEF Segment
<1>6. \A x \in 1 .. Len(d) + 1 : Found(p, s, place, 1, x)
  <2>1. 1 \in Segments(p)
    BY <1>1, SegmentsTyped
  <2>2. \A x \in Segment(p, 1) : Found(p, s, place, 1, x)
    BY <1>4, <2>1 DEF Located
  <2> QED BY <1>5, <2>2
<1>7. place[1] = 1
  BY <1>4 DEF Located
<1>8. ASSUME NEW x \in 1 .. Len(d) PROVE s[x] = d[x]
  <2>1. ~(x > Len(p)) /\ p[x] # StarStar /\ place[1] + (x - 1) = x /\ p[x] = d[x]
    BY <1>1, <1>2, <1>7
  <2>2. Matches(p[x], s[place[1] + (x - 1)])
    BY <1>1, <1>6, <2>1 DEF Found
  <2> QED BY <1>2, <2>1, <2>2, MatchesLiteral
<1>9. Len(d) + 1 <= Len(s)
  <2> DEFINE x == Len(d) + 1
  <2>1. ~(x > Len(p)) /\ x > 1 /\ place[1] + (x - 1) = x /\ x \in 1 .. Len(d) + 1
    BY <1>1, <1>7
  <2>2. Found(p, s, place, 1, x)
    BY <1>6, <2>1
  <2> HIDE DEF x
  <2>3. x <= Len(s)
    BY <2>1, <2>2 DEF Found
  <2> QED BY <2>3 DEF x
<1> QED BY <1>1, <1>8, <1>9

(* The pattern a line of a directory's .gitignore becomes.                 *)
LEMMA RewriteIs ==
  ASSUME NEW d \in Folder, d # <<>>, NEW l \in Parsed, l.names # <<>>
  PROVE  \E q \in Seq(Components) :
           /\ q # <<>> /\ q = (IF l.rooted THEN l.names ELSE AtAnyDepth(l.names))
           /\ Rewrite(d, l) = [rooted |-> FALSE, names |-> d \o q, folders |-> l.folders]
           /\ AtAnyDepth(d \o q) = d \o q /\ d \o q # <<>>
<1> DEFINE q == IF l.rooted THEN l.names ELSE AtAnyDepth(l.names)
<1>1. l.names \in Seq(Components)
  BY DEF Parsed
<1>2. q \in Seq(Components) /\ q # <<>>
  BY <1>1, AnyDepthTyped DEF Parsed
<1>3. Rewrite(d, l) = [rooted |-> FALSE, names |-> d \o q, folders |-> l.folders]
  BY <1>1 DEF Rewrite, Parsed
<1> HIDE DEF q
<1>4. Len(d) \in Nat /\ Len(d) > 0 /\ Len(q) \in Nat /\ Len(q) > 0
  BY <1>2, FolderIs
<1>5. Len(d \o q) = Len(d) + Len(q)
  BY <1>2, FolderIs
<1>6. Len(d \o q) # 1 /\ Len(d \o q) # 0
  BY <1>4, <1>5
<1>7. d \o q # <<>>
  BY <1>6
<1> QED BY <1>2, <1>3, <1>6, <1>7 DEF AtAnyDepth, q

LEMMA LoadedHitsBelow ==
  ASSUME RulesTypeOK, LiteralFolders, NEW d \in Dir, NEW r \in Load(d),
         NEW p \in Dir \cup File, Hits(r, p, p \in Dir)
  PROVE  Below(p, d)
<1>1. PICK rule \in rules : rule.dir = d /\ r = Rewrite(d, rule.line) /\ (d = <<>> \/ rule.line.names # <<>>)
  BY DEF Load
<1>2. d \in Folder /\ d # <<>> /\ rule.line \in Parsed /\ rule.line.names # <<>> /\ d \in Seq(Name)
  BY <1>1, PathIs, IgnoreRulesAssumption DEF RulesTypeOK, Folder, Parsed
<1>3. PICK q \in Seq(Components) :
        q # <<>> /\ AtAnyDepth(d \o q) = d \o q /\ d \o q # <<>>
        /\ r = [rooted |-> FALSE, names |-> d \o q, folders |-> rule.line.folders]
  BY <1>1, <1>2, RewriteIs
<1>4. ToSet(d) \cap (DOMAIN Glob \cup {StarStar}) = {}
  BY <1>1 DEF LiteralFolders
<1>5. p \in Seq(Name) /\ Parent(p) \in Seq(Name) /\ Len(p) \in Nat /\ Len(p) > 0
  BY PathIs, FolderIs
<1>6. /\ Len(Parent(p)) = Len(p) - 1 /\ \A x \in 1 .. Len(p) - 1 : Parent(p)[x] = p[x]
  <2>1. Len(p) - 1 \in 0 .. Len(p)
    BY <1>5
  <2> QED BY <1>5, <2>1, BeginningIs DEF Parent
<1>7. Wild(d \o q, p) \/ Wild(d \o q, Parent(p))
  BY <1>3 DEF Hits
<1>8. Len(d) \in Nat /\ Len(p) > Len(d) /\ \A x \in 1 .. Len(d) : p[x] = d[x]
  <2>1. CASE Wild(d \o q, p)
    BY <1>2, <1>3, <1>4, <1>5, <2>1, PrefixHolds, FolderIs
  <2>2. CASE Wild(d \o q, Parent(p))
    <3>1. Len(Parent(p)) > Len(d) /\ \A x \in 1 .. Len(d) : Parent(p)[x] = d[x]
      BY <1>2, <1>3, <1>4, <1>5, <2>2, PrefixHolds
    <3>2. Len(d) \in Nat /\ \A x \in 1 .. Len(d) : x \in 1 .. Len(p) - 1
      BY <1>2, <1>5, <1>6, <3>1, FolderIs
    <3> QED BY <1>5, <1>6, <3>1, <3>2
  <2> QED BY <1>7, <2>1, <2>2
<1>9. SubSeq(p, 1, Len(d)) = d
  <2>1. Len(d) \in 0 .. Len(p)
    BY <1>5, <1>8
  <2> QED BY <1>2, <1>5, <1>8, <2>1, BeginningIs, SeqEqual
<1> QED BY <1>8, <1>9 DEF Below

(* A .gitignore changes the verdict on nothing but what lies below it.     *)
THEOREM RulesStayInTheirFolder == RulesSpec => RulesStayBelow
<1>1. ASSUME RulesTypeOK, [RulesNext]_ruleVars, LiteralFolders, NEW p \in Dir \cup File,
             Ignored(p) # Ignored(p)'
      PROVE  \E d \in pending \ pending' : Below(p, d)
  <2>1. ~UNCHANGED ruleVars
    BY <1>1 DEF Ignored, IsIgnored, InNestedRepository, ruleVars
  <2>2. PICK d \in Dir : Visit(d)
    BY <1>1, <2>1 DEF RulesNext
  <2>3. nested' = nested /\ d \in pending /\ rules' = rules
    BY <2>2 DEF Visit
  <2>4. patterns' = patterns \cup Load(d) /\ pending' = (pending \ {d}) \cup Children(d)
    BY <1>1, <2>2, <2>3 DEF Visit, Ignored, IsIgnored, InNestedRepository
  <2>5. d \notin Children(d)
    <3>1. d \in Seq(Name) /\ Len(d) \in Nat /\ Len(d) > 0
      BY PathIs
    <3>2. Len(d) - 1 \in 0 .. Len(d)
      BY <3>1
    <3>3. Len(Parent(d)) = Len(d) - 1
      BY <3>1, <3>2, BeginningIs DEF Parent
    <3>4. Parent(d) # d
      BY <3>1, <3>3
    <3> QED BY <3>4 DEF Children
  <2>6. PICK r \in Load(d) : Hits(r, p, p \in Dir)
    BY <1>1, <2>3, <2>4 DEF Ignored, IsIgnored, InNestedRepository
  <2>7. Below(p, d)
    BY <1>1, <2>6, LoadedHitsBelow
  <2> QED BY <2>3, <2>4, <2>5, <2>7
<1>2. RulesTypeOK /\ [RulesNext]_ruleVars
      => [LiteralFolders => \A p \in Dir \cup File :
            Ignored(p) # Ignored(p)' => \E d \in pending \ pending' : Below(p, d)]_ruleVars
  BY <1>1
<1> QED BY <1>2, RulesTyped, PTL DEF RulesSpec, RulesStayBelow

-----------------------------------------------------------------------------
(***************************************************************************)
(* The patterns mean what the lines say.                                   *)
(***************************************************************************)
(* A reading of the beginning of a pattern.                                *)
ReadTo(p, s, f, m) ==
  /\ f \in [1 .. m -> 1 .. Len(s) + 1] /\ f[1] = 1
  /\ \A x \in 1 .. m - 1 : ReadAt(p, s, f, x)
  /\ \A x \in 1 .. m : f[x] <= f[m]

(* How one follows from where the segments are found.  After a ** the rest *)
(* may be tried too early; then the path shows there what the pattern's    *)
(* earlier components matched.                                             *)
Begun(p, s, place, m, i, f) ==
  /\ ReadTo(p, s, f, m)
  /\ i \in Segments(p) /\ m \in Segment(p, i)
  /\ \/ f[m] = place[i] + (m - i)
     \/ /\ m = i /\ place[m] < f[m] /\ f[m] <= Len(s)
        /\ \A y \in place[m] .. f[m] - 1 : \E j \in 2 .. m - 2 : Matches(p[j], s[y])

(* Without overlaps a component is found no earlier than it is read.       *)
LEMMA NotTooEarly ==
  ASSUME NEW p \in Seq(Components), NEW s \in Seq(Name), s # <<>>, NEW place, Located(p, s, place),
         ~Overlaps(p), NEW m \in 1 .. Len(p), NEW i, NEW f, Begun(p, s, place, m, i, f),
         p[m] # StarStar
  PROVE  f[m] = place[i] + (m - i) /\ f[m] \in 1 .. Len(s) /\ Matches(p[m], s[f[m]])
<1>1. /\ i \in Nat /\ i >= 1 /\ m \in Nat /\ i <= m /\ Len(p) \in Nat /\ Len(s) \in Nat
      /\ place[i] \in 1 .. Len(s) /\ i \in Segments(p) /\ m \in Segment(p, i)
  BY SegmentsTyped DEF Begun, Located
<1>2. place[i] + (m - i) <= Len(s) /\ Matches(p[m], s[place[i] + (m - i)])
  <2>1. Found(p, s, place, i, m)
    BY <1>1 DEF Located
  <2> QED BY <1>1, <2>1 DEF Found
<1>3. CASE f[m] = place[i] + (m - i)
  BY <1>1, <1>2, <1>3
<1>4. CASE f[m] # place[i] + (m - i)
  <2>1. /\ m = i /\ place[m] < f[m] /\ f[m] <= Len(s) /\ f[m] \in Nat
        /\ \A y \in place[m] .. f[m] - 1 : \E j \in 2 .. m - 2 : Matches(p[j], s[y])
    <3>1. m \in 1 .. m
      BY <1>1
    <3> QED BY <1>1, <1>4, <3>1 DEF Begun, ReadTo
  <2>2. place[m] \in place[m] .. f[m] - 1 /\ place[m] \in 1 .. Len(s) /\ place[i] + (m - i) = place[m]
    BY <1>1, <2>1
  <2>3. PICK j \in 2 .. m - 2 : Matches(p[j], s[place[m]])
    BY <2>1, <2>2
  <2>4. s[place[m]] \in Name /\ Matches(p[m], s[place[m]])
    BY <1>2, <2>2
  <2>5. m - 1 \in 3 .. Len(p) - 1 /\ (m - 1) + 1 = m /\ j \in 2 .. (m - 1) - 1
    BY <1>1
  <2>6. p[m - 1] = StarStar
    BY <1>1, <2>1, <2>5 DEF Segments
  <2>7. Overlap(p[(m - 1) + 1], p[j])
    BY <2>3, <2>4, <2>5 DEF Overlap
  <2>8. Overlaps(p)
    BY <2>5, <2>6, <2>7 DEF Overlaps
  <2> QED BY <2>8
<1> QED BY <1>3, <1>4

LEMMA ReadToNext ==
  ASSUME NEW p \in Seq(Components), NEW s \in Seq(Name), NEW m \in 1 .. Len(p),
         NEW f, ReadTo(p, s, f, m),
         NEW v \in 1 .. Len(s) + 1, f[m] <= v,
         \A g : g[m] = f[m] /\ g[m + 1] = v => ReadAt(p, s, g, m)
  PROVE  \E g : ReadTo(p, s, g, m + 1) /\ g[m + 1] = v
<1> DEFINE g == [x \in 1 .. m + 1 |-> IF x = m + 1 THEN v ELSE f[x]]
<1>1. Len(p) \in Nat /\ Len(s) \in Nat /\ m \in Nat /\ m >= 1
  OBVIOUS
<1>2. /\ f \in [1 .. m -> 1 .. Len(s) + 1] /\ f[1] = 1
      /\ \A x \in 1 .. m - 1 : ReadAt(p, s, f, x)
      /\ \A x \in 1 .. m : f[x] <= f[m]
  BY DEF ReadTo
<1>3. \A x \in 1 .. m : x \in 1 .. m + 1 /\ x # m + 1 /\ g[x] = f[x]
  BY <1>1
<1>4. m + 1 \in 1 .. m + 1 /\ g[m + 1] = v /\ 1 \in 1 .. m /\ m \in 1 .. m
  BY <1>1
<1>5. g \in [1 .. m + 1 -> 1 .. Len(s) + 1]
  BY <1>1, <1>2
<1> HIDE DEF g
<1>6. ASSUME NEW x \in 1 .. (m + 1) - 1 PROVE ReadAt(p, s, g, x)
  <2>1. CASE x = m
    BY <1>3, <1>4, <2>1
  <2>2. CASE x # m
    <3>1. x \in 1 .. m - 1 /\ x \in 1 .. m /\ x + 1 \in 1 .. m
      BY <1>1, <2>2
    <3>2. g[x] = f[x] /\ g[x + 1] = f[x + 1] /\ ReadAt(p, s, f, x)
      BY <1>2, <1>3, <3>1
    <3> QED BY <3>2 DEF ReadAt
  <2> QED BY <2>1, <2>2
<1>7. \A x \in 1 .. m + 1 : g[x] <= v
  <2>1. \A x \in 1 .. m : f[x] \in Nat /\ f[m] \in Nat /\ f[x] <= f[m]
    BY <1>1, <1>2
  <2>2. v \in Nat
    BY <1>1
  <2>3. \A x \in 1 .. m : g[x] <= v
    BY <1>3, <2>1, <2>2
  <2> QED BY <1>1, <1>4, <2>2, <2>3
<1> QED BY <1>2, <1>3, <1>4, <1>5, <1>6, <1>7 DEF ReadTo

LEMMA BegunNext ==
  ASSUME NEW p \in Seq(Components), NEW s \in Seq(Name), s # <<>>, NEW place, Located(p, s, place),
         ~Overlaps(p), NEW m \in 1 .. Len(p) - 1, NEW i, NEW f, Begun(p, s, place, m, i, f)
  PROVE  \E j, g : Begun(p, s, place, m + 1, j, g)
<1>1. /\ i \in Nat /\ i >= 1 /\ m \in Nat /\ i <= m /\ Len(p) \in Nat /\ Len(s) \in Nat
      /\ m \in 1 .. Len(p)
      /\ place[i] \in 1 .. Len(s) /\ i \in Segments(p) /\ m \in Segment(p, i)
      /\ ReadTo(p, s, f, m)
  BY SegmentsTyped DEF Begun, Located
<1>2. f[m] \in 1 .. Len(s) + 1 /\ f[m] \in Nat /\ place[i] \in Nat
  <2>1. m \in 1 .. m
    BY <1>1
  <2> QED BY <1>1, <2>1 DEF ReadTo
<1>3. CASE p[m] # StarStar
  <2>1. f[m] = place[i] + (m - i) /\ f[m] \in 1 .. Len(s) /\ Matches(p[m], s[f[m]])
    BY <1>1, <1>3, NotTooEarly
  <2> DEFINE v == f[m] + 1
  <2>2. v \in 1 .. Len(s) + 1 /\ f[m] <= v
    BY <1>1, <2>1
  <2>3. \A g : g[m] = f[m] /\ g[m + 1] = v => ReadAt(p, s, g, m)
    BY <1>3, <2>1 DEF ReadAt
  <2>4. v = place[i] + ((m + 1) - i)
    BY <1>1, <1>2, <2>1
  <2>5. PICK g : ReadTo(p, s, g, m + 1) /\ g[m + 1] = v
    <3> HIDE DEF v
    <3> QED BY <1>1, <2>2, <2>3, ReadToNext
  <2>6. m + 1 \in Segment(p, i)
    <3>1. \A y \in i .. (m + 1) - 1 : y = m \/ y \in i .. m - 1
      BY <1>1
    <3>2. m + 1 \in i .. Len(p) + 1
      BY <1>1
    <3> QED BY <1>1, <1>3, <3>1, <3>2 DEF Segment
  <2> QED BY <1>1, <2>4, <2>5, <2>6 DEF Begun
<1>4. CASE p[m] = StarStar
  <2> DEFINE k == place[i] + (m - i)
  <2>1. /\ m + 1 \in Segments(p) /\ m + 1 \in Segment(p, m + 1)
        /\ place[m + 1] \in 1 .. Len(s) /\ place[m + 1] \in Nat
    <3>1. m + 1 \in Segments(p)
      BY <1>1, <1>4 DEF Segments
    <3>2. place[m + 1] \in 1 .. Len(s)
      BY <3>1 DEF Located
    <3> QED BY <3>1, <3>2, SegmentsTyped
  <2>2. Found(p, s, place, i, m)
    BY <1>1 DEF Located
  <2>3. (m > i => k <= Len(s)) /\ place[m + 1] \in Restarts(p, s, place, i, m)
    BY <1>1, <1>4, <2>2 DEF Found
  <2>4. k \in 1 .. Len(s) /\ k \in Nat
    BY <1>1, <1>2, <2>3
  <2>5. \/ place[m + 1] = k
        \/ place[m + 1] >= place[i] /\ (i = 1 => place[m + 1] >= place[i] + 1)
    <3> DEFINE a == AfterSlash(p, place, i, m)
    <3>1. a \in Nat /\ place[i] <= a /\ (i = 1 => place[i] + 1 <= a)
      BY <1>1, <1>2, AfterSlashIs
    <3>2. place[m + 1] = k \/ place[m + 1] \in a .. Len(s)
      BY <2>3 DEF Restarts
    <3> HIDE DEF a, k
    <3> QED BY <1>1, <1>2, <3>1, <3>2
  <2>6. f[m] <= Len(s) /\ k <= f[m]
    <3>1. CASE f[m] = k
      BY <2>4, <3>1
    <3>2. CASE f[m] # k
      BY <1>1, <1>2, <3>2 DEF Begun
    <3> QED BY <3>1, <3>2
  <2> DEFINE v == IF place[m + 1] < f[m] THEN f[m] ELSE place[m + 1]
  <2>7. v \in 1 .. Len(s) + 1 /\ f[m] <= v /\ v <= Len(s)
    BY <1>1, <1>2, <2>1, <2>6
  <2>8. PICK g : ReadTo(p, s, g, m + 1) /\ g[m + 1] = v
    <3>1. \A g : g[m] = f[m] /\ g[m + 1] = v => ReadAt(p, s, g, m)
      BY <1>1, <1>4, <2>7 DEF ReadAt
    <3> HIDE DEF v
    <3> QED BY <1>1, <2>7, <3>1, ReadToNext
  <2>9. CASE ~(place[m + 1] < f[m])
    <3>1. g[m + 1] = place[m + 1] + ((m + 1) - (m + 1))
      BY <1>1, <2>1, <2>8, <2>9
    <3> QED BY <2>1, <2>8, <3>1 DEF Begun
  <2>10. CASE place[m + 1] < f[m]
    <3>1. g[m + 1] = f[m]
      BY <2>8, <2>10
    <3>2. ASSUME NEW y \in place[m + 1] .. f[m] - 1
          PROVE  \E j \in 2 .. (m + 1) - 2 : Matches(p[j], s[y])
      <4>1. y \in Nat /\ place[m + 1] <= y /\ y < f[m]
        BY <1>2, <2>1
      <4>2. CASE f[m] = k
        <5>1. y >= place[i] /\ (i = 1 => y >= place[i] + 1) /\ y < place[i] + (m - i)
          BY <1>2, <2>1, <2>4, <2>5, <2>10, <4>1, <4>2
        <5> DEFINE j == (i + y) - place[i]
        <5>2. j \in Nat /\ i <= j /\ 2 <= j /\ j <= m - 1 /\ place[i] + (j - i) = y
          BY <1>1, <1>2, <4>1, <5>1
        <5> HIDE DEF j
        <5>3. j \in 2 .. (m + 1) - 2 /\ j \in i .. Len(p) + 1 /\ ~(j > Len(p))
          BY <1>1, <5>2
        <5>4. j \in i .. m - 1 /\ \A z \in i .. j - 1 : z \in i .. m - 1
          BY <1>1, <5>2
        <5>5. j \in Segment(p, i) /\ p[j] # StarStar
          BY <1>1, <5>3, <5>4 DEF Segment
        <5>6. Found(p, s, place, i, j)
          BY <1>1, <5>5 DEF Located
        <5>7. Matches(p[j], s[y])
          BY <5>2, <5>3, <5>5, <5>6 DEF Found
        <5> QED BY <5>3, <5>7
      <4>3. CASE f[m] # k
        <5>1. /\ m = i /\ place[m] < f[m]
              /\ \A z \in place[m] .. f[m] - 1 : \E j \in 2 .. m - 2 : Matches(p[j], s[z])
          BY <4>3 DEF Begun
        <5>2. place[m] <= place[m + 1]
          BY <1>1, <1>2, <2>1, <2>5, <5>1
        <5>3. y \in place[m] .. f[m] - 1
          BY <1>1, <1>2, <2>1, <4>1, <5>1, <5>2
        <5>4. \A j \in 2 .. m - 2 : j \in 2 .. (m + 1) - 2
          BY <1>1
        <5> QED BY <5>1, <5>3, <5>4
      <4> QED BY <4>2, <4>3
    <3> QED BY <2>1, <2>6, <2>8, <2>10, <3>1, <3>2, <1>1, <1>2 DEF Begun
  <2> QED BY <2>9, <2>10
<1> QED BY <1>3, <1>4

LEMMA ReadsBeginning ==
  ASSUME NEW p \in Seq(Components), NEW s \in Seq(Name), NEW f, ReadTo(p, s, f, Len(p) + 1),
         NEW n \in 1 .. Len(s), f[Len(p) + 1] = n + 1
  PROVE  Reads(p, SubSeq(s, 1, n))
<1>1. /\ Len(p) \in Nat /\ Len(s) \in Nat /\ n \in Nat /\ n \in 0 .. Len(s)
      /\ f \in [1 .. Len(p) + 1 -> 1 .. Len(s) + 1] /\ f[1] = 1
      /\ \A x \in 1 .. Len(p) + 1 : f[x] <= n + 1 /\ f[x] \in Nat /\ f[x] >= 1
  <2>1. Len(p) \in Nat /\ Len(s) \in Nat /\ n \in Nat /\ n \in 0 .. Len(s)
    OBVIOUS
  <2>2. f \in [1 .. Len(p) + 1 -> 1 .. Len(s) + 1] /\ f[1] = 1
    BY DEF ReadTo
  <2>3. ASSUME NEW x \in 1 .. Len(p) + 1 PROVE f[x] <= n + 1 /\ f[x] \in Nat /\ f[x] >= 1
    <3>1. f[x] <= n + 1
      BY DEF ReadTo
    <3>2. f[x] \in 1 .. Len(s) + 1
      BY <2>2
    <3> QED BY <2>1, <3>1, <3>2
  <2> QED BY <2>1, <2>2, <2>3
<1> DEFINE t == SubSeq(s, 1, n)
<1>2. Len(t) = n /\ \A x \in 1 .. n : t[x] = s[x]
  BY <1>1, BeginningIs
<1> HIDE DEF t
<1>3. f \in [1 .. Len(p) + 1 -> 1 .. Len(t) + 1]
  <2>1. \A x \in 1 .. Len(p) + 1 : f[x] \in 1 .. n + 1
    BY <1>1
  <2> QED BY <1>1, <1>2, <2>1
<1>4. ASSUME NEW x \in DOMAIN p PROVE ReadAt(p, t, f, x)
  <2>1. x \in 1 .. (Len(p) + 1) - 1 /\ x \in 1 .. Len(p) + 1 /\ x + 1 \in 1 .. Len(p) + 1
    BY <1>1
  <2>2. ReadAt(p, s, f, x)
    BY <2>1 DEF ReadTo
  <2>3. f[x + 1] = f[x] + 1 => f[x] \in 1 .. n
    BY <1>1, <2>1
  <2> QED BY <1>2, <2>2, <2>3 DEF ReadAt
<1> QED BY <1>1, <1>2, <1>3, <1>4 DEF Reads, t

(* What the code matches is read as the lines are, but for overlaps.       *)
LEMMA WildReads ==
  ASSUME NEW p \in Seq(Components), p # <<>>, NEW s \in Seq(Name), s # <<>>, Wild(p, s), ~Overlaps(p)
  PROVE  \E n \in 1 .. Len(s) : Reads(p, SubSeq(s, 1, n))
<1>1. Len(p) \in Nat /\ Len(p) >= 1 /\ Len(s) \in Nat /\ Len(s) >= 1
  OBVIOUS
<1>2. PICK place : Located(p, s, place)
  BY WildIs
<1> DEFINE S == {m \in Nat : \E i, f : Begun(p, s, place, m, i, f)}
<1>3. 1 \in S
  <2> DEFINE f == [x \in 1 .. 1 |-> 1]
  <2>1. ReadTo(p, s, f, 1)
    BY <1>1 DEF ReadTo
  <2>2. f[1] = place[1] + (1 - 1)
    BY <1>2 DEF Located
  <2>3. 1 \in Segments(p) /\ 1 \in Segment(p, 1)
    BY SegmentsTyped
  <2> HIDE DEF f
  <2> QED BY <2>1, <2>2, <2>3 DEF Begun
<1>4. ASSUME NEW m \in 1 .. Len(p) - 1, m \in S PROVE m + 1 \in S
  <2>1. PICK i, f : Begun(p, s, place, m, i, f)
    BY <1>4
  <2>2. \E j, g : Begun(p, s, place, m + 1, j, g)
    BY <1>2, <2>1, BegunNext
  <2> QED BY <1>1, <2>2
<1>5. Len(p) \in S
  <2> HIDE DEF S
  <2>1. \A m \in 1 .. Len(p) : m \in S
    BY <1>1, <1>3, <1>4, Ladder
  <2> QED BY <1>1, <2>1
<1> DEFINE m == Len(p)
<1>6. PICK i, f : Begun(p, s, place, m, i, f)
  BY <1>5
<1>7. /\ m \in 1 .. Len(p) /\ m \in 1 .. m /\ ReadTo(p, s, f, m)
      /\ i \in Nat /\ i <= m /\ i \in Segments(p) /\ m \in Segment(p, i)
      /\ place[i] \in 1 .. Len(s) /\ place[i] \in Nat
  BY <1>1, <1>2, <1>6, SegmentsTyped DEF Begun, Located
<1>8. f[m] \in 1 .. Len(s) + 1 /\ f[m] \in Nat
  BY <1>1, <1>7 DEF ReadTo
<1>9. \E n \in 1 .. Len(s) :
        f[m] <= n + 1 /\ \A g : g[m] = f[m] /\ g[m + 1] = n + 1 => ReadAt(p, s, g, m)
  <2>1. CASE p[m] # StarStar
    <3>1. f[m] \in 1 .. Len(s) /\ Matches(p[m], s[f[m]])
      BY <1>2, <1>6, <1>7, <2>1, NotTooEarly
    <3>2. \A g : g[m] = f[m] /\ g[m + 1] = f[m] + 1 => ReadAt(p, s, g, m)
      BY <2>1, <3>1 DEF ReadAt
    <3>3. f[m] <= f[m] + 1
      BY <1>8
    <3> QED BY <3>1, <3>2, <3>3
  <2>2. CASE p[m] = StarStar
    <3> DEFINE k == place[i] + (m - i)
    <3>1. Found(p, s, place, i, m)
      BY <1>2, <1>7 DEF Located
    <3>2. m > i => k <= Len(s)
      BY <1>1, <2>2, <3>1 DEF Found
    <3>3. k <= Len(s)
      BY <1>1, <1>7, <3>2
    <3>4. f[m] <= Len(s)
      <4>1. CASE f[m] = k
        BY <3>3, <4>1
      <4>2. CASE f[m] # k
        BY <1>6, <4>2 DEF Begun
      <4> QED BY <4>1, <4>2
    <3>5. f[m] < Len(s) + 1
      BY <1>1, <1>8, <3>4
    <3>6. \A g : g[m] = f[m] /\ g[m + 1] = Len(s) + 1 => ReadAt(p, s, g, m)
      BY <1>1, <1>8, <2>2, <3>5 DEF ReadAt
    <3>7. Len(s) \in 1 .. Len(s) /\ f[m] <= Len(s) + 1
      BY <1>1, <1>8
    <3> QED BY <3>6, <3>7
  <2> QED BY <2>1, <2>2
<1>10. PICK n \in 1 .. Len(s) :
         f[m] <= n + 1 /\ \A g : g[m] = f[m] /\ g[m + 1] = n + 1 => ReadAt(p, s, g, m)
  BY <1>9
<1>11. \E g : ReadTo(p, s, g, m + 1) /\ g[m + 1] = n + 1
  <2> DEFINE v == n + 1
  <2>1. v \in 1 .. Len(s) + 1 /\ f[m] <= v /\ \A g : g[m] = f[m] /\ g[m + 1] = v => ReadAt(p, s, g, m)
    BY <1>1, <1>10
  <2>2. \E g : ReadTo(p, s, g, m + 1) /\ g[m + 1] = v
    <3> HIDE DEF v, m
    <3> QED BY <1>7, <2>1, ReadToNext
  <2> QED BY <2>2
<1> QED BY <1>11, ReadsBeginning

(* A reading never steps back, and ends at the end only.                   *)
LEMMA ReadingRises ==
  ASSUME NEW p \in Seq(Components), NEW t \in Seq(Name), p # <<>>,
         NEW f, f \in [1 .. Len(p) + 1 -> 1 .. Len(t) + 1], f[Len(p) + 1] = Len(t) + 1,
         \A x \in DOMAIN p : ReadAt(p, t, f, x)
  PROVE  /\ \A i \in 1 .. Len(p) : f[i] \in 1 .. Len(t) /\ f[i] \in Nat
         /\ \A i \in 1 .. Len(p) : \A x \in i .. Len(p) + 1 : f[i] <= f[x]
<1>1. Len(p) \in Nat /\ Len(p) >= 1 /\ Len(t) \in Nat
  OBVIOUS
<1>2. \A x \in 1 .. Len(p) + 1 : f[x] \in Nat /\ f[x] >= 1 /\ f[x] <= Len(t) + 1
  <2> SUFFICES ASSUME NEW x \in 1 .. Len(p) + 1
               PROVE  f[x] \in Nat /\ f[x] >= 1 /\ f[x] <= Len(t) + 1
    OBVIOUS
  <2>1. f[x] \in 1 .. Len(t) + 1
    OBVIOUS
  <2> QED BY <1>1, <2>1
<1>3. ASSUME NEW x \in 1 .. Len(p)
      PROVE  f[x] <= f[x + 1] /\ f[x] \in Nat /\ f[x + 1] \in Nat /\ (x = Len(p) => f[x] <= Len(t))
  <2>1. x \in DOMAIN p /\ x + 1 \in 1 .. Len(p) + 1 /\ x \in 1 .. Len(p) + 1
    BY <1>1
  <2>2. f[x] \in Nat /\ f[x + 1] \in Nat /\ ReadAt(p, t, f, x)
    BY <1>2, <2>1
  <2>3. f[x] <= f[x + 1] /\ (x = Len(p) => f[x] < f[x + 1])
    BY <2>2 DEF ReadAt
  <2> QED BY <1>1, <2>2, <2>3
<1>4. ASSUME NEW i \in 1 .. Len(p), NEW b \in i .. Len(p) + 1
      PROVE  \A x \in i .. b : f[i] <= f[x]
  <2> DEFINE S == {x \in 1 .. Len(p) + 1 : f[i] <= f[x]}
  <2>1. i \in S /\ i \in Nat /\ b \in Nat
    BY <1>1, <1>2
  <2>2. ASSUME NEW x \in i .. b - 1, x \in S PROVE x + 1 \in S
    <3>1. x \in 1 .. Len(p) /\ x + 1 \in 1 .. Len(p) + 1
      BY <1>1
    <3>2. f[i] \in Nat /\ f[x] \in Nat /\ f[x + 1] \in Nat /\ f[x] <= f[x + 1] /\ f[i] <= f[x]
      BY <1>3, <2>2, <3>1
    <3>3. f[i] <= f[x + 1]
      BY <3>2
    <3> QED BY <3>1, <3>3
  <2>3. \A x \in i .. b : x \in S
    <3> HIDE DEF S
    <3> QED BY <2>1, <2>2, Ladder
  <2> QED BY <2>3
<1>5. ASSUME NEW i \in 1 .. Len(p) PROVE f[i] \in 1 .. Len(t) /\ f[i] \in Nat
  <2>1. Len(p) \in i .. Len(p) + 1 /\ Len(p) \in i .. Len(p) /\ Len(p) \in 1 .. Len(p) /\ i \in 1 .. Len(p) + 1
    BY <1>1
  <2>2. f[i] <= f[Len(p)] /\ f[Len(p)] <= Len(t) /\ f[Len(p)] \in Nat /\ f[i] \in Nat /\ f[i] >= 1
    BY <1>2, <1>3, <1>4, <2>1
  <2> QED BY <1>1, <2>2
<1>6. ASSUME NEW i \in 1 .. Len(p), NEW x \in i .. Len(p) + 1 PROVE f[i] <= f[x]
  <2>1. Len(p) + 1 \in i .. Len(p) + 1
    BY <1>1
  <2> QED BY <1>4, <2>1
<1> QED BY <1>5, <1>6

(* It steps by one where there is no **.                                   *)
LEMMA ReadingSteps ==
  ASSUME NEW p \in Seq(Components), NEW t \in Seq(Name), p # <<>>,
         NEW f, f \in [1 .. Len(p) + 1 -> 1 .. Len(t) + 1], f[Len(p) + 1] = Len(t) + 1,
         \A x \in DOMAIN p : ReadAt(p, t, f, x),
         NEW i \in 1 .. Len(p), NEW b \in i .. Len(p) + 1, \A y \in i .. b - 1 : p[y] # StarStar
  PROVE  \A x \in i .. b : f[x] = f[i] + (x - i)
<1>1. Len(p) \in Nat /\ Len(p) >= 1 /\ Len(t) \in Nat /\ i \in Nat /\ b \in Nat /\ b <= Len(p) + 1
      /\ i >= 1
  OBVIOUS
<1>2. \A x \in 1 .. Len(p) : f[x] \in Nat
  BY ReadingRises
<1> DEFINE S == {x \in 1 .. Len(p) + 1 : f[x] = f[i] + (x - i)}
<1>3. i \in S
  <2>1. f[i] \in Nat
    BY <1>2
  <2> QED BY <1>1, <2>1
<1>4. ASSUME NEW x \in i .. b - 1, x \in S PROVE x + 1 \in S
  <2>1. x \in 1 .. Len(p) /\ x \in DOMAIN p /\ x + 1 \in 1 .. Len(p) + 1
    BY <1>1
  <2>2. f[i] \in Nat /\ f[x] \in Nat /\ f[x] = f[i] + (x - i)
    BY <1>2, <1>4, <2>1
  <2>3. ReadAt(p, t, f, x) /\ p[x] # StarStar
    BY <1>4, <2>1
  <2>4. f[x + 1] = f[x] + 1
    BY <2>3 DEF ReadAt
  <2>5. f[x + 1] = f[i] + ((x + 1) - i)
    BY <1>1, <2>1, <2>2, <2>4
  <2> QED BY <2>1, <2>5
<1>5. \A x \in i .. b : x \in S
  <2> HIDE DEF S
  <2> QED BY <1>1, <1>3, <1>4, Ladder
<1> QED BY <1>5

(* And what is read as the lines are, the code matches.                    *)
LEMMA ReadsWild ==
  ASSUME NEW p \in Seq(Components), p # <<>>, NEW s \in Seq(Name), s # <<>>,
         NEW n \in 1 .. Len(s), Reads(p, SubSeq(s, 1, n))
  PROVE  Wild(p, s)
<1> DEFINE t == SubSeq(s, 1, n)
<1>1. /\ Len(p) \in Nat /\ Len(p) >= 1 /\ Len(s) \in Nat /\ n \in Nat /\ n \in 0 .. Len(s)
  OBVIOUS
<1>2. t \in Seq(Name) /\ Len(t) = n /\ \A x \in 1 .. n : t[x] = s[x]
  BY <1>1, BeginningIs
<1>3. PICK f \in [1 .. Len(p) + 1 -> 1 .. Len(t) + 1] :
        f[1] = 1 /\ f[Len(p) + 1] = Len(t) + 1 /\ \A x \in DOMAIN p : ReadAt(p, t, f, x)
  BY DEF Reads
<1> HIDE DEF t
<1>4. Len(t) \in Nat /\ Len(t) >= 1 /\ t # <<>> /\ Len(t) <= Len(s)
  BY <1>1, <1>2
<1>5. p # <<>> /\ f \in [1 .. Len(p) + 1 -> 1 .. Len(t) + 1] /\ t \in Seq(Name)
  BY <1>2
<1>6. \A x \in 1 .. Len(p) : f[x] \in 1 .. Len(t) /\ f[x] \in Nat
  BY <1>3, <1>5, ReadingRises
<1>7. \A i \in 1 .. Len(p) : \A x \in i .. Len(p) + 1 : f[i] <= f[x]
  BY <1>3, <1>5, ReadingRises
<1> DEFINE place == [i \in Segments(p) |-> IF i = Len(p) + 1 THEN 1 ELSE f[i]]
<1>8. /\ place \in [Segments(p) -> 1 .. Len(t)] /\ place[1] = 1
      /\ \A i \in Segments(p) : i \in 1 .. Len(p) => place[i] = f[i]
  <2>1. \A i \in Segments(p) : i = Len(p) + 1 \/ i \in 1 .. Len(p)
    BY <1>1, SegmentsTyped
  <2>2. place \in [Segments(p) -> 1 .. Len(t)]
    BY <1>4, <1>6, <2>1
  <2>3. place[1] = 1
    BY <1>1, <1>3, SegmentsTyped
  <2>4. \A i \in Segments(p) : i \in 1 .. Len(p) => place[i] = f[i]
    BY <1>1
  <2> QED BY <2>2, <2>3, <2>4
<1> HIDE DEF place
<1>9. ASSUME NEW i \in Segments(p), NEW x \in Segment(p, i) PROVE Found(p, t, place, i, x)
  <2>1. x \in i .. Len(p) + 1 /\ i \in 1 .. Len(p) + 1 /\ \A y \in i .. x - 1 : p[y] # StarStar
    BY SegmentsTyped DEF Segment
  <2>2. CASE x > Len(p)
    BY <2>2 DEF Found
  <2>3. CASE ~(x > Len(p))
    <3> DEFINE k == place[i] + (x - i)
    <3>1. i \in 1 .. Len(p) /\ x \in i .. Len(p) /\ x \in 1 .. Len(p) /\ x \in i .. x /\ x \in DOMAIN p
      BY <1>1, <2>1, <2>3
    <3>2. f[x] = f[i] + (x - i) /\ f[i] <= f[x]
      BY <1>3, <1>5, <1>7, <2>1, <3>1, ReadingSteps
    <3>3. k = f[x] /\ k \in 1 .. Len(t) /\ place[i] = f[i]
      BY <1>6, <1>8, <3>1, <3>2
    <3>4. ReadAt(p, t, f, x)
      BY <1>3, <3>1
    <3>5. ASSUME p[x] = StarStar, x < Len(p)
          PROVE  place[x + 1] \in Restarts(p, t, place, i, x)
      <4>1. x + 1 \in 1 .. Len(p) /\ x + 1 \in Segments(p)
        BY <1>1, <3>1, <3>5 DEF Segments
      <4>2. place[x + 1] = f[x + 1] /\ f[x + 1] \in 1 .. Len(t) /\ f[x] <= f[x + 1]
        <5>1. x + 1 \in x .. Len(p) + 1
          BY <1>1, <3>1
        <5> QED BY <1>6, <1>7, <1>8, <3>1, <4>1, <5>1
      <4>3. f[x + 1] = f[x] \/ f[x + 1] \in AfterSlash(p, place, i, x) .. Len(t)
        <5> DEFINE a == AfterSlash(p, place, i, x)
        <5>1. f[i] \in Nat /\ f[x] \in Nat /\ f[x + 1] \in Nat
          BY <1>6, <3>1, <4>1
        <5>2. a \in Nat /\ a <= f[i] + (x - i) + 1
          BY <3>3, <5>1, AfterSlashIs
        <5> HIDE DEF a
        <5>3. a <= f[x] + 1
          BY <3>2, <5>2
        <5> QED BY <1>4, <4>2, <5>1, <5>2, <5>3 DEF a
      <4> QED BY <3>3, <4>2, <4>3 DEF Restarts
    <3>6. p[x] # StarStar => Matches(p[x], t[k])
      BY <3>3, <3>4 DEF ReadAt
    <3>7. k <= Len(t)
      BY <3>3
    <3> QED BY <2>3, <3>5, <3>6, <3>7 DEF Found
  <2> QED BY <2>2, <2>3
<1>10. Wild(p, t)
  <2>1. Located(p, t, place)
    BY <1>8, <1>9 DEF Located
  <2> QED BY <1>4, <2>1, WildIs
<1> QED BY <1>1, <1>2, <1>4, <1>10, WildStays


(* A pattern that begins with a directory's name is read as what is below  *)
(* the directory.                                                          *)
NoWildcards(d) == ToSet(d) \cap (DOMAIN Glob \cup {StarStar}) = {}
RestOf(t, d) == SubSeq(t, Len(d) + 1, Len(t))

LEMMA RestIs ==
  ASSUME NEW d \in Seq(Name), NEW t \in Seq(Name), Len(d) < Len(t)
  PROVE  /\ RestOf(t, d) \in Seq(Name) /\ Len(RestOf(t, d)) = Len(t) - Len(d)
         /\ \A x \in 1 .. Len(t) - Len(d) : RestOf(t, d)[x] = t[x + Len(d)]
<1>1. Len(d) \in Nat /\ Len(t) \in Nat
  OBVIOUS
<1>2. RestOf(t, d) \in Seq(Name) /\ Len(RestOf(t, d)) = Len(t) - Len(d)
  BY <1>1 DEF RestOf
<1>3. ASSUME NEW x \in 1 .. Len(t) - Len(d) PROVE RestOf(t, d)[x] = t[x + Len(d)]
  <2>1. (Len(d) + 1) + x - 1 = x + Len(d)
    BY <1>1
  <2> QED BY <1>1, <2>1 DEF RestOf
<1> QED BY <1>2, <1>3

LEMMA BelowIs ==
  ASSUME NEW d \in Seq(Name), NEW t \in Seq(Name)
  PROVE  Below(t, d) <=> Len(d) < Len(t) /\ \A x \in 1 .. Len(d) : t[x] = d[x]
<1>1. Len(d) \in Nat /\ Len(t) \in Nat
  OBVIOUS
<1>2. CASE Len(d) < Len(t)
  <2>1. Len(d) \in 0 .. Len(t)
    BY <1>1, <1>2
  <2>2. SubSeq(t, 1, Len(d)) = d <=> \A x \in 1 .. Len(d) : t[x] = d[x]
    BY <2>1, BeginningIs, SeqEqual
  <2> QED BY <1>1, <1>2, <2>2 DEF Below
<1>3. CASE ~(Len(d) < Len(t))
  BY <1>1, <1>3 DEF Below
<1> QED BY <1>2, <1>3

LEMMA ReadsOnlyBelow ==
  ASSUME NEW d \in Seq(Name), NoWildcards(d), NEW q \in Seq(Components), q # <<>>,
         NEW t \in Seq(Name), Reads(d \o q, t)
  PROVE  Below(t, d) /\ Reads(q, RestOf(t, d))
<1> DEFINE p == d \o q
<1>1. /\ Len(d) \in Nat /\ Len(q) \in Nat /\ Len(q) >= 1 /\ Len(t) \in Nat
      /\ d \in Seq(Components) /\ p \in Seq(Components) /\ Len(p) = Len(d) + Len(q)
      /\ \A x \in 1 .. Len(d) : p[x] = d[x] /\ d[x] \notin DOMAIN Glob /\ d[x] # StarStar
      /\ \A x \in 1 .. Len(q) : p[x + Len(d)] = q[x]
  <2>1. Len(d) \in Nat /\ Len(q) \in Nat /\ Len(q) >= 1 /\ Len(t) \in Nat /\ d \in Seq(Components)
    BY DEF Components
  <2>2. p \in Seq(Components) /\ Len(p) = Len(d) + Len(q)
    BY <2>1
  <2>3. \A x \in 1 .. Len(d) : p[x] = d[x] /\ d[x] \notin DOMAIN Glob /\ d[x] # StarStar
    BY <2>1 DEF NoWildcards, ToSet
  <2>4. ASSUME NEW x \in 1 .. Len(q) PROVE p[x + Len(d)] = q[x]
    BY <2>1
  <2> QED BY <2>1, <2>2, <2>3, <2>4
<1>2. PICK f \in [1 .. Len(p) + 1 -> 1 .. Len(t) + 1] :
        f[1] = 1 /\ f[Len(p) + 1] = Len(t) + 1 /\ \A x \in DOMAIN p : ReadAt(p, t, f, x)
  BY DEF Reads
<1> HIDE DEF p
<1>3. p # <<>> /\ f \in [1 .. Len(p) + 1 -> 1 .. Len(t) + 1]
  BY <1>1
<1>4. /\ \A i \in 1 .. Len(p) : f[i] \in 1 .. Len(t) /\ f[i] \in Nat
      /\ \A i \in 1 .. Len(p) : \A x \in i .. Len(p) + 1 : f[i] <= f[x]
  BY <1>1, <1>2, <1>3, ReadingRises
<1>5. \A x \in 1 .. Len(d) + 1 : f[x] = x
  <2>1. 1 \in 1 .. Len(p) /\ Len(d) + 1 \in 1 .. Len(p) + 1
    BY <1>1
  <2>2. \A y \in 1 .. (Len(d) + 1) - 1 : p[y] # StarStar
    BY <1>1
  <2>3. \A x \in 1 .. Len(d) + 1 : f[x] = f[1] + (x - 1)
    <3> DEFINE a == 1
    <3> DEFINE b == Len(d) + 1
    <3>1. a \in 1 .. Len(p) /\ b \in a .. Len(p) + 1 /\ \A y \in a .. b - 1 : p[y] # StarStar
      BY <2>1, <2>2
    <3>2. \A x \in a .. b : f[x] = f[a] + (x - a)
      <4>1. p \in Seq(Components)
        BY <1>1
      <4> HIDE DEF a, b
      <4> QED BY <1>2, <1>3, <3>1, <4>1, ReadingSteps
    <3> QED BY <3>2
  <2> QED BY <1>1, <1>2, <2>3
<1>6. Len(d) < Len(t)
  <2>1. Len(d) + 1 \in 1 .. Len(p) /\ Len(d) + 1 \in 1 .. Len(d) + 1
    BY <1>1
  <2>2. f[Len(d) + 1] \in 1 .. Len(t) /\ f[Len(d) + 1] = Len(d) + 1
    BY <1>4, <1>5, <2>1
  <2> QED BY <1>1, <2>2
<1>7. ASSUME NEW x \in 1 .. Len(d) PROVE t[x] = d[x]
  <2>1. x \in DOMAIN p /\ x \in 1 .. Len(d) + 1
    BY <1>1
  <2>2. f[x] = x /\ ReadAt(p, t, f, x) /\ p[x] = d[x] /\ p[x] # StarStar /\ d[x] \notin DOMAIN Glob
    BY <1>1, <1>2, <1>5, <2>1
  <2>3. Matches(d[x], t[x])
    BY <2>2 DEF ReadAt
  <2> QED BY <2>2, <2>3, MatchesLiteral
<1>8. Below(t, d)
  BY <1>6, <1>7, BelowIs
<1> DEFINE u == RestOf(t, d)
<1>9. /\ Len(u) = Len(t) - Len(d) /\ \A x \in 1 .. Len(t) - Len(d) : u[x] = t[x + Len(d)]
      /\ Len(u) \in Nat /\ Len(u) + 1 = (Len(t) + 1) - Len(d)
  BY <1>1, <1>6, RestIs
<1> HIDE DEF u
<1> DEFINE g == [x \in 1 .. Len(q) + 1 |-> f[x + Len(d)] - Len(d)]
<1>10. ASSUME NEW x \in 1 .. Len(q) + 1
       PROVE  f[x + Len(d)] \in Nat /\ f[x + Len(d)] > Len(d) /\ f[x + Len(d)] <= Len(t) + 1
              /\ g[x] = f[x + Len(d)] - Len(d)
  <2>1. Len(d) + 1 \in 1 .. Len(p) /\ x + Len(d) \in Len(d) + 1 .. Len(p) + 1
        /\ Len(d) + 1 \in 1 .. Len(d) + 1 /\ x + Len(d) \in 1 .. Len(p) + 1
    BY <1>1
  <2>2. f[x + Len(d)] \in 1 .. Len(t) + 1
    BY <1>3, <2>1
  <2>3. f[Len(d) + 1] = Len(d) + 1 /\ f[Len(d) + 1] <= f[x + Len(d)]
    BY <1>4, <1>5, <2>1
  <2> QED BY <1>1, <2>2, <2>3
<1>11. g \in [1 .. Len(q) + 1 -> 1 .. Len(u) + 1]
  <2> SUFFICES ASSUME NEW x \in 1 .. Len(q) + 1 PROVE f[x + Len(d)] - Len(d) \in 1 .. Len(u) + 1
    OBVIOUS
  <2> QED BY <1>1, <1>9, <1>10
<1>12. g[1] = 1 /\ g[Len(q) + 1] = Len(u) + 1
  <2>1. 1 \in 1 .. Len(q) + 1 /\ Len(q) + 1 \in 1 .. Len(q) + 1 /\ 1 + Len(d) = Len(d) + 1
        /\ (Len(q) + 1) + Len(d) = Len(p) + 1 /\ Len(d) + 1 \in 1 .. Len(d) + 1
    BY <1>1
  <2>2. f[1 + Len(d)] = Len(d) + 1 /\ f[(Len(q) + 1) + Len(d)] = Len(t) + 1
    BY <1>2, <1>5, <2>1
  <2> QED BY <1>1, <1>9, <1>10, <2>1, <2>2
<1> HIDE DEF g
<1>13. ASSUME NEW x \in DOMAIN q PROVE ReadAt(q, u, g, x)
  <2> DEFINE z == x + Len(d)
  <2>1. /\ x \in 1 .. Len(q) /\ x \in 1 .. Len(q) + 1 /\ x + 1 \in 1 .. Len(q) + 1
        /\ (x + 1) + Len(d) = z + 1 /\ z \in DOMAIN p /\ z \in 1 .. Len(p)
        /\ x = Len(q) => z = Len(p)
    <3>1. x \in 1 .. Len(q)
      OBVIOUS
    <3>2. DOMAIN p = 1 .. Len(p) /\ Len(p) = Len(d) + Len(q) /\ Len(d) \in Nat /\ Len(q) \in Nat
      BY <1>1
    <3>3. x \in 1 .. Len(q) + 1 /\ x + 1 \in 1 .. Len(q) + 1 /\ (x + 1) + Len(d) = z + 1
      BY <3>1, <3>2
    <3>4. x \in Nat /\ x >= 1 /\ x <= Len(q) /\ z \in Nat /\ z >= 1 /\ z <= Len(d) + Len(q)
      BY <3>1, <3>2
    <3>5. z \in 1 .. Len(p)
      BY <3>2, <3>4
    <3>6. x = Len(q) => z = Len(p)
      BY <3>2, <3>4
    <3> QED BY <3>1, <3>2, <3>3, <3>5, <3>6
  <2>2. /\ f[z] \in Nat /\ f[z + 1] \in Nat /\ g[x] = f[z] - Len(d) /\ g[x + 1] = f[z + 1] - Len(d)
        /\ f[z] > Len(d)
    BY <1>10, <2>1
  <2>3. ReadAt(p, t, f, z) /\ p[z] = q[x] /\ f[z] <= Len(t)
    BY <1>1, <1>2, <1>4, <2>1
  <2> HIDE DEF z
  <2>4. CASE q[x] = StarStar
    <3>1. f[z] <= f[z + 1] /\ (x = Len(q) => f[z] < f[z + 1])
      BY <2>1, <2>3, <2>4 DEF ReadAt
    <3>2. g[x] <= g[x + 1] /\ (x = Len(q) => g[x] < g[x + 1])
      BY <1>1, <2>2, <3>1
    <3> QED BY <2>4, <3>2 DEF ReadAt
  <2>5. CASE q[x] # StarStar
    <3>1. f[z + 1] = f[z] + 1 /\ Matches(q[x], t[f[z]])
      BY <2>3, <2>5 DEF ReadAt
    <3>2. g[x + 1] = g[x] + 1 /\ g[x] \in 1 .. Len(t) - Len(d) /\ g[x] + Len(d) = f[z]
      <4>1. Len(d) \in Nat /\ Len(t) \in Nat
        BY <1>1
      <4>2. f[z] - Len(d) \in 1 .. Len(t) - Len(d)
        BY <2>2, <2>3, <4>1
      <4>3. (f[z] - Len(d)) + Len(d) = f[z] /\ (f[z] + 1) - Len(d) = (f[z] - Len(d)) + 1
        <5>1. \A a, b \in Nat : (a - b) + b = a /\ (a + 1) - b = (a - b) + 1
          OBVIOUS
        <5> QED BY <2>2, <4>1, <5>1
      <4> QED BY <2>2, <3>1, <4>2, <4>3
    <3> QED BY <1>9, <2>5, <3>1, <3>2 DEF ReadAt
  <2> QED BY <2>4, <2>5
<1>14. Reads(q, u)
  BY <1>11, <1>12, <1>13 DEF Reads
<1> QED BY <1>8, <1>14 DEF u


LEMMA BelowReads ==
  ASSUME NEW d \in Seq(Name), NoWildcards(d), NEW q \in Seq(Components), q # <<>>,
         NEW t \in Seq(Name), Below(t, d), Reads(q, RestOf(t, d))
  PROVE  Reads(d \o q, t)
<1> DEFINE p == d \o q
<1> DEFINE u == RestOf(t, d)
<1>1. /\ Len(d) \in Nat /\ Len(q) \in Nat /\ Len(q) >= 1 /\ Len(t) \in Nat
      /\ Len(p) = Len(d) + Len(q) /\ DOMAIN p = 1 .. Len(p)
      /\ \A x \in 1 .. Len(d) : p[x] = d[x] /\ d[x] \notin DOMAIN Glob /\ d[x] # StarStar
      /\ \A x \in 1 .. Len(q) : p[x + Len(d)] = q[x]
  <2>1. Len(d) \in Nat /\ Len(q) \in Nat /\ Len(q) >= 1 /\ Len(t) \in Nat /\ d \in Seq(Components)
    BY DEF Components
  <2>2. p \in Seq(Components) /\ Len(p) = Len(d) + Len(q)
    BY <2>1
  <2>3. \A x \in 1 .. Len(d) : p[x] = d[x] /\ d[x] \notin DOMAIN Glob /\ d[x] # StarStar
    BY <2>1 DEF NoWildcards, ToSet
  <2>4. ASSUME NEW x \in 1 .. Len(q) PROVE p[x + Len(d)] = q[x]
    BY <2>1
  <2> QED BY <2>1, <2>2, <2>3, <2>4
<1>2. PICK g \in [1 .. Len(q) + 1 -> 1 .. Len(u) + 1] :
        g[1] = 1 /\ g[Len(q) + 1] = Len(u) + 1 /\ \A x \in DOMAIN q : ReadAt(q, u, g, x)
  BY DEF Reads
<1>3. Len(d) < Len(t) /\ \A x \in 1 .. Len(d) : t[x] = d[x]
  BY BelowIs
<1>4. Len(u) = Len(t) - Len(d) /\ \A x \in 1 .. Len(t) - Len(d) : u[x] = t[x + Len(d)]
  BY <1>3, RestIs
<1> HIDE DEF p, u
<1>5. \A x \in 1 .. Len(q) + 1 : g[x] \in Nat /\ g[x] >= 1 /\ g[x] + Len(d) <= Len(t) + 1
  <2> SUFFICES ASSUME NEW x \in 1 .. Len(q) + 1
               PROVE  g[x] \in Nat /\ g[x] >= 1 /\ g[x] + Len(d) <= Len(t) + 1
    OBVIOUS
  <2>1. g[x] \in 1 .. (Len(t) - Len(d)) + 1
    BY <1>4
  <2> QED BY <1>1, <1>3, <2>1
<1> DEFINE f == [x \in 1 .. Len(p) + 1 |-> IF x <= Len(d) THEN x ELSE g[x - Len(d)] + Len(d)]
<1>6. ASSUME NEW x \in 1 .. Len(d)
      PROVE  x \in 1 .. Len(p) + 1 /\ f[x] = x
  BY <1>1
<1>7. ASSUME NEW x \in 1 .. Len(q) + 1
      PROVE  x + Len(d) \in 1 .. Len(p) + 1 /\ f[x + Len(d)] = g[x] + Len(d)
  <2>1. /\ x + Len(d) \in 1 .. (Len(d) + Len(q)) + 1 /\ ~(x + Len(d) <= Len(d))
        /\ (x + Len(d)) - Len(d) = x
    BY <1>1
  <2> QED BY <1>1, <2>1
<1>8. f \in [1 .. Len(p) + 1 -> 1 .. Len(t) + 1]
  <2> SUFFICES ASSUME NEW x \in 1 .. Len(p) + 1
               PROVE  (IF x <= Len(d) THEN x ELSE g[x - Len(d)] + Len(d)) \in 1 .. Len(t) + 1
    OBVIOUS
  <2>1. CASE x <= Len(d)
    BY <1>1, <1>3, <2>1
  <2>2. CASE ~(x <= Len(d))
    <3>1. x - Len(d) \in 1 .. Len(q) + 1
      BY <1>1, <2>2
    <3>2. g[x - Len(d)] \in Nat /\ g[x - Len(d)] >= 1 /\ g[x - Len(d)] + Len(d) <= Len(t) + 1
      BY <1>5, <3>1
    <3>3. g[x - Len(d)] + Len(d) \in 1 .. Len(t) + 1
      BY <1>1, <3>2
    <3> QED BY <2>2, <3>3
  <2> QED BY <2>1, <2>2
<1> HIDE DEF f
<1>9. f[Len(d) + 1] = Len(d) + 1 /\ f[Len(p) + 1] = Len(t) + 1
  <2>1. 1 \in 1 .. Len(q) + 1 /\ Len(q) + 1 \in 1 .. Len(q) + 1
    BY <1>1
  <2>2. f[1 + Len(d)] = 1 + Len(d) /\ f[(Len(q) + 1) + Len(d)] = (Len(u) + 1) + Len(d)
    BY <1>2, <1>7, <2>1
  <2>3. 1 + Len(d) = Len(d) + 1 /\ (Len(q) + 1) + Len(d) = Len(p) + 1
    BY <1>1
  <2>4. (Len(u) + 1) + Len(d) = Len(t) + 1
    BY <1>1, <1>4
  <2> QED BY <2>2, <2>3, <2>4
<1>10. f[1] = 1
  <2>1. CASE Len(d) = 0
    BY <1>1, <1>9, <2>1
  <2>2. CASE Len(d) # 0
    BY <1>1, <1>6, <2>2
  <2> QED BY <2>1, <2>2
<1>11. ASSUME NEW z \in DOMAIN p PROVE ReadAt(p, t, f, z)
  <2>1. z \in 1 .. Len(d) + Len(q)
    BY <1>1
  <2>2. CASE z <= Len(d)
    <3>1. z \in 1 .. Len(d) /\ (z + 1 \in 1 .. Len(d) \/ z + 1 = Len(d) + 1)
      BY <1>1, <2>1, <2>2
    <3>2. f[z] = z /\ f[z + 1] = z + 1
      BY <1>6, <1>9, <3>1
    <3>3. p[z] = d[z] /\ d[z] # StarStar /\ d[z] \notin DOMAIN Glob /\ t[z] = d[z]
      BY <1>1, <1>3, <3>1
    <3> QED BY <3>2, <3>3, MatchesLiteral DEF ReadAt
  <2>3. CASE ~(z <= Len(d))
    <3> DEFINE x == z - Len(d)
    <3>1. x \in 1 .. Len(q) /\ x + Len(d) = z
      BY <1>1, <2>1, <2>3
    <3>2. (x + 1) + Len(d) = z + 1 /\ x \in Nat /\ z \in Nat
      BY <1>1, <2>1, <3>1
    <3>3. z = Len(p) => x = Len(q)
      BY <1>1, <3>1, <3>2
    <3> HIDE DEF x
    <3>4. x \in 1 .. Len(q) + 1 /\ x + 1 \in 1 .. Len(q) + 1 /\ x \in DOMAIN q
      BY <1>1, <3>1
    <3>5. f[z] = g[x] + Len(d) /\ f[z + 1] = g[x + 1] + Len(d) /\ p[z] = q[x]
      BY <1>1, <1>7, <3>1, <3>2, <3>4
    <3>6. g[x] \in Nat /\ g[x + 1] \in Nat /\ g[x] >= 1 /\ g[x + 1] + Len(d) <= Len(t) + 1
          /\ ReadAt(q, u, g, x)
      BY <1>2, <1>5, <3>4
    <3>7. Len(d) \in Nat /\ Len(t) \in Nat
      BY <1>1
    <3>8. CASE q[x] = StarStar
      <4>1. g[x] <= g[x + 1] /\ (x = Len(q) => g[x] < g[x + 1])
        BY <3>6, <3>8 DEF ReadAt
      <4>2. \A a, b \in Nat : (a <= b => a + Len(d) <= b + Len(d)) /\ (a < b => a + Len(d) < b + Len(d))
        BY <3>7
      <4> QED BY <3>3, <3>5, <3>6, <3>8, <4>1, <4>2 DEF ReadAt
    <3>9. CASE q[x] # StarStar
      <4>1. g[x + 1] = g[x] + 1 /\ Matches(q[x], u[g[x]])
        BY <3>6, <3>9 DEF ReadAt
      <4>2. g[x] \in 1 .. Len(t) - Len(d) /\ f[z + 1] = f[z] + 1
        <5>1. \A a, b \in Nat : a >= 1 /\ (a + 1) + b <= Len(t) + 1
                => a \in 1 .. Len(t) - b /\ (a + 1) + b = (a + b) + 1
          BY <3>7
        <5> QED BY <3>5, <3>6, <3>7, <4>1, <5>1
      <4>3. u[g[x]] = t[f[z]]
        BY <1>4, <3>5, <4>2
      <4> QED BY <3>5, <3>9, <4>1, <4>2, <4>3 DEF ReadAt
    <3> QED BY <3>8, <3>9
  <2> QED BY <2>2, <2>3
<1>12. Reads(p, t)
  BY <1>8, <1>9, <1>10, <1>11 DEF Reads
<1> QED BY <1>12 DEF p

(* A name after ** is read at any depth.                                   *)
LEMMA ReadsOne ==
  ASSUME NEW c, NEW n
  PROVE  Reads(<<c>>, <<n>>) <=> c = StarStar \/ Matches(c, n)
<1>1. ASSUME Reads(<<c>>, <<n>>) PROVE c = StarStar \/ Matches(c, n)
  <2>1. PICK f \in [1 .. Len(<<c>>) + 1 -> 1 .. Len(<<n>>) + 1] :
          f[1] = 1 /\ f[Len(<<c>>) + 1] = Len(<<n>>) + 1
          /\ \A x \in DOMAIN <<c>> : ReadAt(<<c>>, <<n>>, f, x)
    BY <1>1 DEF Reads
  <2>2. 1 \in DOMAIN <<c>> /\ <<c>>[1] = c /\ <<n>>[1] = n
    OBVIOUS
  <2>3. f[1] = 1 /\ ReadAt(<<c>>, <<n>>, f, 1)
    BY <2>1, <2>2
  <2> QED BY <2>2, <2>3 DEF ReadAt
<1>2. ASSUME c = StarStar \/ Matches(c, n) PROVE Reads(<<c>>, <<n>>)
  <2> DEFINE f == [x \in 1 .. 2 |-> x]
  <2>1. f \in [1 .. Len(<<c>>) + 1 -> 1 .. Len(<<n>>) + 1] /\ f[1] = 1 /\ f[2] = 2 /\ f[Len(<<c>>) + 1] = Len(<<n>>) + 1
    OBVIOUS
  <2> HIDE DEF f
  <2>2. ASSUME NEW x \in DOMAIN <<c>> PROVE ReadAt(<<c>>, <<n>>, f, x)
    <3>1. x = 1 /\ <<c>>[1] = c /\ <<n>>[1] = n
      OBVIOUS
    <3> QED BY <1>2, <2>1, <3>1 DEF ReadAt
  <2> QED BY <2>1, <2>2 DEF Reads
<1> QED BY <1>1, <1>2

LEMMA ReadsAnyDepth ==
  ASSUME NEW c \in Components, NEW t \in Seq(Name)
  PROVE  Reads(<<StarStar, c>>, t) <=> t # <<>> /\ Reads(<<c>>, <<Last(t)>>)
<1> DEFINE p == <<StarStar, c>>
<1>1. Len(p) = 2 /\ DOMAIN p = {1, 2} /\ p[1] = StarStar /\ p[2] = c /\ Len(t) \in Nat
      /\ p \in Seq(Components)
  BY DEF Components
<1> HIDE DEF p
<1>2. ASSUME Reads(p, t) PROVE t # <<>> /\ (c = StarStar \/ Matches(c, Last(t)))
  <2>1. PICK f \in [1 .. Len(p) + 1 -> 1 .. Len(t) + 1] :
          f[1] = 1 /\ f[Len(p) + 1] = Len(t) + 1 /\ \A x \in DOMAIN p : ReadAt(p, t, f, x)
    BY <1>2 DEF Reads
  <2>2. p # <<>> /\ f \in [1 .. Len(p) + 1 -> 1 .. Len(t) + 1]
    <3>1. p # <<>>
      BY DEF p
    <3> QED BY <2>1, <3>1
  <2>3. f[2] \in 1 .. Len(t)
    <3>1. \A i \in 1 .. Len(p) : f[i] \in 1 .. Len(t) /\ f[i] \in Nat
      BY <1>1, <2>1, <2>2, ReadingRises
    <3> QED BY <1>1, <3>1
  <2>4. t # <<>>
    BY <1>1, <2>3
  <2>5. ASSUME c # StarStar PROVE Matches(c, Last(t))
    <3>1. ReadAt(p, t, f, 2) /\ f[3] = Len(t) + 1
      BY <1>1, <2>1
    <3>2. f[3] = f[2] + 1 /\ Matches(c, t[f[2]])
      BY <1>1, <2>5, <3>1 DEF ReadAt
    <3>3. f[2] = Len(t)
      BY <1>1, <2>3, <3>1, <3>2
    <3> QED BY <3>2, <3>3 DEF Last
  <2> QED BY <2>4, <2>5
<1>3. ASSUME t # <<>>, c = StarStar \/ Matches(c, Last(t)) PROVE Reads(p, t)
  <2> DEFINE f == [x \in 1 .. 3 |-> IF x = 1 THEN 1 ELSE IF x = 2 THEN Len(t) ELSE Len(t) + 1]
  <2>1. Len(t) >= 1
    BY <1>1, <1>3
  <2>2. /\ f \in [1 .. 3 -> 1 .. Len(t) + 1] /\ f[1] = 1 /\ f[2] = Len(t) /\ f[3] = Len(t) + 1
    BY <1>1, <2>1
  <2> HIDE DEF f
  <2>3. ReadAt(p, t, f, 1)
    BY <1>1, <2>1, <2>2 DEF ReadAt
  <2>4. ReadAt(p, t, f, 2)
    BY <1>1, <1>3, <2>1, <2>2 DEF ReadAt, Last
  <2> QED BY <1>1, <2>2, <2>3, <2>4 DEF Reads
<1> QED BY <1>2, <1>3, ReadsOne DEF p


-----------------------------------------------------------------------------
(* The pattern for the paths a line is about, and what it is said to cover.*)
AsPath(l) == IF l.rooted THEN l.names ELSE AtAnyDepth(l.names)

LEMMA AskedIs ==
  ASSUME NEW l \in Parsed, l.names # <<>>
  PROVE  /\ AsPath(l) \in Seq(Components) /\ AsPath(l) # <<>>
         /\ ~l.rooted /\ Len(l.names) = 1 => AsPath(l) = <<StarStar, l.names[1]>> /\ l.names = <<l.names[1]>>
                                             /\ l.names[1] \in Components
         /\ l.rooted \/ Len(l.names) # 1 => AsPath(l) = l.names
<1>1. l.names \in Seq(Components)
  BY DEF Parsed
<1>2. AsPath(l) \in Seq(Components) /\ AsPath(l) # <<>>
  BY <1>1, AnyDepthTyped DEF AsPath
<1>3. ASSUME ~l.rooted, Len(l.names) = 1
      PROVE  /\ AsPath(l) = <<StarStar, l.names[1]>> /\ l.names = <<l.names[1]>>
             /\ l.names[1] \in Components
  <2> DEFINE c == l.names[1]
  <2>1. l.names = <<c>> /\ c \in Components
    BY <1>1, <1>3
  <2>2. AsPath(l) = <<StarStar>> \o l.names
    BY <1>3 DEF AsPath, AtAnyDepth
  <2>3. (<<StarStar>> \o <<c>>) = <<StarStar, c>>
    <3>1. <<StarStar>> \in Seq(Components) /\ <<c>> \in Seq(Components) /\ <<StarStar, c>> \in Seq(Components)
      BY <2>1 DEF Components
    <3>2. Len(<<StarStar>>) = 1 /\ Len(<<c>>) = 1 /\ Len(<<StarStar, c>>) = 2
      OBVIOUS
    <3>3. <<StarStar>>[1] = StarStar /\ <<c>>[1] = c /\ <<StarStar, c>>[1] = StarStar /\ <<StarStar, c>>[2] = c
      OBVIOUS
    <3> DEFINE u == <<StarStar>>
    <3> DEFINE v == <<c>>
    <3> DEFINE w == <<StarStar, c>>
    <3> HIDE DEF u, v, w
    <3>4. u \o v \in Seq(Components) /\ Len(u \o v) = Len(w)
          /\ \A x \in 1 .. Len(w) : (u \o v)[x] = w[x]
      BY <3>1, <3>2, <3>3 DEF u, v, w
    <3> QED BY <3>1, <3>4, SeqEqual DEF u, v, w
  <2> QED BY <2>1, <2>2, <2>3
<1>4. l.rooted \/ Len(l.names) # 1 => AsPath(l) = l.names
  BY DEF AsPath, AtAnyDepth
<1> QED BY <1>2, <1>3, <1>4

LEMMA CoversIs ==
  ASSUME NEW d \in Folder, NoWildcards(d), NEW l \in Parsed, l.names # <<>>, NEW p \in Seq(Name)
  PROVE  Covers(d, l, p) <=> (l.folders => p \in Dir) /\ Reads(d \o AsPath(l), p)
<1> DEFINE q == AsPath(l)
<1>1. d \in Seq(Name) /\ q \in Seq(Components) /\ q # <<>> /\ Len(d) \in Nat /\ Len(p) \in Nat
  BY AskedIs, FolderIs
<1>2. Reads(d \o q, p) <=> Below(p, d) /\ Reads(q, RestOf(p, d))
  BY <1>1, ReadsOnlyBelow, BelowReads
<1>3. ASSUME Below(p, d)
      PROVE  Reads(q, RestOf(p, d))
             <=> Reads(l.names, IF ~ l.rooted /\ Len(l.names) = 1 THEN <<Last(p)>>
                                ELSE SubSeq(p, Len(d) + 1, Len(p)))
  <2>1. CASE ~ l.rooted /\ Len(l.names) = 1
    <3>1. Len(d) < Len(p)
      BY <1>1, <1>3, BelowIs
    <3>2. /\ RestOf(p, d) \in Seq(Name) /\ Len(RestOf(p, d)) = Len(p) - Len(d)
          /\ \A x \in 1 .. Len(p) - Len(d) : RestOf(p, d)[x] = p[x + Len(d)]
      BY <1>1, <3>1, RestIs
    <3>3. Len(p) - Len(d) \in 1 .. Len(p) - Len(d) /\ (Len(p) - Len(d)) + Len(d) = Len(p)
      BY <1>1, <3>1
    <3>4. RestOf(p, d) # <<>> /\ Last(RestOf(p, d)) = Last(p)
      BY <3>2, <3>3 DEF Last
    <3>5. q = <<StarStar, l.names[1]>> /\ l.names = <<l.names[1]>> /\ l.names[1] \in Components
      BY <2>1, AskedIs
    <3>6. Reads(<<StarStar, l.names[1]>>, RestOf(p, d)) <=> Reads(<<l.names[1]>>, <<Last(p)>>)
      BY <3>2, <3>4, <3>5, ReadsAnyDepth
    <3> QED BY <2>1, <3>5, <3>6
  <2>2. CASE ~(~ l.rooted /\ Len(l.names) = 1)
    <3>1. q = l.names
      BY <2>2, AskedIs DEF Parsed
    <3> QED BY <2>2, <3>1 DEF RestOf
  <2> QED BY <2>1, <2>2
<1> QED BY <1>2, <1>3 DEF Covers

(* The directories on the way to a path.                                   *)
LEMMA BeginningsAreFolders ==
  ASSUME NEW p \in Dir \cup File
  PROVE  \A b \in Beginnings(p) : b = p \/ b \in Dir
<1>1. p \in Seq(Name) /\ Len(p) \in Nat /\ Len(p) > 0
  BY PathIs
<1> DEFINE S == {m \in Nat : m < Len(p) => Len(p) - m = Len(p) \/ SubSeq(p, 1, Len(p) - m) \in Dir}
<1>2. 0 \in S
  BY <1>1
<1>3. ASSUME NEW m \in 0 .. Len(p) - 1, m \in S PROVE m + 1 \in S
  <2>1. CASE m + 1 < Len(p)
    <3> DEFINE b == SubSeq(p, 1, Len(p) - m)
    <3>1. Len(p) - m \in 0 .. Len(p) /\ Len(p) - m > 0 /\ m < Len(p)
      BY <1>1, <2>1
    <3>2. b \in Dir \cup File
      <4>1. CASE m = 0
        <5>1. b = p
          BY <1>1, <3>1, <4>1, BeginningIs, SeqEqual
        <5> QED BY <5>1
      <4>2. CASE m # 0
        <5>1. Len(p) - m # Len(p)
          BY <1>1, <4>2
        <5> QED BY <1>3, <3>1, <5>1
      <4> QED BY <4>1, <4>2
    <3>3. Len(b) = Len(p) - m /\ Len(b) \in Nat
      BY <1>1, <3>1, BeginningIs
    <3>4. Parent(b) = SubSeq(p, 1, Len(p) - (m + 1)) /\ Parent(b) # <<>>
      <4>1. Len(b) - 1 = Len(p) - (m + 1) /\ Len(p) - (m + 1) \in 0 .. Len(p) /\ Len(p) - (m + 1) \in 0 .. Len(b)
            /\ Len(p) - (m + 1) > 0
        BY <1>1, <2>1, <3>1, <3>3
      <4> DEFINE k == Len(p) - (m + 1)
      <4>2. k \in 0 .. Len(p) /\ k \in 0 .. Len(b) /\ k > 0 /\ \A x \in 1 .. k : x \in 1 .. Len(b)
        BY <4>1, <3>3
      <4>3. /\ b \in Seq(Name) /\ \A x \in 1 .. Len(b) : b[x] = p[x]
        BY <1>1, <3>1, <3>3, BeginningIs
      <4> HIDE DEF k, b
      <4>4. SubSeq(b, 1, k) \in Seq(Name) /\ Len(SubSeq(b, 1, k)) = k /\ \A x \in 1 .. k : SubSeq(b, 1, k)[x] = b[x]
        BY <4>2, <4>3, BeginningIs
      <4>5. SubSeq(p, 1, k) \in Seq(Name) /\ Len(SubSeq(p, 1, k)) = k /\ \A x \in 1 .. k : SubSeq(p, 1, k)[x] = p[x]
        BY <1>1, <4>2, BeginningIs
      <4>6. \A x \in 1 .. k : SubSeq(b, 1, k)[x] = SubSeq(p, 1, k)[x]
        BY <4>2, <4>3, <4>4, <4>5
      <4>7. SubSeq(b, 1, k) = SubSeq(p, 1, k)
        BY <4>4, <4>5, <4>6, SeqEqual
      <4>8. SubSeq(p, 1, k) # <<>>
        BY <4>2, <4>5
      <4> QED BY <4>1, <4>7, <4>8 DEF Parent, k
    <3>5. Parent(b) \in Dir
      BY <3>2, <3>4, PathIs DEF Folder
    <3>6. SubSeq(p, 1, Len(p) - (m + 1)) \in Dir
      <4> HIDE DEF b
      <4> QED BY <3>4, <3>5
    <3>7. m + 1 \in Nat
      BY <1>1
    <3> QED BY <3>6, <3>7
  <2>2. CASE ~(m + 1 < Len(p))
    BY <1>3, <2>2
  <2> QED BY <2>1, <2>2
<1>4. \A m \in 0 .. Len(p) : m \in S
  <2> HIDE DEF S
  <2> QED BY <1>1, <1>2, <1>3, Ladder
<1>5. ASSUME NEW n \in 1 .. Len(p) PROVE SubSeq(p, 1, n) = p \/ SubSeq(p, 1, n) \in Dir
  <2>1. CASE n = Len(p)
    <3>1. n \in 0 .. Len(p)
      BY <1>1
    <3> QED BY <1>1, <2>1, <3>1, BeginningIs, SeqEqual
  <2>2. CASE n # Len(p)
    <3> DEFINE m == Len(p) - n
    <3>1. m \in 0 .. Len(p) /\ m < Len(p) /\ Len(p) - m = n
      BY <1>1, <2>2
    <3>2. m \in S
      BY <1>4, <3>1
    <3> QED BY <2>2, <3>1, <3>2
  <2> QED BY <2>1, <2>2
<1> QED BY <1>5 DEF Beginnings


(* What a line is rewritten to, and what it hits: the paths at which a path*)
(* it covers has been passed.                                              *)
LEMMA PatternIs ==
  ASSUME NEW d \in Folder, NEW l \in Parsed, l.names # <<>>
  PROVE  LET r == Rewrite(d, l)
         IN  /\ r.names # <<>> /\ r.folders = l.folders
             /\ (IF r.rooted THEN r.names ELSE AtAnyDepth(r.names)) = d \o AsPath(l)
             /\ d \o AsPath(l) \in Seq(Components) /\ d \o AsPath(l) # <<>>
             /\ Overlaps(d \o AsPath(l)) => Overlaps(r.names)
<1> DEFINE r == Rewrite(d, l)
<1> DEFINE q == AsPath(l)
<1>1. q \in Seq(Components) /\ q # <<>> /\ d \in Seq(Components)
  BY AskedIs, FolderIs
<1>2. d \o q \in Seq(Components)
  BY <1>1
<1>3. CASE d = <<>>
  <2>1. r = l /\ d \o q = q
    BY <1>1, <1>3 DEF Rewrite
  <2>2. ASSUME Overlaps(q) PROVE Overlaps(l.names)
    <3>1. CASE ~l.rooted /\ Len(l.names) = 1
      <4>1. Len(q) = 2
        <5>1. q = <<StarStar, l.names[1]>>
          BY <3>1, AskedIs
        <5> QED BY <5>1
      <4>2. 3 .. Len(q) - 1 = {}
        BY <4>1
      <4> QED BY <2>2, <4>2 DEF Overlaps
    <3>2. CASE l.rooted \/ Len(l.names) # 1
      BY <2>2, <3>2, AskedIs
    <3>3. l.rooted \/ ~l.rooted
      OBVIOUS
    <3> QED BY <3>1, <3>2, <3>3
  <2>3. (IF r.rooted THEN r.names ELSE AtAnyDepth(r.names)) = q
    BY <2>1 DEF AsPath
  <2> QED BY <1>1, <2>1, <2>2, <2>3
<1>4. CASE d # <<>>
  <2>1. /\ q # <<>> /\ r = [rooted |-> FALSE, names |-> d \o q, folders |-> l.folders]
        /\ AtAnyDepth(d \o q) = d \o q /\ d \o q # <<>>
    BY <1>4, RewriteIs DEF AsPath
  <2> HIDE DEF q, r
  <2>2. r.names = d \o q /\ r.rooted = FALSE /\ r.folders = l.folders
    BY <2>1
  <2> QED BY <1>2, <2>1, <2>2 DEF q, r
<1> QED BY <1>3, <1>4

LEMMA WildIsRead ==
  ASSUME NEW p \in Seq(Components), p # <<>>, ~Overlaps(p), NEW s \in Seq(Name), s # <<>>
  PROVE  Wild(p, s) <=> \E b \in Beginnings(s) : Reads(p, b)
<1>1. Wild(p, s) => \E n \in 1 .. Len(s) : Reads(p, SubSeq(s, 1, n))
  BY WildReads
<1>2. ASSUME NEW n \in 1 .. Len(s), Reads(p, SubSeq(s, 1, n)) PROVE Wild(p, s)
  BY <1>2, ReadsWild
<1> QED BY <1>1, <1>2 DEF Beginnings

LEMMA EmptyMissed ==
  ASSUME NEW d \in Folder, NoWildcards(d), NEW l \in Parsed, l.names # <<>>,
         ~(d = <<>> /\ MatchesEmpty(AtAnyDepth(l.names)))
  PROVE  ~Wild(d \o AsPath(l), <<>>)
<1> DEFINE q == AsPath(l)
<1>1. q \in Seq(Components) /\ q # <<>> /\ d \in Seq(Components) /\ Len(q) \in Nat /\ Len(q) >= 1 /\ Len(d) \in Nat
  BY AskedIs, FolderIs
<1>2. CASE d # <<>>
  <2>1. 1 \in 1 .. Len(d) /\ Len(d) >= 1
    BY <1>1, <1>2
  <2>2. (d \o q)[1] = d[1] /\ Len(d \o q) = Len(d) + Len(q)
    BY <1>1, <2>1
  <2>3. d[1] # StarStar
    BY <1>1, <2>1 DEF NoWildcards, ToSet
  <2>4. 1 \in 1 .. Len(d \o q) - 1
    BY <1>1, <2>1, <2>2
  <2> QED BY <2>2, <2>3, <2>4 DEF Wild, MatchesEmpty
<1>3. CASE d = <<>>
  <2>1. d \o q = q
    BY <1>1, <1>3
  <2>2. ASSUME MatchesEmpty(q) PROVE FALSE
    <3>1. CASE l.rooted /\ Len(l.names) = 1
      <4> DEFINE c == l.names[1]
      <4>1. q = l.names /\ l.names \in Seq(Components)
        BY <3>1, AskedIs DEF Parsed
      <4>2. Last(l.names) = c
        BY <3>1 DEF Last
      <4>3. c \in {"*", StarStar}
        BY <2>2, <4>1, <4>2 DEF MatchesEmpty
      <4> DEFINE m == [l EXCEPT !.rooted = FALSE]
      <4>4. m \in Parsed /\ m.names = l.names /\ ~m.rooted
        BY DEF Parsed
      <4> HIDE DEF m
      <4>5. AsPath(m) = <<StarStar, c>>
        BY <3>1, <4>4, AskedIs
      <4>6. AtAnyDepth(l.names) = <<StarStar, c>>
        BY <4>4, <4>5 DEF AsPath
      <4>7. MatchesEmpty(<<StarStar, c>>)
        <5>1. Len(<<StarStar, c>>) = 2 /\ <<StarStar, c>>[1] = StarStar /\ <<StarStar, c>>[2] = c
          OBVIOUS
        <5>2. \A i \in 1 .. 2 - 1 : i = 1
          OBVIOUS
        <5> QED BY <4>3, <5>1, <5>2 DEF MatchesEmpty, Last
      <4> QED BY <1>3, <4>6, <4>7
    <3>2. CASE ~(l.rooted /\ Len(l.names) = 1)
      <4>1. q = AtAnyDepth(l.names)
        BY <3>2 DEF AsPath, AtAnyDepth
      <4> QED BY <1>3, <2>2, <4>1
    <3> QED BY <3>1, <3>2
  <2> QED BY <2>1, <2>2 DEF Wild
<1> QED BY <1>2, <1>3

LEMMA FoldersOnTheWay ==
  ASSUME NEW p \in Dir \cup File
  PROVE  p \notin Dir => Beginnings(p) \cap Dir = Beginnings(Parent(p))
<1> SUFFICES ASSUME p \notin Dir PROVE Beginnings(p) \cap Dir = Beginnings(Parent(p))
  OBVIOUS
<1>1. p \in Seq(Name) /\ Len(p) \in Nat /\ Len(p) > 0
  BY PathIs
<1>2. CASE Len(p) = 1
  <2>1. Parent(p) = <<>> /\ Beginnings(Parent(p)) = {}
    BY <1>1, <1>2 DEF Parent, Beginnings
  <2>2. \A b \in Beginnings(p) : b = p
    <3>1. SubSeq(p, 1, 1) = p
      <4>1. Len(p) \in 0 .. Len(p)
        BY <1>1
      <4> QED BY <1>1, <1>2, <4>1, BeginningIs, SeqEqual
    <3> QED BY <1>2, <3>1 DEF Beginnings
  <2> QED BY <2>1, <2>2
<1>3. CASE Len(p) # 1
  <2>1. Len(p) - 1 \in 1 .. Len(p) /\ Len(p) - 1 \in 0 .. Len(p)
    <3>1. \A n \in Nat : n > 0 /\ n # 1 => n - 1 \in 1 .. n /\ n - 1 \in 0 .. n
      OBVIOUS
    <3> QED BY <1>1, <1>3, <3>1
  <2>2. Beginnings(Parent(p)) = {SubSeq(p, 1, m) : m \in 1 .. Len(p) - 1}
    BY <1>1, <2>1, BeginningsOfBeginning DEF Parent
  <2>3. ASSUME NEW m \in 1 .. Len(p) - 1 PROVE SubSeq(p, 1, m) \in Beginnings(p) \cap Dir
    <3>1. m \in 1 .. Len(p) /\ m \in 0 .. Len(p) /\ m # Len(p)
      BY <1>1
    <3>2. Len(SubSeq(p, 1, m)) = m
      BY <1>1, <3>1, BeginningIs
    <3>3. SubSeq(p, 1, m) # p
      BY <3>1, <3>2
    <3>4. SubSeq(p, 1, m) \in Beginnings(p)
      BY <3>1 DEF Beginnings
    <3> QED BY <3>3, <3>4, BeginningsAreFolders
  <2>4. ASSUME NEW b \in Beginnings(p) \cap Dir PROVE b \in Beginnings(Parent(p))
    BY <2>4, OnTheWay
  <2> QED BY <2>2, <2>3, <2>4
<1> QED BY <1>2, <1>3


LEMMA HitsCovers ==
  ASSUME NEW d \in Folder, NoWildcards(d), NEW l \in Parsed, l.names # <<>>,
         ~Overlaps(Rewrite(d, l).names),
         ~(d = <<>> /\ l.folders /\ MatchesEmpty(AtAnyDepth(l.names))),
         NEW p \in Dir \cup File
  PROVE  Hits(Rewrite(d, l), p, p \in Dir) <=> \E b \in Beginnings(p) : Covers(d, l, b)
<1> DEFINE P == d \o AsPath(l)
<1> DEFINE s == IF l.folders /\ p \notin Dir THEN Parent(p) ELSE p
<1>1. P \in Seq(Components) /\ P # <<>> /\ ~Overlaps(P)
  BY PatternIs
<1>2. Hits(Rewrite(d, l), p, p \in Dir) <=> Wild(P, s)
  <2> DEFINE r == Rewrite(d, l)
  <2>1. /\ r.names # <<>> /\ r.folders = l.folders
        /\ (IF r.rooted THEN r.names ELSE AtAnyDepth(r.names)) = P
    BY PatternIs
  <2> HIDE DEF P, r
  <2> QED BY <2>1 DEF Hits, r
<1>3. p \in Seq(Name) /\ p # <<>> /\ Parent(p) \in Seq(Name) /\ s \in Seq(Name)
  BY PathIs, FolderIs
<1>4. \A b \in Beginnings(p) : b \in Seq(Name)
  BY OnTheWay
<1>5. \A b \in Beginnings(p) : Covers(d, l, b) <=> (l.folders => b \in Dir) /\ Reads(P, b)
  BY <1>4, CoversIs
<1>6. s # <<>> => (Wild(P, s) <=> \E b \in Beginnings(s) : Reads(P, b))
  <2> HIDE DEF P, s
  <2> QED BY <1>1, <1>3, WildIsRead
<1> HIDE DEF P
<1>7. CASE l.folders /\ p \notin Dir
  <2>1. s = Parent(p) /\ Beginnings(s) = Beginnings(p) \cap Dir
    BY <1>7, FoldersOnTheWay
  <2>2. s = <<>> => ~Wild(P, s) /\ Beginnings(s) = {}
    BY <1>7, EmptyMissed DEF P, Beginnings
  <2> HIDE DEF s
  <2>3. Wild(P, s) <=> \E b \in Beginnings(p) \cap Dir : Reads(P, b)
    BY <1>6, <2>1, <2>2
  <2> QED BY <1>2, <1>5, <1>7, <2>3
<1>8. CASE ~(l.folders /\ p \notin Dir)
  <2>1. s = p
    BY <1>8
  <2>2. l.folders => \A b \in Beginnings(p) : b \in Dir
    BY <1>8, BeginningsAreFolders
  <2> QED BY <1>2, <1>3, <1>5, <1>6, <2>1, <2>2
<1> QED BY <1>7, <1>8

(* .git is passed over as a rule of its own would have it.                 *)
LEMMA DotGitCovers ==
  ASSUME NEW p \in Dir \cup File
  PROVE  Hits(DotGit, p, p \in Dir) <=> \E b \in Beginnings(p) : b \in Dir /\ Last(b) = ".git"
<1>1. DotGit \in Parsed /\ DotGit.names = <<".git">> /\ DotGit.folders = TRUE /\ DotGit.rooted = FALSE
  <2>1. <<".git">> \in Seq(Components)
    BY DEF Components
  <2> QED BY <2>1 DEF DotGit, Parsed
<1>2. <<>> \in Folder /\ NoWildcards(<<>>) /\ Len(<<".git">>) = 1 /\ <<".git">>[1] = ".git"
      /\ <<".git">> # <<>>
  BY DEF Folder, NoWildcards, ToSet
<1>3. AsPath(DotGit) = <<StarStar, ".git">> /\ AtAnyDepth(DotGit.names) = AsPath(DotGit)
  BY <1>1, <1>2, AskedIs DEF AsPath
<1>4. ~MatchesEmpty(AtAnyDepth(DotGit.names))
  <2>1. Last(<<StarStar, ".git">>) = ".git"
    BY DEF Last
  <2> QED BY <1>3, <2>1 DEF MatchesEmpty, StarStar
<1>5. Rewrite(<<>>, DotGit) = DotGit
  BY DEF Rewrite
<1>6. ~Overlaps(DotGit.names)
  <2>1. 3 .. Len(DotGit.names) - 1 = {}
    BY <1>1, <1>2
  <2> QED BY <2>1 DEF Overlaps
<1>7. Hits(DotGit, p, p \in Dir) <=> \E b \in Beginnings(p) : Covers(<<>>, DotGit, b)
  BY <1>1, <1>2, <1>4, <1>5, <1>6, HitsCovers
<1>8. ASSUME NEW b \in Beginnings(p)
      PROVE  Covers(<<>>, DotGit, b) <=> b \in Dir /\ Last(b) = ".git"
  <2>1. b \in Seq(Name) /\ b # <<>>
    BY OnTheWay
  <2>2. <<>> \o AsPath(DotGit) = <<StarStar, ".git">>
    <3>1. AsPath(DotGit) \in Seq(Components)
      BY <1>1, <1>2, AskedIs
    <3> QED BY <1>3, <3>1
  <2>3. Covers(<<>>, DotGit, b) <=> b \in Dir /\ Reads(<<StarStar, ".git">>, b)
    BY <1>1, <1>2, <2>1, <2>2, CoversIs
  <2>4. ".git" \in Components
    BY DEF Components
  <2>5. Reads(<<StarStar, ".git">>, b) <=> ".git" = StarStar \/ Matches(".git", Last(b))
    BY <2>1, <2>4, ReadsAnyDepth, ReadsOne
  <2>6. ".git" # StarStar /\ ".git" \notin DOMAIN Glob
    BY IgnoreRulesAssumption DEF StarStar
  <2> QED BY <2>3, <2>5, <2>6, MatchesLiteral
<1> QED BY <1>7, <1>8

(* The walk misses no .gitignore but of directories that are ignored.      *)
LoadedInv ==
  /\ patterns \subseteq {DotGit} \cup UNION {Load(d) : d \in Folder}
  /\ DotGit \in patterns
  /\ \A d \in Folder :
       \/ Load(d) \subseteq patterns
       \/ \E e \in Beginnings(d) \cap Dir : e \in pending \/ IsIgnored(e, TRUE)

LEMMA FirstFolder ==
  ASSUME NEW d \in Dir
  PROVE  \E e \in Beginnings(d) \cap Dir : Parent(e) = <<>>
<1>1. d \in Seq(Name) /\ Len(d) \in Nat /\ Len(d) > 0
  BY PathIs
<1> DEFINE e == SubSeq(d, 1, 1)
<1>2. 1 \in 1 .. Len(d) /\ 1 \in 0 .. Len(d)
  BY <1>1
<1>3. e \in Beginnings(d) /\ e \in Seq(Name) /\ Len(e) = 1
  BY <1>1, <1>2, BeginningIs DEF Beginnings
<1>4. e \in Dir
  BY <1>3, BeginningsAreFolders
<1>5. Parent(e) = <<>>
  BY <1>3 DEF Parent
<1> QED BY <1>3, <1>4, <1>5

LEMMA NextFolder ==
  ASSUME NEW d \in Dir, NEW x \in Beginnings(d) \cap Dir, x # d
  PROVE  \E e \in Beginnings(d) \cap Dir : Parent(e) = x
<1>1. d \in Seq(Name) /\ Len(d) \in Nat /\ Len(d) > 0
  BY PathIs
<1>2. PICK n \in 1 .. Len(d) : x = SubSeq(d, 1, n)
  BY DEF Beginnings
<1>3. n # Len(d)
  <2>1. n \in 0 .. Len(d)
    BY <1>1
  <2> QED BY <1>1, <1>2, <2>1, BeginningIs, SeqEqual
<1>4. n + 1 \in 1 .. Len(d) /\ n + 1 \in 0 .. Len(d) /\ n \in 1 .. n + 1 /\ (n + 1) - 1 = n
  BY <1>1, <1>3
<1> DEFINE k == n + 1
<1> DEFINE e == SubSeq(d, 1, k)
<1>5. e \in Beginnings(d) /\ Len(e) = k
  BY <1>1, <1>4, BeginningIs DEF Beginnings
<1>6. e \in Dir
  BY <1>5, BeginningsAreFolders
<1>7. Parent(e) = x
  <2>1. /\ k \in 0 .. Len(d) /\ n \in 0 .. Len(d) /\ n \in 0 .. k
        /\ \A y \in 1 .. n : y \in 1 .. k
    BY <1>1, <1>4
  <2>2. e \in Seq(Name) /\ Len(e) = k /\ \A y \in 1 .. k : e[y] = d[y]
    BY <1>1, <2>1, BeginningIs
  <2> HIDE DEF k, e
  <2>3. SubSeq(e, 1, n) \in Seq(Name) /\ Len(SubSeq(e, 1, n)) = n /\ \A y \in 1 .. n : SubSeq(e, 1, n)[y] = e[y]
    BY <2>1, <2>2, BeginningIs
  <2>4. x \in Seq(Name) /\ Len(x) = n /\ \A y \in 1 .. n : x[y] = d[y]
    BY <1>1, <1>2, <2>1, BeginningIs
  <2>5. SubSeq(e, 1, n) = x
    <3>1. \A y \in 1 .. n : SubSeq(e, 1, n)[y] = x[y]
      BY <2>1, <2>2, <2>3, <2>4
    <3> QED BY <2>3, <2>4, <3>1, SeqEqual
  <2>6. Len(e) - 1 = n
    BY <1>4, <1>5 DEF k
  <2> QED BY <2>5, <2>6 DEF Parent
<1> QED BY <1>5, <1>6, <1>7


LEMMA WalkVisits ==
  ASSUME RulesTypeOK, LoadedInv, NEW x \in Dir, Visit(x)
  PROVE  LoadedInv'
<1>1. \A d \in Folder : Load(d)' = Load(d)
  BY DEF Visit, Load
<1>2. patterns \subseteq patterns' /\ nested' = nested
  BY DEF Visit
<1>3. \A e \in Dir : IsIgnored(e, TRUE) => IsIgnored(e, TRUE)'
  BY <1>2 DEF IsIgnored, InNestedRepository
<1>4. (patterns \subseteq {DotGit} \cup UNION {Load(d) : d \in Folder})' /\ DotGit \in patterns'
  <2>1. patterns' \subseteq patterns \cup Load(x)
    BY DEF Visit
  <2>2. x \in Folder
    BY DEF Folder
  <2>3. patterns' \subseteq {DotGit} \cup UNION {Load(d) : d \in Folder}
    BY <2>1, <2>2 DEF LoadedInv
  <2>4. \A r \in patterns' : r = DotGit \/ \E d \in Folder : r \in Load(d)'
    BY <1>1, <2>3
  <2> QED BY <1>2, <2>4 DEF LoadedInv
<1>5. ASSUME NEW d \in Folder
      PROVE  \/ Load(d)' \subseteq patterns'
             \/ \E e \in Beginnings(d) \cap Dir : e \in pending' \/ IsIgnored(e, TRUE)'
  <2>1. CASE Load(d) \subseteq patterns
    BY <1>1, <1>2, <2>1
  <2>2. CASE \E e \in Beginnings(d) \cap Dir : e \in pending \/ IsIgnored(e, TRUE)
    <3>1. PICK e \in Beginnings(d) \cap Dir : e \in pending \/ IsIgnored(e, TRUE)
      BY <2>2
    <3>2. CASE IsIgnored(e, TRUE)
      BY <1>3, <3>1, <3>2
    <3>3. CASE e \in pending /\ e # x
      <4>1. e \in pending'
        BY <3>3 DEF Visit
      <4> QED BY <3>1, <4>1
    <3>4. CASE e = x /\ ~IsIgnored(x, TRUE)
      <4>1. patterns' = patterns \cup Load(x) /\ pending' = (pending \ {x}) \cup Children(x)
        BY <3>4 DEF Visit
      <4>2. CASE d = x
        BY <1>1, <4>1, <4>2
      <4>3. CASE d # x
        <5>1. d \in Dir
          <6>1. Beginnings(<<>>) = {}
            BY DEF Beginnings
          <6> QED BY <3>1, <6>1 DEF Folder
        <5>2. PICK c \in Beginnings(d) \cap Dir : Parent(c) = x
          BY <3>1, <3>4, <4>3, <5>1, NextFolder
        <5>3. c \in pending'
          BY <4>1, <5>2 DEF Children
        <5> QED BY <5>2, <5>3
      <4> QED BY <4>2, <4>3
    <3> QED BY <3>1, <3>2, <3>3, <3>4
  <2> QED BY <2>1, <2>2 DEF LoadedInv
<1>6. \A d \in Folder :
        \/ Load(d)' \subseteq patterns'
        \/ \E e \in Beginnings(d) \cap Dir : e \in pending' \/ IsIgnored(e, TRUE)'
  BY <1>5
<1> QED BY <1>4, <1>6 DEF LoadedInv

LEMMA LoadedInvariance == RulesSpec => [](RulesTypeOK /\ LoadedInv)
<1>1. ASSUME RulesInit PROVE LoadedInv
  <2>1. patterns = {DotGit} \cup Load(<<>>) /\ pending = Children(<<>>) /\ <<>> \in Folder
    BY <1>1 DEF RulesInit, Folder
  <2>2. ASSUME NEW d \in Folder, d # <<>>
        PROVE  \E e \in Beginnings(d) \cap Dir : e \in pending
    <3>1. d \in Dir
      BY <2>2 DEF Folder
    <3>2. PICK e \in Beginnings(d) \cap Dir : Parent(e) = <<>>
      BY <3>1, FirstFolder
    <3> QED BY <2>1, <3>2 DEF Children
  <2>3. \A d \in Folder : Load(d) \subseteq patterns \/ \E e \in Beginnings(d) \cap Dir : e \in pending
    BY <2>1, <2>2
  <2>4. patterns \subseteq {DotGit} \cup UNION {Load(d) : d \in Folder}
    BY <2>1
  <2> QED BY <2>1, <2>3, <2>4 DEF LoadedInv
<1>2. ASSUME RulesTypeOK, LoadedInv, [RulesNext]_ruleVars PROVE LoadedInv'
  <2>1. CASE UNCHANGED ruleVars
    <3>1. patterns' = patterns /\ pending' = pending /\ nested' = nested /\ rules' = rules
      BY <2>1 DEF ruleVars
    <3>2. \A d : Load(d)' = Load(d)
      BY <3>1 DEF Load
    <3>3. \A e : IsIgnored(e, TRUE)' <=> IsIgnored(e, TRUE)
      BY <3>1 DEF IsIgnored, InNestedRepository
    <3> QED BY <1>2, <3>1, <3>2, <3>3 DEF LoadedInv
  <2>2. ASSUME NEW x \in Dir, Visit(x) PROVE LoadedInv'
    BY <1>2, <2>2, WalkVisits
  <2> QED BY <1>2, <2>1, <2>2 DEF RulesNext
<1> QED BY <1>1, <1>2, RulesTyped, PTL DEF RulesSpec

(* For any tree of directories and any .gitignore files but those with     *)
(* what Plain leaves out: what the code ignores is what the lines ask for. *)
THEOREM IgnoredAsWritten == RulesSpec => []PlainRulesAsWritten
<1>1. ASSUME RulesTypeOK, LoadedInv, pending = {}, Plain, NEW p \in Dir \cup File
      PROVE  Ignored(p) <=> Asked(p)
  <2>1. \A b \in Beginnings(p) : b \in Seq(Name) /\ Beginnings(b) \subseteq Beginnings(p) /\ (b = p \/ b \in Dir)
    BY OnTheWay, BeginningsAreFolders
  <2>2. InNestedRepository(p, p \in Dir) <=> \E b \in Beginnings(p) : b \in Dir /\ b \in nested
    <3>1. nested \subseteq Dir
      BY <1>1 DEF RulesTypeOK
    <3>2. CASE p \in Dir
      BY <3>1, <3>2 DEF InNestedRepository
    <3>3. CASE p \notin Dir
      BY <3>1, <3>3, FoldersOnTheWay DEF InNestedRepository
    <3> QED BY <3>2, <3>3
  <2>3. ASSUME NEW rule \in rules, rule.line.names # <<>>
        PROVE  Hits(Rewrite(rule.dir, rule.line), p, p \in Dir)
               <=> \E b \in Beginnings(p) : Covers(rule.dir, rule.line, b)
    <3>1. rule.dir \in Folder /\ rule.line \in Parsed
      BY <1>1, IgnoreRulesAssumption DEF RulesTypeOK, Parsed
    <3>2. NoWildcards(rule.dir)
      BY <1>1 DEF Plain, LiteralFolders, NoWildcards
    <3>3. ~Overlaps(Rewrite(rule.dir, rule.line).names)
          /\ ~(rule.dir = <<>> /\ rule.line.folders /\ MatchesEmpty(AtAnyDepth(rule.line.names)))
      BY <1>1, <2>3 DEF Plain, ForAllFolders
    <3> QED BY <2>3, <3>1, <3>2, <3>3, HitsCovers
  <2>4. ASSUME Ignored(p) PROVE Asked(p)
    <3>1. CASE InNestedRepository(p, p \in Dir)
      BY <2>2, <3>1 DEF Asked
    <3>2. ASSUME NEW r \in patterns, Hits(r, p, p \in Dir) PROVE Asked(p)
      <4>1. CASE r = DotGit
        BY <3>2, <4>1, DotGitCovers DEF Asked
      <4>2. ASSUME NEW d \in Folder, r \in Load(d) PROVE Asked(p)
        <5>1. PICK rule \in rules : r = Rewrite(rule.dir, rule.line)
                                    /\ (rule.dir = <<>> \/ rule.line.names # <<>>)
          BY <4>2 DEF Load
        <5>2. rule.line.names # <<>>
          BY <3>2, <5>1 DEF Hits, Rewrite
        <5>3. PICK b \in Beginnings(p) : Covers(rule.dir, rule.line, b)
          BY <2>3, <3>2, <5>1, <5>2
        <5> QED BY <5>3 DEF Asked
      <4>3. r = DotGit \/ \E d \in Folder : r \in Load(d)
        BY <1>1 DEF LoadedInv
      <4> QED BY <4>1, <4>2, <4>3
    <3> QED BY <2>4, <3>1, <3>2 DEF Ignored, IsIgnored
  <2>5. ASSUME Asked(p) PROVE Ignored(p)
    <3>1. PICK b \in Beginnings(p) :
            \/ b \in Dir /\ (b \in nested \/ Last(b) = ".git")
            \/ \E r \in rules : Covers(r.dir, r.line, b)
      BY <2>5 DEF Asked
    <3>2. CASE b \in Dir /\ b \in nested
      BY <2>2, <3>2 DEF Ignored, IsIgnored
    <3>3. CASE b \in Dir /\ Last(b) = ".git"
      <4>1. Hits(DotGit, p, p \in Dir) /\ DotGit \in patterns
        BY <1>1, <3>3, DotGitCovers DEF LoadedInv
      <4> QED BY <4>1 DEF Ignored, IsIgnored
    <3>4. ASSUME NEW rule \in rules, Covers(rule.dir, rule.line, b) PROVE Ignored(p)
      <4>1. rule.dir \in Folder /\ rule.line.names # <<>> /\ Below(b, rule.dir) /\ rule.dir \in Seq(Name)
        BY <1>1, <3>4, FolderIs DEF RulesTypeOK, Covers
      <4>2. CASE Load(rule.dir) \subseteq patterns
        <5>1. Rewrite(rule.dir, rule.line) \in patterns
          BY <4>1, <4>2 DEF Load
        <5>2. Hits(Rewrite(rule.dir, rule.line), p, p \in Dir)
          BY <2>3, <3>4, <4>1
        <5> QED BY <5>1, <5>2 DEF Ignored, IsIgnored
      <4>3. CASE ~(Load(rule.dir) \subseteq patterns)
        <5>1. PICK e \in Beginnings(rule.dir) \cap Dir : IsIgnored(e, TRUE)
          BY <1>1, <4>1, <4>3 DEF LoadedInv
        <5>2. rule.dir \in Beginnings(p)
          <6>1. Len(rule.dir) \in Nat /\ rule.dir # <<>>
            <7>1. Beginnings(<<>>) = {}
              BY DEF Beginnings
            <7> QED BY <4>1, <5>1, <7>1
          <6>2. Len(rule.dir) \in 1 .. Len(b) /\ SubSeq(b, 1, Len(rule.dir)) = rule.dir
            BY <2>1, <4>1, <6>1 DEF Below
          <6>3. rule.dir \in Beginnings(b)
            BY <6>2 DEF Beginnings
          <6> QED BY <2>1, <6>3
        <5>3. e \in Beginnings(p) \cap Dir /\ Ignored(e)
          BY <2>1, <5>1, <5>2 DEF Ignored
        <5> QED BY <1>1, <5>3, DownFromTyped DEF IgnoredAllTheWayDown
      <4> QED BY <4>2, <4>3
    <3> QED BY <3>1, <3>2, <3>3, <3>4
  <2> QED BY <2>4, <2>5
<1>2. RulesTypeOK /\ LoadedInv => PlainRulesAsWritten
  BY <1>1 DEF PlainRulesAsWritten
<1> QED BY <1>2, LoadedInvariance, PTL
=============================================================================
