---------------------------- MODULE HistoryProofs ----------------------------
(* The walks over history, for histories of every size, with any number of *)
(* parents per commit and any dates: the answer of has_ancestor is the     *)
(* graph's, and log shows the graph.  Only that the walks end is left to   *)
(* TLC.                                                                    *)
EXTENDS AncestryWalk, LogWalk, SequenceTheorems, TLAPS

(* The elements of a concatenation are those of its parts.                 *)
LEMMA SetOfConcat ==
  ASSUME NEW S, NEW s \in Seq(S), NEW t \in Seq(S)
  PROVE  ToSet(s \o t) = ToSet(s) \cup ToSet(t)
<1>1. /\ s \o t \in Seq(S)
      /\ Len(s) \in Nat /\ Len(t) \in Nat
      /\ DOMAIN s = 1 .. Len(s) /\ DOMAIN t = 1 .. Len(t)
      /\ DOMAIN (s \o t) = 1 .. Len(s) + Len(t)
  BY ConcatProperties, LenProperties
<1>2. \A i \in 1 .. Len(s) + Len(t) : (s \o t)[i] = IF i <= Len(s) THEN s[i] ELSE t[i - Len(s)]
  BY ConcatProperties
<1>3. ASSUME NEW x \in ToSet(s \o t) PROVE x \in ToSet(s) \cup ToSet(t)
  <2>1. PICK i \in 1 .. Len(s) + Len(t) : (s \o t)[i] = x
    BY <1>1 DEF ToSet
  <2>2. CASE i <= Len(s)
    BY <1>1, <1>2, <2>1, <2>2 DEF ToSet
  <2>3. CASE i > Len(s)
    <3>1. i - Len(s) \in DOMAIN t /\ x = t[i - Len(s)]
      BY <1>1, <1>2, <2>1, <2>3
    <3> QED
      BY <3>1 DEF ToSet
  <2> QED
    BY <1>1, <2>2, <2>3
<1>4. ASSUME NEW x \in ToSet(s) PROVE x \in ToSet(s \o t)
  <2>1. PICK i \in 1 .. Len(s) : s[i] = x
    BY <1>1 DEF ToSet
  <2>2. i \in 1 .. Len(s) + Len(t) /\ (s \o t)[i] = x
    BY <1>1, <1>2, <2>1
  <2> QED
    BY <1>1, <2>2 DEF ToSet
<1>5. ASSUME NEW x \in ToSet(t) PROVE x \in ToSet(s \o t)
  <2>1. PICK i \in 1 .. Len(t) : t[i] = x
    BY <1>1 DEF ToSet
  <2>2. Len(s) + i \in 1 .. Len(s) + Len(t) /\ (s \o t)[Len(s) + i] = x
    BY <1>1, <1>2, <2>1
  <2> QED
    BY <1>1, <2>2 DEF ToSet
<1> QED
  BY <1>3, <1>4, <1>5

(* Popping the top of a stack leaves every other element on it.            *)
LEMMA PopProperties ==
  ASSUME NEW S, NEW s \in Seq(S), s # <<>>
  PROVE  /\ Last(s) \in S /\ Front(s) \in Seq(S)
         /\ ToSet(s) = ToSet(Front(s)) \cup {Last(s)}
<1>1. Len(s) \in Nat \ {0} /\ DOMAIN s = 1 .. Len(s)
  BY EmptySeq, LenProperties
<1>2. \A i \in 1 .. Len(s) : s[i] \in S
  BY ElementOfSeq
<1>3. /\ Front(s) \in Seq(S)
      /\ Len(Front(s)) = Len(s) - 1
      /\ \A i \in 1 .. Len(s) - 1 : Front(s)[i] = s[i]
  BY <1>1, <1>2, SubSeqProperties DEF Front
<1>4. DOMAIN Front(s) = 1 .. Len(s) - 1
  BY <1>3, LenProperties
<1>5. ToSet(s) \subseteq ToSet(Front(s)) \cup {Last(s)}
  <2> SUFFICES ASSUME NEW i \in 1 .. Len(s), i # Len(s)
               PROVE  s[i] \in ToSet(Front(s))
    BY <1>1 DEF ToSet, Last
  <2>1. i \in 1 .. Len(s) - 1
    <3>1. Len(s) \in Nat
      BY <1>1
    <3> QED
      BY <3>1
  <2> QED
    BY <1>3, <1>4, <2>1 DEF ToSet
<1>6. ToSet(Front(s)) \cup {Last(s)} \subseteq ToSet(s)
  BY <1>1, <1>3, <1>4 DEF ToSet, Last
<1> QED
  BY <1>1, <1>2, <1>3, <1>5, <1>6 DEF Last

(* The elements of a sequence over S are in S.                             *)
LEMMA SetOfSeq ==
  ASSUME NEW S, NEW s \in Seq(S)
  PROVE  ToSet(s) \subseteq S
BY LenProperties, ElementOfSeq DEF ToSet

(* A commit is its own ancestor, ancestors are closed under parents, and   *)
(* they are the least such set.                                            *)
LEMMA AncestorsLeast ==
  ASSUME parents \in [Commit -> Seq(Commit)], NEW c \in Commit
  PROVE  /\ c \in Ancestors(c)
         /\ Closed(Ancestors(c)) 
         /\ \A S \in SUBSET Commit : c \in S /\ (\A d \in S : ToSet(parents[d]) \subseteq S) => Ancestors(c) \subseteq S
<1>1. c \in Ancestors(c)
  BY DEF Ancestors
<1>2. ASSUME NEW d \in Ancestors(c), NEW q \in ToSet(parents[d]) PROVE q \in Ancestors(c)
  <2>1. d \in Commit /\ q \in Commit
    BY SetOfSeq DEF Ancestors
  <2>2. ASSUME NEW S \in SUBSET Commit, c \in S, Closed(S) PROVE q \in S
    <3>1. d \in S
      BY <2>2 DEF Ancestors
    <3> QED
      BY <2>2, <3>1 DEF Closed
  <2> QED
    BY <2>1, <2>2 DEF Ancestors
<1> QED
  BY <1>1, <1>2 DEF Ancestors, Closed

(* The strengthening: what the walk has taken, what waits on its stack,    *)
(* and the answer it is heading for.                                       *)
IInv == TypeOK /\ WalkInv /\ AnswerIsAncestry

(* The walk starts in IInv.                                                *)
LEMMA WalkStarts == Init => IInv
<1> SUFFICES ASSUME Init PROVE IInv
  OBVIOUS
<1>1. parents \in [Commit -> Seq(Commit)]
  BY DEF Init, Histories, BoundedSeq, SeqOf
<1>2. tip \in Commit /\ target \in Commit /\ unreadable \subseteq Commit
  BY DEF Init
<1>3. pending = parents[tip] /\ visited = {tip} /\ answer \in {"yes", "running"}
  BY DEF Init
<1>4. TypeOK
  BY <1>1, <1>2, <1>3 DEF TypeOK
<1>5. tip \in Ancestors(tip) /\ ToSet(parents[tip]) \subseteq Ancestors(tip)
  BY <1>1, <1>2, AncestorsLeast DEF Closed
<1>6. WalkInv
  BY <1>3, <1>5 DEF WalkInv, Running, Init
<1>7. AnswerIsAncestry
  BY <1>3, <1>5 DEF AnswerIsAncestry, Init
<1> QED
  BY <1>4, <1>6, <1>7 DEF IInv

(* What a step that pops the top leaves true of the graph part of IInv.    *)
LEMMA TopIsAncestor ==
  ASSUME IInv, pending # <<>>
  PROVE  /\ Top \in Ancestors(tip) /\ Top \in Commit
         /\ ToSet(parents[Top]) \subseteq Ancestors(tip)
         /\ Front(pending) \in Seq(Commit)
         /\ ToSet(pending) = ToSet(Front(pending)) \cup {Top}
<1>1. /\ Top \in Commit /\ Front(pending) \in Seq(Commit)
      /\ ToSet(pending) = ToSet(Front(pending)) \cup {Top}
  BY PopProperties DEF IInv, TypeOK, Top
<1>2. Top \in Ancestors(tip)
  BY <1>1 DEF IInv, WalkInv
<1>3. Closed(Ancestors(tip))
  BY AncestorsLeast DEF IInv, TypeOK
<1> QED
  BY <1>1, <1>2, <1>3 DEF Closed

(* Each of the five steps of the walk keeps IInv.                          *)
LEMMA StepKeepsIInv == ASSUME IInv, [Next]_vars PROVE IInv'
<1>1. CASE UNCHANGED vars
  BY <1>1 DEF vars, graph, IInv, TypeOK, WalkInv, AnswerIsAncestry, Running, Ancestors, Closed
<1>2. ASSUME UNCHANGED <<graph, tip, target>>
      PROVE  /\ Ancestors(tip)' = Ancestors(tip)
             /\ \A c : parents'[c] = parents[c]
  BY <1>2 DEF graph, Ancestors, Closed
<1>3. CASE Skip
  <2>1. UNCHANGED <<graph, tip, target, visited, answer>> /\ pending' = Front(pending)
    BY <1>3 DEF Skip
  <2>2. Ancestors(tip)' = Ancestors(tip)
    BY <1>2, <2>1
  <2>3. Top \in visited /\ pending # <<>>
    BY <1>3 DEF Skip
  <2>4. ToSet(pending) = ToSet(pending') \cup {Top} /\ pending' \in Seq(Commit)
    BY <2>1, <2>3, TopIsAncestor
  <2>5. TypeOK'
    BY <2>1, <2>4 DEF IInv, TypeOK, graph
  <2>6. WalkInv'
    BY <2>1, <2>2, <2>3, <2>4 DEF IInv, WalkInv, Running, graph
  <2>7. AnswerIsAncestry'
    BY <2>1, <2>2 DEF IInv, AnswerIsAncestry, graph
  <2> QED
    BY <2>5, <2>6, <2>7 DEF IInv
<1>4. CASE Found
  <2>1. /\ UNCHANGED <<graph, tip, target>> /\ pending' = Front(pending)
        /\ visited' = visited \cup {Top} /\ answer' = "yes" /\ Top = target
    BY <1>4 DEF Found
  <2>2. Ancestors(tip)' = Ancestors(tip)
    BY <1>2, <2>1
  <2>3. /\ Top \in Ancestors(tip) /\ Top \in Commit
        /\ ToSet(pending) = ToSet(pending') \cup {Top} /\ pending' \in Seq(Commit)
    BY <1>4, <2>1, TopIsAncestor DEF Found
  <2>5. TypeOK'
    BY <2>1, <2>3 DEF IInv, TypeOK, graph
  <2>6. WalkInv'
    BY <2>1, <2>2, <2>3 DEF IInv, WalkInv, Running
  <2>7. AnswerIsAncestry'
    BY <2>1, <2>2, <2>3 DEF AnswerIsAncestry
  <2> QED
    BY <2>5, <2>6, <2>7 DEF IInv
<1>5. CASE Expand
  <2>1. /\ UNCHANGED <<graph, tip, target, answer>>
        /\ pending' = Front(pending) \o parents[Top]
        /\ visited' = visited \cup {Top} /\ Top # target /\ pending # <<>>
    BY <1>5 DEF Expand
  <2>2. Ancestors(tip)' = Ancestors(tip) /\ parents' = parents
    BY <1>2, <2>1 DEF graph
  <2>3. /\ Top \in Ancestors(tip) /\ Top \in Commit
        /\ ToSet(parents[Top]) \subseteq Ancestors(tip)
        /\ ToSet(pending) = ToSet(Front(pending)) \cup {Top}
        /\ Front(pending) \in Seq(Commit)
    BY <2>1, TopIsAncestor
  <2>4. parents[Top] \in Seq(Commit)
    BY <2>3 DEF IInv, TypeOK
  <2>5. /\ pending' \in Seq(Commit)
        /\ ToSet(pending') = ToSet(Front(pending)) \cup ToSet(parents[Top])
    BY <2>1, <2>3, <2>4, SetOfConcat, ConcatProperties
  <2>6. TypeOK'
    BY <2>1, <2>3, <2>5 DEF IInv, TypeOK, graph
  <2>7. WalkInv'
    <3>1. (visited \cup ToSet(pending))' \subseteq Ancestors(tip)'
      BY <2>1, <2>2, <2>3, <2>5 DEF IInv, WalkInv
    <3>2. tip' \in visited'
      BY <2>1 DEF IInv, WalkInv
    <3>3. ASSUME Running, NEW c \in visited'
          PROVE  ToSet(parents[c]) \subseteq (visited \cup ToSet(pending))'
      <4>1. CASE c = Top
        BY <2>5, <4>1
      <4>2. CASE c \in visited
        BY <2>1, <2>3, <2>5, <3>3, <4>2 DEF IInv, WalkInv
      <4> QED
        BY <2>1, <4>1, <4>2
    <3>4. Running' = Running
      BY <2>1 DEF Running
    <3>5. Running => target' \notin visited'
      BY <2>1 DEF IInv, WalkInv
    <3> QED
      BY <2>2, <3>1, <3>2, <3>3, <3>4, <3>5 DEF WalkInv
  <2>8. AnswerIsAncestry'
    BY <2>1, <2>2 DEF IInv, AnswerIsAncestry, graph
  <2> QED
    BY <2>6, <2>7, <2>8 DEF IInv
<1>6. CASE ReadFails
  <2>1. /\ UNCHANGED <<graph, tip, target>> /\ pending' = Front(pending)
        /\ visited' = visited \cup {Top} /\ answer' = "error" /\ Top \in unreadable
    BY <1>6 DEF ReadFails
  <2>2. Ancestors(tip)' = Ancestors(tip) /\ unreadable' = unreadable
    BY <1>2, <2>1 DEF graph
  <2>3. /\ Top \in Ancestors(tip) /\ Top \in Commit
        /\ ToSet(pending) = ToSet(pending') \cup {Top} /\ pending' \in Seq(Commit)
    BY <1>6, <2>1, TopIsAncestor DEF ReadFails
  <2>4. TypeOK'
    BY <2>1, <2>3 DEF IInv, TypeOK, graph
  <2>5. WalkInv'
    BY <2>1, <2>2, <2>3 DEF IInv, WalkInv, Running
  <2>6. AnswerIsAncestry'
    BY <2>1, <2>2, <2>3 DEF AnswerIsAncestry
  <2> QED
    BY <2>4, <2>5, <2>6 DEF IInv
<1>7. CASE Exhausted
  <2>1. /\ UNCHANGED <<graph, tip, target, pending, visited>>
        /\ Running /\ pending = <<>> /\ answer' = "no"
    BY <1>7 DEF Exhausted
  <2>2. Ancestors(tip)' = Ancestors(tip)
    BY <1>2, <2>1
  <2>3. ToSet(pending) = {}
    BY <2>1 DEF ToSet
  <2>4. visited \subseteq Commit /\ tip \in visited /\ \A c \in visited : ToSet(parents[c]) \subseteq visited
    BY <2>1, <2>3 DEF IInv, TypeOK, WalkInv
  <2>5. Ancestors(tip) \subseteq visited
    BY <2>4, AncestorsLeast DEF IInv, TypeOK
  <2>6. target \notin Ancestors(tip)
    BY <2>1, <2>5 DEF IInv, WalkInv
  <2>7. TypeOK'
    BY <2>1 DEF IInv, TypeOK, graph
  <2>8. WalkInv'
    BY <2>1, <2>2 DEF IInv, WalkInv, Running
  <2>9. AnswerIsAncestry'
    BY <2>1, <2>2, <2>6 DEF AnswerIsAncestry
  <2> QED
    BY <2>7, <2>8, <2>9 DEF IInv
<1> QED
  BY <1>1, <1>3, <1>4, <1>5, <1>6, <1>7 DEF Next

(* merge's question is answered from the graph: has_ancestor says yes only *)
(* for an ancestor and no only for a commit that is none (commit.cpp:      *)
(* 191-214), for histories of every size and shape.                        *)
THEOREM AncestryIsRight == Spec => []AnswerIsAncestry
<1>1. Init => IInv
  BY WalkStarts
<1>2. IInv /\ [Next]_vars => IInv'
  BY StepKeepsIInv
<1>3. IInv => AnswerIsAncestry
  BY DEF IInv
<1> QED
  BY <1>1, <1>2, <1>3, PTL DEF Spec

-----------------------------------------------------------------------------
(***************************************************************************)
(* The log.                                                                *)
(***************************************************************************)
(* What appending to a sequence and taking its head does to its elements.  *)
LEMMA SetOfAppend ==
  ASSUME NEW S, NEW s \in Seq(S), NEW e \in S
  PROVE  Append(s, e) \in Seq(S) /\ ToSet(Append(s, e)) = ToSet(s) \cup {e}
<1>1. /\ Append(s, e) \in Seq(S) /\ Len(s) \in Nat /\ DOMAIN s = 1 .. Len(s)
      /\ DOMAIN Append(s, e) = 1 .. Len(s) + 1
      /\ \A i \in 1 .. Len(s) : Append(s, e)[i] = s[i]
      /\ Append(s, e)[Len(s) + 1] = e
  BY AppendProperties, LenProperties
<1>2. 1 .. Len(s) + 1 = (1 .. Len(s)) \cup {Len(s) + 1}
  BY <1>1
<1> QED  BY <1>1, <1>2 DEF ToSet

LEMMA InjectiveAppend ==
  ASSUME NEW S, NEW s \in Seq(S), NEW e \in S, IsInjective(s), e \notin ToSet(s)
  PROVE  IsInjective(Append(s, e))
<1>1. /\ Len(s) \in Nat /\ DOMAIN s = 1 .. Len(s)
      /\ DOMAIN Append(s, e) = 1 .. Len(s) + 1
      /\ \A i \in 1 .. Len(s) : Append(s, e)[i] = s[i]
      /\ Append(s, e)[Len(s) + 1] = e
  BY AppendProperties, LenProperties
<1>2. 1 .. Len(s) + 1 = (1 .. Len(s)) \cup {Len(s) + 1}
  BY <1>1
<1>3. \A i \in 1 .. Len(s) : Append(s, e)[i] # e
  BY <1>1 DEF ToSet
<1> QED  BY <1>1, <1>2, <1>3 DEF IsInjective

LEMMA HeadAndTail ==
  ASSUME NEW S, NEW s \in Seq(S), s # <<>>
  PROVE  /\ Head(s) \in S /\ Tail(s) \in Seq(S)
         /\ ToSet(s) = {Head(s)} \cup ToSet(Tail(s))
<1>1. /\ Head(s) \in S /\ Tail(s) \in Seq(S) /\ Head(s) = s[1]
      /\ Len(s) \in Nat \ {0} /\ DOMAIN s = 1 .. Len(s)
      /\ Len(Tail(s)) = Len(s) - 1 /\ DOMAIN Tail(s) = 1 .. Len(s) - 1
      /\ \A i \in 1 .. Len(s) - 1 : Tail(s)[i] = s[i + 1]
  BY HeadTailProperties, LenProperties, EmptySeq
<1>2. ASSUME NEW i \in 1 .. Len(s), i # 1
      PROVE  s[i] \in ToSet(Tail(s))
  <2>1. i - 1 \in 1 .. Len(s) - 1 /\ Tail(s)[i - 1] = s[i]
    BY <1>1, <1>2
  <2> QED  BY <1>1, <2>1 DEF ToSet
<1>3. \A i \in 1 .. Len(s) - 1 : i + 1 \in 1 .. Len(s)
  BY <1>1
<1>4. ToSet(Tail(s)) \subseteq ToSet(s)
  BY <1>1, <1>3 DEF ToSet
<1>5. s[1] \in ToSet(s) /\ ToSet(s) \subseteq {s[1]} \cup ToSet(Tail(s))
  BY <1>1, <1>2 DEF ToSet
<1> QED  BY <1>1, <1>4, <1>5

LEMMA LogAncestors ==
  ASSUME LogTypeOK, NEW c \in Commit
  PROVE  /\ c \in Ancestors(c)
         /\ \A d \in Ancestors(c) : ToSet(parents[d]) \subseteq Ancestors(c)
         /\ \A S \in SUBSET Commit :
              c \in S /\ (\A d \in S : ToSet(parents[d]) \subseteq S) => Ancestors(c) \subseteq S
  BY AncestorsLeast DEF LogTypeOK, Closed

(* The strengthening: what the log has discovered, printed and is to       *)
(* enqueue.                                                                *)
LogIInv == LogTypeOK /\ LogInv /\ ShowsHistory /\ NewestFirst

(* A step that leaves the graph alone leaves its ancestors alone.          *)
LEMMA GraphStays ==
  ASSUME UNCHANGED logGraph
  PROVE  /\ UNCHANGED <<parents, unreadable, date, start>>
         /\ Ancestors(start)' = Ancestors(start) /\ ClocksAgree' = ClocksAgree
BY DEF logGraph, Ancestors, Closed, ClocksAgree

LEMMA LogStarts == LogInit => LogIInv
<1> SUFFICES ASSUME LogInit PROVE LogIInv
  OBVIOUS
<1>1. /\ found = <<>> /\ printed = <<>> /\ todo = <<start>> /\ status = "running"
      /\ start \in Commit
  BY DEF LogInit
<1>2. parents \in [Commit -> Seq(Commit)]
  <2>1. parents \in [Commit -> BoundedSeq(Commit, MaxParents)]
    BY DEF LogInit, Histories
  <2>2. BoundedSeq(Commit, MaxParents) \subseteq Seq(Commit)
    BY SizeAssumption DEF BoundedSeq, SeqOf
  <2> QED  BY <2>1, <2>2
<1>3. LogTypeOK
  BY <1>1, <1>2 DEF LogTypeOK, LogInit
<1>4. ToSet(found) = {} /\ ToSet(printed) = {} /\ ToSet(todo) = {start}
  BY <1>1 DEF ToSet
<1>5. start \in Ancestors(start)
  BY <1>1, <1>3, LogAncestors
<1>6. LogInv
  BY <1>1, <1>4, <1>5 DEF LogInv
<1>7. ShowsHistory /\ NewestFirst
  BY <1>1, <1>4 DEF ShowsHistory, NewestFirst, IsInjective
<1> QED  BY <1>3, <1>6, <1>7 DEF LogIInv

(* enqueue moves one id from todo to found, or finds it there.             *)
LEMMA EnqueueKeeps ==
  ASSUME LogIInv, Enqueue
  PROVE  LogIInv'
<1> DEFINE id == Head(todo)
<1>0. LogTypeOK /\ LogInv /\ ShowsHistory /\ NewestFirst
  BY DEF LogIInv
<1>1. /\ UNCHANGED <<logGraph, printed>> /\ status = "running" /\ todo' = Tail(todo)
      /\ \/ id \in ToSet(found) /\ UNCHANGED <<found, status>>
         \/ id \notin ToSet(found) /\ found' = Append(found, id)
            /\ status' = (IF id \in unreadable THEN "error" ELSE status)
  BY DEF Enqueue
<1>2. /\ UNCHANGED <<parents, unreadable, date, start>>
      /\ Ancestors(start)' = Ancestors(start) /\ ClocksAgree' = ClocksAgree
  BY <1>1, GraphStays
<1>3. /\ id \in Commit /\ todo' \in Seq(Commit) /\ ToSet(todo) = {id} \cup ToSet(todo')
  BY <1>0, <1>1, HeadAndTail DEF LogTypeOK, Enqueue
<1>4. found' \in Seq(Commit) /\ ToSet(found') = ToSet(found) \cup {id}
  <2>1. CASE id \in ToSet(found)
    <3>1. found' = found /\ ToSet(found) \cup {id} = ToSet(found)
      BY <1>1, <2>1
    <3> QED  BY <1>0, <3>1 DEF LogTypeOK
  <2>2. CASE id \notin ToSet(found)
    <3>1. found' = Append(found, id) /\ found \in Seq(Commit)
      BY <1>0, <1>1, <2>2 DEF LogTypeOK
    <3> HIDE DEF id
    <3> QED  BY <1>3, <3>1, SetOfAppend
  <2> QED  BY <2>1, <2>2
<1>5. LogTypeOK'
  BY <1>0, <1>1, <1>2, <1>3, <1>4 DEF LogTypeOK
<1>6. LogInv'
  <2>1. ToSet(printed)' \subseteq ToSet(found)'
    BY <1>0, <1>1, <1>4 DEF LogInv
  <2>2. ToSet(found)' \cup ToSet(todo)' = ToSet(found) \cup ToSet(todo)
    BY <1>3, <1>4
  <2>3. (ToSet(found)' \ ToSet(printed)') \cup ToSet(todo)'
          \subseteq (ToSet(found) \ ToSet(printed)) \cup ToSet(todo)
    BY <1>1, <1>3, <1>4
  <2>4. status' # "done"
    BY <1>1
  <2> QED  BY <1>0, <1>1, <1>2, <2>1, <2>2, <2>3, <2>4 DEF LogInv
<1>7. id \in Ancestors(start)
  BY <1>0, <1>3 DEF LogInv
<1>8. ShowsHistory'
  BY <1>0, <1>1, <1>2, <1>7 DEF ShowsHistory
<1>9. NewestFirst'
  BY <1>0, <1>1, <1>2 DEF NewestFirst
<1> QED  BY <1>5, <1>6, <1>8, <1>9 DEF LogIInv

(* The commit printed is the newest of those that wait, so with clocks     *)
(* that agree its parents and whatever else is to come are no newer.       *)
LEMMA PrintKeeps ==
  ASSUME LogIInv, PrintTop
  PROVE  LogIInv'
<1>0. LogTypeOK /\ LogInv /\ ShowsHistory /\ NewestFirst
  BY DEF LogIInv
<1>1. PICK i \in DOMAIN found :
        IsTop(i) /\ printed' = Append(printed, found[i]) /\ todo' = parents[found[i]]
  BY DEF PrintTop
<1> DEFINE c == found[i]
<1>2. /\ UNCHANGED <<logGraph, found, status>> /\ status = "running" /\ todo = <<>>
      /\ ToSet(todo) = {}
  BY DEF PrintTop, ToSet
<1>3. /\ UNCHANGED <<parents, unreadable, date, start>>
      /\ Ancestors(start)' = Ancestors(start) /\ ClocksAgree' = ClocksAgree
  BY <1>2, GraphStays
<1>4. /\ c \in Commit /\ c \in ToSet(found) /\ c \notin ToSet(printed)
      /\ c \in Ancestors(start)
  BY <1>0, <1>1, LenProperties, ElementOfSeq DEF LogTypeOK, LogInv, IsTop, Waiting, ToSet
<1>5. /\ printed' \in Seq(Commit) /\ ToSet(printed') = ToSet(printed) \cup {c}
      /\ IsInjective(printed') /\ todo' \in Seq(Commit)
  BY <1>0, <1>1, <1>4, SetOfAppend, InjectiveAppend DEF LogTypeOK, ShowsHistory
<1>6. LogTypeOK'
  BY <1>0, <1>2, <1>3, <1>5 DEF LogTypeOK
<1>7. ToSet(todo') \subseteq Ancestors(start)
  BY <1>0, <1>1, <1>4, LogAncestors DEF LogTypeOK
<1>8. ASSUME ClocksAgree, NEW e \in (ToSet(found) \ ToSet(printed')) \cup ToSet(todo')
      PROVE  date[e] <= date[c] /\ date[e] \in Nat /\ date[c] \in Nat
  <2>1. e \in Commit
    BY <1>0, <1>7, <1>8 DEF LogInv, Ancestors
  <2>2. date[e] \in Nat /\ date[c] \in Nat
    BY <1>0, <1>4, <2>1, DatesAssumption DEF LogTypeOK
  <2>3. CASE e \in ToSet(todo')
    BY <1>1, <1>4, <1>8, <2>2, <2>3 DEF ClocksAgree
  <2>4. CASE e \in ToSet(found) \ ToSet(printed')
    <3>1. PICK j \in DOMAIN found : found[j] = e
      BY <2>4 DEF ToSet
    <3>2. j \in Waiting \ {i}
      BY <1>5, <2>4, <3>1 DEF Waiting
    <3> QED  BY <1>1, <2>2, <3>1, <3>2 DEF IsTop, Newer
  <2> QED  BY <1>8, <2>2, <2>3, <2>4
<1>9. ASSUME ClocksAgree, NEW d \in ToSet(printed)
      PROVE  date[c] <= date[d] /\ date[d] \in Nat
  <2>1. d \in Commit
    BY <1>0, <1>9 DEF LogInv, Ancestors
  <2> QED  BY <1>0, <1>4, <1>9, <2>1, DatesAssumption DEF LogInv, LogTypeOK
<1>10. LogInv'
  <2>1. ASSUME ClocksAgree, NEW e \in (ToSet(found) \ ToSet(printed')) \cup ToSet(todo'),
               NEW d \in ToSet(printed')
        PROVE  date[e] <= date[d]
    <3>1. CASE d = c
      BY <1>8, <2>1, <3>1
    <3>2. CASE d \in ToSet(printed)
      <4>1. date[e] <= date[c] /\ date[e] \in Nat /\ date[c] \in Nat
        BY <1>8, <2>1
      <4>2. date[c] <= date[d] /\ date[d] \in Nat
        BY <1>9, <2>1, <3>2
      <4> QED  BY <4>1, <4>2
    <3> QED  BY <1>5, <2>1, <3>1, <3>2
  <2>2. \A b \in ToSet(printed') : ToSet(parents[b]) \subseteq ToSet(found) \cup ToSet(todo')
    BY <1>0, <1>1, <1>2, <1>5 DEF LogInv
  <2>3. /\ ToSet(printed') \subseteq ToSet(found)
        /\ ToSet(found) \cup ToSet(todo') \subseteq Ancestors(start)
        /\ start \in ToSet(found)
    BY <1>0, <1>2, <1>4, <1>5, <1>7 DEF LogInv
  <2> QED  BY <1>2, <1>3, <2>1, <2>2, <2>3 DEF LogInv
<1>11. ShowsHistory'
  BY <1>0, <1>2, <1>3, <1>4, <1>5 DEF ShowsHistory
<1>12. NewestFirst'
  <2> SUFFICES ASSUME ClocksAgree, NEW k \in DOMAIN printed', NEW j \in DOMAIN printed', k < j
               PROVE  date[printed'[k]] >= date[printed'[j]]
    BY <1>3 DEF NewestFirst
  <2>1. /\ Len(printed) \in Nat /\ DOMAIN printed = 1 .. Len(printed)
        /\ DOMAIN printed' = 1 .. Len(printed) + 1
        /\ \A m \in 1 .. Len(printed) : printed'[m] = printed[m]
        /\ printed'[Len(printed) + 1] = c
    BY <1>0, <1>1, <1>4, AppendProperties, LenProperties DEF LogTypeOK
  <2>2. k \in 1 .. Len(printed) /\ printed'[k] = printed[k] /\ printed[k] \in ToSet(printed)
    BY <2>1 DEF ToSet
  <2>3. CASE j \in 1 .. Len(printed)
    BY <1>0, <2>1, <2>2, <2>3 DEF NewestFirst
  <2>4. CASE j = Len(printed) + 1
    <3>1. date[c] <= date[printed[k]] /\ date[printed[k]] \in Nat
      BY <1>9, <2>2
    <3>2. date[c] \in Nat
      BY <1>0, <1>4, DatesAssumption DEF LogTypeOK
    <3> QED  BY <2>1, <2>2, <2>4, <3>1, <3>2
  <2> QED  BY <2>1, <2>3, <2>4
<1> QED  BY <1>6, <1>10, <1>11, <1>12 DEF LogIInv

(* When nothing waits, what was printed is closed under parents.           *)
LEMMA ReturnKeeps ==
  ASSUME LogIInv, Return
  PROVE  LogIInv'
<1>0. LogTypeOK /\ LogInv /\ ShowsHistory /\ NewestFirst
  BY DEF LogIInv
<1>1. /\ UNCHANGED <<logGraph, found, printed, todo>> /\ status' = "done" /\ status = "running"
      /\ todo = <<>> /\ Waiting = {} /\ ToSet(todo) = {}
  BY DEF Return, ToSet
<1>2. /\ UNCHANGED <<parents, unreadable, date, start>>
      /\ Ancestors(start)' = Ancestors(start) /\ ClocksAgree' = ClocksAgree
  BY <1>1, GraphStays
<1>3. ToSet(found) = ToSet(printed)
  BY <1>0, <1>1 DEF LogInv, Waiting, ToSet
<1>4. ToSet(printed) \in SUBSET Commit
  BY <1>0 DEF ShowsHistory, Ancestors
<1>5. Ancestors(start) \subseteq ToSet(printed)
  BY <1>0, <1>1, <1>3, <1>4, LogAncestors DEF LogInv, LogTypeOK
<1>6. LogTypeOK' /\ NewestFirst'
  BY <1>0, <1>1, <1>2 DEF LogTypeOK, NewestFirst
<1>7. LogInv'
  BY <1>0, <1>1, <1>2 DEF LogInv, Waiting
<1>8. ShowsHistory'
  BY <1>0, <1>1, <1>2, <1>5 DEF ShowsHistory
<1> QED  BY <1>6, <1>7, <1>8 DEF LogIInv

LEMMA LogInvariant == LogSpec => []LogIInv
<1>1. LogIInv /\ [LogNext]_logVars => LogIInv'
  <2> SUFFICES ASSUME LogIInv, [LogNext]_logVars PROVE LogIInv'
    OBVIOUS
  <2>1. CASE UNCHANGED logVars
    <3>1. UNCHANGED <<logGraph, found, printed, todo, status>>
      BY <2>1 DEF logVars
    <3>2. /\ UNCHANGED <<parents, unreadable, date, start>>
          /\ Ancestors(start)' = Ancestors(start) /\ ClocksAgree' = ClocksAgree
      BY <3>1, GraphStays
    <3> QED  BY <3>1, <3>2 DEF LogIInv, LogTypeOK, LogInv, Waiting, ShowsHistory, NewestFirst
  <2> QED  BY <2>1, EnqueueKeeps, PrintKeeps, ReturnKeeps DEF LogNext
<1> QED  BY <1>1, LogStarts, PTL DEF LogSpec

(* Whatever the shape of the history and the dates in it, log shows each   *)
(* of start's ancestors once and nothing else (commands/log.cpp:32-48).    *)
THEOREM LogShowsHistory == LogSpec => []ShowsHistory
<1>1. LogIInv => ShowsHistory
  BY DEF LogIInv
<1> QED  BY <1>1, LogInvariant, PTL

(* Where clocks agree with the history, the priority queue makes the whole *)
(* log newest first (commands/log.cpp:21-26).                              *)
THEOREM LogIsNewestFirst == LogSpec => []NewestFirst
<1>1. LogIInv => NewestFirst
  BY DEF LogIInv
<1> QED  BY <1>1, LogInvariant, PTL
=============================================================================
