-------------------------- MODULE CustomTest_proof --------------------------
(***************************************************************************)
(* Proofs about CustomTest for any topics, numbers of questions on offer   *)
(* and questions stored for a topic.                                       *)
(***************************************************************************)
EXTENDS CustomTest, SequenceTheorems, TLAPS

(* Lemmas about lists of topics *)

\* A topic that is not in the list may go to its end.
LEMMA AppendTopic ==
  ASSUME NEW s \in TopicLists, NEW t \in Topics, ~Contains(s, t)
  PROVE  /\ Append(s, t) \in TopicLists
         /\ Len(Append(s, t)) = Len(s) + 1
         /\ \A i \in 1..Len(s) : Append(s, t)[i] = s[i]
<1>1. s \in Seq(Topics) /\ IsInjective(s)
  BY DEF TopicLists
<1>2. /\ Append(s, t) \in Seq(Topics)
      /\ Len(Append(s, t)) = Len(s) + 1
      /\ \A i \in 1..Len(s) : Append(s, t)[i] = s[i]
      /\ Append(s, t)[Len(s) + 1] = t
  BY <1>1, AppendProperties
<1>3. ASSUME NEW i \in 1..(Len(s) + 1), NEW j \in 1..(Len(s) + 1),
             Append(s, t)[i] = Append(s, t)[j]
      PROVE  i = j
  <2>1. \A k \in 1..Len(s) : s[k] # t
    BY DEF Contains
  <2>2. CASE i \in 1..Len(s) /\ j \in 1..Len(s)
    BY <2>2, <1>1, <1>2, <1>3 DEF IsInjective
  <2>3. CASE i = Len(s) + 1 \/ j = Len(s) + 1
    BY <2>1, <2>3, <1>1, <1>2, <1>3
  <2> QED
    BY <2>2, <2>3, <1>1
<1>4. DOMAIN Append(s, t) = 1..(Len(s) + 1)
  BY <1>2
<1>5. IsInjective(Append(s, t))
  BY <1>3, <1>4 DEF IsInjective
<1> QED
  BY <1>2, <1>5 DEF TopicLists

\* A list of topics without one position is a list of topics, and the same up
\* to that position.
LEMMA RemoveTopic ==
  ASSUME NEW s \in TopicLists, NEW i \in 1..Len(s)
  PROVE  /\ RemoveAt(s, i) \in TopicLists
         /\ Len(RemoveAt(s, i)) = Len(s) - 1
         /\ \A k \in 1..(i - 1) : RemoveAt(s, i)[k] = s[k]
<1> DEFINE a == SubSeq(s, 1, i - 1)
           b == SubSeq(s, i + 1, Len(s))
           r == RemoveAt(s, i)
<1>1. s \in Seq(Topics) /\ IsInjective(s) /\ Len(s) \in Nat /\ i \in Nat
  BY DEF TopicLists
<1>2. /\ a \in Seq(Topics) /\ Len(a) = i - 1
      /\ \A k \in 1..(i - 1) : a[k] = s[k]
  BY <1>1
<1>3. /\ b \in Seq(Topics) /\ Len(b) = Len(s) - i
      /\ \A k \in 1..(Len(s) - i) : b[k] = s[k + i]
  BY <1>1
<1>4. r = a \o b
  BY DEF RemoveAt
<1> HIDE DEF a, b, r
<1>5. /\ r \in Seq(Topics) /\ Len(r) = Len(a) + Len(b)
      /\ \A k \in 1..(Len(a) + Len(b)) :
           r[k] = IF k <= Len(a) THEN a[k] ELSE b[k - Len(a)]
  BY <1>2, <1>3, <1>4, ConcatProperties
<1>6. \A k \in 1..(i - 1) : r[k] = s[k]
  <2> SUFFICES ASSUME NEW k \in 1..(i - 1)
               PROVE  r[k] = s[k]
    OBVIOUS
  <2>1. k \in 1..(Len(a) + Len(b)) /\ k <= Len(a)
    BY <1>1, <1>2, <1>3
  <2> QED
    BY <2>1, <1>2, <1>5
<1>7. \A k \in i..(Len(s) - 1) : r[k] = s[k + 1]
  <2> SUFFICES ASSUME NEW k \in i..(Len(s) - 1)
               PROVE  r[k] = s[k + 1]
    OBVIOUS
  <2>1. PICK m \in 1..(Len(s) - i) : m = k - (i - 1)
    BY <1>1
  <2>2. k \in 1..(Len(a) + Len(b)) /\ ~(k <= Len(a)) /\ k - Len(a) = m
    BY <2>1, <1>1, <1>2, <1>3
  <2>3. r[k] = b[m]
    BY <2>2, <1>5
  <2>4. b[m] = s[m + i] /\ m + i = k + 1
    BY <2>1, <1>1, <1>3
  <2> QED
    BY <2>3, <2>4
<1>8. Len(r) = Len(s) - 1
  BY <1>1, <1>2, <1>3, <1>5
<1>9. ASSUME NEW j \in 1..(Len(s) - 1), NEW k \in 1..(Len(s) - 1), r[j] = r[k]
      PROVE  j = k
  <2>1. PICK p \in 1..Len(s) : p = (IF j < i THEN j ELSE j + 1) /\ r[j] = s[p]
    BY <1>1, <1>6, <1>7
  <2>2. PICK q \in 1..Len(s) : q = (IF k < i THEN k ELSE k + 1) /\ r[k] = s[q]
    BY <1>1, <1>6, <1>7
  <2>3. p = q
    <3>1. \A x, y \in 1..Len(s) : s[x] = s[y] => x = y
      BY <1>1 DEF IsInjective
    <3> QED
      BY <3>1, <2>1, <2>2, <1>9
  <2> QED
    BY <2>1, <2>2, <2>3
<1>10. IsInjective(r)
  <2>1. DOMAIN r = 1..(Len(s) - 1)
    BY <1>5, <1>8
  <2> QED
    BY <2>1, <1>9 DEF IsInjective
<1> QED
  BY <1>5, <1>6, <1>8, <1>10 DEF TopicLists, r

-----------------------------------------------------------------------------
(***************************************************************************)
(* The inductive invariant.  WalkUnderWay says where a walk is; Undisturbed *)
(* that a walk whose topics stay chosen reads the list it began with,      *)
(* however many topics are added behind it.                                *)
(***************************************************************************)
WalkUnderWay ==
  walk # NoWalk =>
    /\ loading
    /\ walk.length >= 2 /\ walk.length = Len(walk.chosen)
    /\ Len(walk.read) >= 1 /\ Len(walk.read) <= walk.length
    /\ meddled \/ Len(selected) = walk.length

Undisturbed ==
  walk # NoWalk /\ walk.dropped \cap ToSet(walk.chosen) = {} =>
    /\ Len(selected) >= walk.length
    /\ \A i \in 1..walk.length : selected[i] = walk.chosen[i]
    /\ \A i \in 1..Len(walk.read) : walk.read[i] = walk.chosen[i]

IInv ==
  /\ TypeOK
  /\ StuckNeedsCause
  /\ OtherTopicsNeedSwap
  /\ WalkUnderWay
  /\ Undisturbed

\* What the lemmas below need of the types.
LEMMA SelectedType ==
  ASSUME TypeOK
  PROVE  /\ selected \in Seq(Topics)
         /\ Len(selected) \in Nat
         /\ count \in Nat \ {0}
         /\ loading \in BOOLEAN /\ meddled \in BOOLEAN /\ failed \in BOOLEAN
BY CountsAssumption DEF TypeOK, TopicLists

\* The parts of a walk.
LEMMA WalkType ==
  ASSUME TypeOK, walk # NoWalk
  PROVE  /\ walk \in Walks
         /\ walk.length \in Nat /\ walk.found \in Nat
         /\ walk.read \in Seq(Topics) /\ Len(walk.read) \in Nat
         /\ walk.chosen \in TopicLists /\ walk.chosen \in Seq(Topics)
         /\ walk.dropped \in SUBSET Topics
BY DEF TypeOK, Walks, TopicLists

\* The initial state satisfies the invariant, and so does a page disposed of.
LEMMA InitInv == Init => IInv
<1> SUFFICES ASSUME Init
             PROVE  IInv
  OBVIOUS
<1>1. <<>> \in TopicLists
  BY DEF TopicLists, IsInjective
<1> QED
  BY <1>1, CountsAssumption DEF Init, IInv, TypeOK, StuckNeedsCause,
     OtherTopicsNeedSwap, WalkUnderWay, Undisturbed

LEMMA DisposeStep ==
  ASSUME Dispose
  PROVE  IInv'
<1>1. <<>> \in TopicLists
  BY DEF TopicLists, IsInjective
<1> QED
  BY <1>1, CountsAssumption DEF Dispose, IInv, TypeOK, StuckNeedsCause,
     OtherTopicsNeedSwap, WalkUnderWay, Undisturbed

\* A chip that is selected goes behind the topics of a walk under way.
LEMMA SelectTopicStep ==
  ASSUME IInv, NEW t \in Topics, SelectTopic(t)
  PROVE  IInv'
<1>1. TypeOK
  BY DEF IInv
<1>2. /\ selected' \in TopicLists
      /\ Len(selected') = Len(selected) + 1
      /\ \A i \in 1..Len(selected) : selected'[i] = selected[i]
  BY <1>1, AppendTopic DEF SelectTopic, TypeOK
<1>3. UNCHANGED <<top, count, loading, walk, test, failed>>
  BY DEF SelectTopic
<1>4. meddled' = (meddled \/ loading) /\ meddled \in BOOLEAN
  BY <1>1 DEF SelectTopic, TypeOK
<1>5. TypeOK'
  BY <1>1, <1>2, <1>3, <1>4 DEF TypeOK
<1>6. StuckNeedsCause' /\ OtherTopicsNeedSwap'
  BY <1>3, <1>4 DEF IInv, StuckNeedsCause, OtherTopicsNeedSwap
<1>7. WalkUnderWay'
  BY <1>3, <1>4 DEF IInv, WalkUnderWay
<1>8. Undisturbed'
  <2> SUFFICES ASSUME walk # NoWalk,
                      walk.dropped \cap ToSet(walk.chosen) = {}
               PROVE  /\ Len(selected') >= walk.length
                      /\ \A i \in 1..walk.length : selected'[i] = walk.chosen[i]
                      /\ \A i \in 1..Len(walk.read) :
                           walk.read[i] = walk.chosen[i]
    BY <1>3 DEF Undisturbed
  <2>1. Len(selected) \in Nat /\ walk.length \in Nat
    BY <1>1, SelectedType, WalkType
  <2>2. /\ Len(selected) >= walk.length
        /\ \A i \in 1..walk.length : selected[i] = walk.chosen[i]
        /\ \A i \in 1..Len(walk.read) : walk.read[i] = walk.chosen[i]
    BY DEF IInv, Undisturbed
  <2> QED
    BY <2>1, <2>2, <1>2
<1> QED
  BY <1>5, <1>6, <1>7, <1>8 DEF IInv

\* A chip that is deselected leaves the topics of a walk alone, or is one of
\* them and ends what Undisturbed says.
LEMMA DeselectTopicStep ==
  ASSUME IInv, NEW i \in 1..Len(selected), DeselectTopic(i)
  PROVE  IInv'
<1>1. TypeOK
  BY DEF IInv
<1>2. /\ selected' \in TopicLists
      /\ Len(selected') = Len(selected) - 1
      /\ \A k \in 1..(i - 1) : selected'[k] = selected[k]
  BY <1>1, RemoveTopic DEF DeselectTopic, TypeOK
<1>3. UNCHANGED <<top, count, loading, test, failed>>
  BY DEF DeselectTopic
<1>4. meddled' = (meddled \/ loading) /\ meddled \in BOOLEAN
  BY <1>1 DEF DeselectTopic, TypeOK
<1>5. selected[i] \in Topics
  BY <1>1, SelectedType
<1>6. CASE walk = NoWalk
  <2>1. walk' = NoWalk
    BY <1>6 DEF DeselectTopic
  <2>2. TypeOK'
    BY <2>1, <1>1, <1>2, <1>3, <1>4 DEF TypeOK
  <2> QED
    BY <2>1, <2>2, <1>3, <1>4, <1>6
       DEF IInv, StuckNeedsCause, OtherTopicsNeedSwap, WalkUnderWay, Undisturbed
<1>7. CASE walk # NoWalk
  <2>1. walk' = [walk EXCEPT !.dropped = @ \union {selected[i]}]
    BY <1>7 DEF DeselectTopic
  <2>2. walk \in Walks
    BY <1>1, <1>7, WalkType
  <2>3. /\ walk' \in Walks
        /\ walk'.length = walk.length /\ walk'.read = walk.read
        /\ walk'.chosen = walk.chosen
        /\ walk'.dropped = walk.dropped \union {selected[i]}
    BY <2>1, <2>2, <1>5 DEF Walks
  <2>4. loading /\ meddled'
    BY <1>4, <1>7 DEF IInv, WalkUnderWay
  <2>5. TypeOK'
    BY <2>3, <1>1, <1>2, <1>3, <1>4 DEF TypeOK
  <2>6. StuckNeedsCause' /\ OtherTopicsNeedSwap' /\ WalkUnderWay'
    BY <2>3, <2>4, <1>3, <1>7
       DEF IInv, StuckNeedsCause, OtherTopicsNeedSwap, WalkUnderWay
  <2>7. Undisturbed'
    <3> SUFFICES ASSUME (walk.dropped \union {selected[i]})
                          \cap ToSet(walk.chosen) = {}
                 PROVE  /\ Len(selected') >= walk.length
                        /\ \A k \in 1..walk.length :
                             selected'[k] = walk.chosen[k]
                        /\ \A k \in 1..Len(walk.read) :
                             walk.read[k] = walk.chosen[k]
      BY <2>3 DEF Undisturbed
    <3>1. /\ Len(selected) \in Nat /\ walk.length \in Nat
          /\ walk.length = Len(walk.chosen) /\ walk.chosen \in Seq(Topics)
      BY <1>1, <1>7, SelectedType, WalkType DEF IInv, WalkUnderWay
    <3>2. /\ Len(selected) >= walk.length
          /\ \A k \in 1..walk.length : selected[k] = walk.chosen[k]
          /\ \A k \in 1..Len(walk.read) : walk.read[k] = walk.chosen[k]
      BY <1>7 DEF IInv, Undisturbed
    <3>3. selected[i] \notin ToSet(walk.chosen)
      OBVIOUS
    <3>4. \A k \in 1..walk.length : walk.chosen[k] \in ToSet(walk.chosen)
      BY <3>1 DEF ToSet
    <3>5. i > walk.length
      BY <3>1, <3>2, <3>3, <3>4
    <3> QED
      BY <3>1, <3>2, <3>5, <1>2
  <2> QED
    BY <2>5, <2>6, <2>7 DEF IInv
<1> QED
  BY <1>6, <1>7

\* A start begins a walk over the list as it is.
LEMMA StartStep ==
  ASSUME IInv, StartCustomTest
  PROVE  IInv'
<1>1. TypeOK
  BY DEF IInv
<1>2. selected \in TopicLists /\ selected \in Seq(Topics) /\ Len(selected) >= 2
  BY <1>1, SelectedType DEF StartCustomTest, EnoughTopics, TypeOK
<1>3. selected[1] \in Topics
  BY <1>2
<1>4. /\ <<selected[1]>> \in Seq(Topics) /\ Len(<<selected[1]>>) = 1
      /\ <<selected[1]>>[1] = selected[1]
  BY <1>3
<1>5. /\ walk' \in Walks
      /\ walk'.length = Len(selected) /\ walk'.read = <<selected[1]>>
      /\ walk'.chosen = selected
  BY <1>2, <1>4 DEF StartCustomTest, Walks
<1>6. /\ loading' = TRUE /\ meddled' = FALSE /\ failed' = FALSE
      /\ UNCHANGED <<top, selected, count, test>>
  BY DEF StartCustomTest
<1>7. walk' # NoWalk
  BY <1>5, NoWalkAssumption
<1>8. TypeOK'
  BY <1>1, <1>5, <1>6 DEF TypeOK
<1>9. StuckNeedsCause' /\ OtherTopicsNeedSwap'
  BY <1>6, <1>7 DEF IInv, StuckNeedsCause, OtherTopicsNeedSwap
<1>10. WalkUnderWay' /\ Undisturbed'
  BY <1>2, <1>4, <1>5, <1>6 DEF WalkUnderWay, Undisturbed
<1> QED
  BY <1>8, <1>9, <1>10 DEF IInv

\* The loop only throws when a chip was tapped.
LEMMA ThrowsStep ==
  ASSUME IInv, walk # NoWalk, Throws, UNCHANGED <<selected, count, meddled, failed>>
  PROVE  IInv'
<1>1. meddled
  BY DEF IInv, WalkUnderWay, Throws, ListChanged
<1>2. walk' = NoWalk /\ UNCHANGED <<top, loading, test>>
  BY DEF Throws
<1> QED
  BY <1>1, <1>2 DEF IInv, TypeOK, StuckNeedsCause, OtherTopicsNeedSwap,
     WalkUnderWay, Undisturbed

\* The next topic that is read is the next of the list, which has its length.
LEMMA ReadNextStep ==
  ASSUME IInv, walk # NoWalk, NEW n \in Nat, ReadNext(n),
         UNCHANGED <<selected, count, meddled, failed>>
  PROVE  IInv'
<1>1. TypeOK
  BY DEF IInv
<1> DEFINE next == selected[Len(walk.read) + 1]
<1>2. /\ walk \in Walks /\ walk.length \in Nat /\ walk.found \in Nat
      /\ walk.read \in Seq(Topics) /\ Len(walk.read) \in Nat
  BY <1>1, WalkType
<1>3. /\ Len(selected) = walk.length /\ Len(walk.read) < walk.length
      /\ selected \in Seq(Topics)
  BY <1>1, <1>2, SelectedType DEF ReadNext, ListChanged, NoTopicLeft
<1>4. Len(walk.read) + 1 \in 1..Len(selected) /\ next \in Topics
  BY <1>2, <1>3
<1>5. walk' = [walk EXCEPT !.read = Append(walk.read, next),
                           !.found = walk.found + n]
  BY DEF ReadNext
<1> HIDE DEF next
<1>6. /\ Append(walk.read, next) \in Seq(Topics)
      /\ Len(Append(walk.read, next)) = Len(walk.read) + 1
      /\ \A i \in 1..Len(walk.read) : Append(walk.read, next)[i] = walk.read[i]
      /\ Append(walk.read, next)[Len(walk.read) + 1] = next
  BY <1>2, <1>4, AppendProperties
<1>7. /\ walk' \in Walks
      /\ walk'.length = walk.length /\ walk'.read = Append(walk.read, next)
      /\ walk'.chosen = walk.chosen /\ walk'.dropped = walk.dropped
  <2> DEFINE longer == Append(walk.read, next)
             more   == walk.found + n
  <2>1. longer \in Seq(Topics) /\ more \in Nat
    BY <1>2, <1>6
  <2>2. walk' = [walk EXCEPT !.read = longer, !.found = more]
    BY <1>5
  <2> HIDE DEF longer, more
  <2>3. /\ walk' \in Walks
        /\ walk'.length = walk.length /\ walk'.read = longer
        /\ walk'.chosen = walk.chosen /\ walk'.dropped = walk.dropped
    BY <2>1, <2>2, <1>2 DEF Walks
  <2> QED
    BY <2>3 DEF longer
<1>8. UNCHANGED <<top, loading, test>>
  BY DEF ReadNext
<1>9. TypeOK'
  BY <1>1, <1>7, <1>8 DEF TypeOK
<1>10. StuckNeedsCause' /\ OtherTopicsNeedSwap'
  BY <1>7, <1>8, NoWalkAssumption DEF IInv, StuckNeedsCause, OtherTopicsNeedSwap
<1>11. WalkUnderWay'
  BY <1>2, <1>3, <1>6, <1>7, <1>8 DEF IInv, WalkUnderWay
<1>12. Undisturbed'
  <2> SUFFICES ASSUME walk.dropped \cap ToSet(walk.chosen) = {}
               PROVE  /\ Len(selected) >= walk.length
                      /\ \A i \in 1..walk.length : selected[i] = walk.chosen[i]
                      /\ \A i \in 1..(Len(walk.read) + 1) :
                           Append(walk.read, next)[i] = walk.chosen[i]
    BY <1>6, <1>7 DEF Undisturbed
  <2>1. /\ Len(selected) >= walk.length
        /\ \A i \in 1..walk.length : selected[i] = walk.chosen[i]
        /\ \A i \in 1..Len(walk.read) : walk.read[i] = walk.chosen[i]
    BY DEF IInv, Undisturbed
  <2>2. next = walk.chosen[Len(walk.read) + 1]
    BY <2>1, <1>3, <1>4 DEF next
  <2>3. \A i \in 1..(Len(walk.read) + 1) :
          Append(walk.read, next)[i] = walk.chosen[i]
    BY <2>1, <2>2, <1>2, <1>6
  <2> QED
    BY <2>1, <2>3
<1> QED
  BY <1>9, <1>10, <1>11, <1>12 DEF IInv

\* A walk that ends has read as many topics as were chosen.
LEMMA FinishStep ==
  ASSUME IInv, walk # NoWalk, NEW n \in Nat, Finish(n),
         UNCHANGED <<selected, count, meddled, failed>>
  PROVE  IInv'
<1>1. TypeOK
  BY DEF IInv
<1> DEFINE found == walk.found + n
<1>2. /\ walk.length \in Nat /\ walk.found \in Nat /\ walk.dropped \in SUBSET Topics
      /\ walk.read \in Seq(Topics) /\ Len(walk.read) \in Nat
      /\ walk.chosen \in TopicLists /\ walk.chosen \in Seq(Topics)
  BY <1>1, WalkType
<1>3. Len(walk.read) = walk.length /\ walk.length >= 2
  BY <1>1, <1>2, SelectedType DEF IInv, WalkUnderWay, Finish, ListChanged, NoTopicLeft
<1>4. walk' = NoWalk /\ (NothingFound(found) \/ PushTest(found))
  BY DEF Finish
<1>5. found \in Nat
  BY <1>2
<1> HIDE DEF found
<1>6. loading' = FALSE
  BY <1>4 DEF NothingFound, PushTest
<1>7. StuckNeedsCause' /\ WalkUnderWay' /\ Undisturbed'
  BY <1>4, <1>6 DEF StuckNeedsCause, WalkUnderWay, Undisturbed
<1>8. CASE NothingFound(found)
  <2>1. TypeOK' /\ OtherTopicsNeedSwap'
    BY <1>1, <1>4, <1>6, <1>8
       DEF NothingFound, IInv, TypeOK, OtherTopicsNeedSwap
  <2> QED
    BY <2>1, <1>7 DEF IInv
<1>9. CASE PushTest(found)
  <2> DEFINE size == IF count < found THEN count ELSE found
  <2>1. size \in Nat \ {0}
    BY <1>1, <1>5, <1>9, SelectedType DEF PushTest
  <2>2. /\ top' = "test"
        /\ test' = [read |-> walk.read, size |-> size,
                    chosen |-> walk.chosen, dropped |-> walk.dropped]
    BY <1>9 DEF PushTest
  <2> HIDE DEF size
  <2>3. test' \in Tests
    BY <2>1, <2>2, <1>2, <1>3 DEF Tests
  <2>4. TypeOK'
    BY <2>2, <2>3, <1>1, <1>4, <1>6 DEF TypeOK
  <2>5. OtherTopicsNeedSwap'
    <3> SUFFICES ASSUME walk.dropped \cap ToSet(walk.chosen) = {}
                 PROVE  walk.read = walk.chosen
      BY <2>2 DEF OtherTopicsNeedSwap
    <3>1. Len(walk.read) = Len(walk.chosen)
      BY <1>3 DEF IInv, WalkUnderWay
    <3>2. \A i \in 1..Len(walk.read) : walk.read[i] = walk.chosen[i]
      BY DEF IInv, Undisturbed
    <3> QED
      BY <3>1, <3>2, <1>2, SeqEqual
  <2> QED
    BY <2>4, <2>5, <1>7 DEF IInv
<1> QED
  BY <1>4, <1>8, <1>9

\* Every step preserves the invariant.
LEMMA NextInv == IInv /\ [Next]_vars => IInv'
<1> SUFFICES ASSUME IInv, [Next]_vars
             PROVE  IInv'
  OBVIOUS
<1>1. CASE OpenPage
  BY <1>1 DEF OpenPage, IInv, TypeOK, StuckNeedsCause, OtherTopicsNeedSwap,
     WalkUnderWay, Undisturbed
<1>2. CASE LeavePage \/ MainMenu
  BY <1>2, DisposeStep DEF LeavePage, MainMenu
<1>3. CASE \E t \in Topics : SelectTopic(t)
  BY <1>3, SelectTopicStep
<1>4. CASE \E i \in 1..Len(selected) : DeselectTopic(i)
  BY <1>4, DeselectTopicStep
<1>5. CASE \E n \in Counts : ChooseCount(n)
  BY <1>5 DEF ChooseCount, IInv, TypeOK, StuckNeedsCause, OtherTopicsNeedSwap,
     WalkUnderWay, Undisturbed
<1>6. CASE StartCustomTest
  BY <1>6, StartStep
<1>7. CASE \E n \in 0..MaxQuestions : TopicRead(n)
  <2>1. PICK n \in 0..MaxQuestions : TopicRead(n)
    BY <1>7
  <2>2. n \in Nat
    BY MaxQuestionsAssumption
  <2> QED
    BY <2>1, <2>2, ThrowsStep, ReadNextStep, FinishStep DEF TopicRead
<1>8. CASE ReadFails
  BY <1>8 DEF ReadFails, IInv, TypeOK, StuckNeedsCause, OtherTopicsNeedSwap,
     WalkUnderWay, Undisturbed
<1>9. CASE BackFromTest
  BY <1>9 DEF BackFromTest, IInv, TypeOK, StuckNeedsCause, OtherTopicsNeedSwap,
     WalkUnderWay, Undisturbed
<1>10. CASE UNCHANGED vars
  BY <1>10 DEF vars, IInv, TypeOK, StuckNeedsCause, OtherTopicsNeedSwap,
     WalkUnderWay, Undisturbed
<1> QED
  BY <1>1, <1>2, <1>3, <1>4, <1>5, <1>6, <1>7, <1>8, <1>9, <1>10 DEF Next

-----------------------------------------------------------------------------
(* Theorems *)

\* The invariant holds at every step of the custom test.
THEOREM Inductive == Spec => []IInv
BY InitInv, NextInv, PTL DEF Spec

\* Every variable keeps its type, and every test that is pushed has a question
\* and was read from at least two entries of the list.
THEOREM TypeCorrect == Spec => []TypeOK
<1>1. IInv => TypeOK
  BY DEF IInv
<1> QED
  BY <1>1, Inductive, PTL

\* "Testi Başlat" only stays disabled for ever after a tap on a chip during the
\* loading or a failed read (_startCustomTest).
THEOREM StuckHasCause == Spec => []StuckNeedsCause
<1>1. IInv => StuckNeedsCause
  BY DEF IInv
<1> QED
  BY <1>1, Inductive, PTL

\* _startCustomTest reads the topics that were chosen when it was started,
\* unless one of them was deselected while it ran.
THEOREM ChosenTopicsAreRead == Spec => []OtherTopicsNeedSwap
<1>1. IInv => OtherTopicsNeedSwap
  BY DEF IInv
<1> QED
  BY <1>1, Inductive, PTL
=============================================================================
