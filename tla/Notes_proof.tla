---------------------------- MODULE Notes_proof ----------------------------
(***************************************************************************)
(* Proofs about Notes for any categories, numbers of notes and writes      *)
(* under way.                                                              *)
(***************************************************************************)
EXTENDS Notes, SequenceTheorems, FiniteSetTheorems, TLAPS

\* A list of notes as it grew, up to the note with number n.
Grown(s, n) ==
  /\ s \in Seq(Note)
  /\ \A i \in 1..Len(s) : s[i].id <= n
  /\ \A i, k \in 1..Len(s) : i < k => s[i].id < s[k].id

-----------------------------------------------------------------------------
(* Lemmas about lists of notes *)

LEMMA NoteIds ==
  ASSUME NEW s \in Seq(Note)
  PROVE  \A i \in 1..Len(s) : s[i] \in Note /\ s[i].id \in 1..MaxNotes /\ s[i].id \in Nat
<1>1. \A i \in 1..Len(s) : s[i] \in Note
  OBVIOUS
<1>2. \A m \in Note : m.id \in 1..MaxNotes /\ m.id \in Nat
  BY BoundsAssumption DEF Note
<1> QED
  BY <1>1, <1>2

LEMMA IdsOfNotes ==
  ASSUME NEW s \in Seq(Note)
  PROVE  Ids(s) \subseteq 1..MaxNotes
BY NoteIds DEF Ids, ToSet

LEMMA NoNotes ==
  /\ <<>> \in Seq(Note) /\ <<>> \in Seq(Seq(Note)) /\ Len(<<>>) = 0
  /\ \A n \in Nat : Grown(<<>>, n)
BY DEF Grown

\* A later note does not disturb a list.
LEMMA LaterNote ==
  ASSUME NEW n \in Nat, NEW s, Grown(s, n)
  PROVE  Grown(s, n + 1)
<1>1. \A i \in 1..Len(s) : s[i].id \in Nat
  BY NoteIds DEF Grown
<1> QED
  BY <1>1 DEF Grown

\* The newest note goes to the end of the list, and drops none.
LEMMA AppendNote ==
  ASSUME NEW n \in Nat, NEW s, Grown(s, n), NEW m \in Note, m.id = n + 1
  PROVE  Grown(Append(s, m), n + 1) /\ ToSet(s) \ ToSet(Append(s, m)) = {}
<1>1. s \in Seq(Note) /\ \A i \in 1..Len(s) : s[i].id \in Nat
  BY NoteIds DEF Grown
<1>2. /\ Append(s, m) \in Seq(Note) /\ Len(Append(s, m)) = Len(s) + 1
      /\ \A i \in 1..Len(s) : Append(s, m)[i] = s[i]
      /\ Append(s, m)[Len(s) + 1] = m
  BY <1>1, AppendProperties
<1>3. Grown(Append(s, m), n + 1)
  BY <1>1, <1>2 DEF Grown
<1>4. \A i \in 1..Len(s) : s[i] \in ToSet(Append(s, m))
  BY <1>1, <1>2 DEF ToSet
<1> QED
  BY <1>1, <1>3, <1>4 DEF ToSet

\* What is left of a list without its position i.
LEMMA RemoveAtProperties ==
  ASSUME NEW s \in Seq(Note), NEW i \in 1..Len(s)
  PROVE  /\ RemoveAt(s, i) \in Seq(Note)
         /\ Len(RemoveAt(s, i)) = Len(s) - 1
         /\ \A k \in 1..(i - 1) : RemoveAt(s, i)[k] = s[k]
         /\ \A k \in i..(Len(s) - 1) : RemoveAt(s, i)[k] = s[k + 1]
<1> DEFINE a == SubSeq(s, 1, i - 1)
           b == SubSeq(s, i + 1, Len(s))
           r == RemoveAt(s, i)
<1>1. /\ a \in Seq(Note) /\ Len(a) = i - 1
      /\ \A k \in 1..(i - 1) : a[k] = s[k]
  OBVIOUS
<1>2. /\ b \in Seq(Note) /\ Len(b) = Len(s) - i
      /\ \A k \in 1..(Len(s) - i) : b[k] = s[k + i]
  OBVIOUS
<1>3. r = a \o b
  BY DEF RemoveAt
<1> HIDE DEF a, b, r
<1>4. /\ r \in Seq(Note) /\ Len(r) = Len(a) + Len(b)
      /\ \A k \in 1..(Len(a) + Len(b)) :
           r[k] = IF k <= Len(a) THEN a[k] ELSE b[k - Len(a)]
  BY <1>1, <1>2, <1>3, ConcatProperties
<1>5. ASSUME NEW k \in 1..(i - 1)
      PROVE  r[k] = s[k]
  <2>1. k \in 1..(Len(a) + Len(b)) /\ k <= Len(a)
    BY <1>1, <1>2
  <2> QED
    BY <2>1, <1>1, <1>4
<1>6. ASSUME NEW k \in i..(Len(s) - 1)
      PROVE  r[k] = s[k + 1]
  <2>1. PICK m \in 1..(Len(s) - i) : m = k - (i - 1)
    OBVIOUS
  <2>2. k \in 1..(Len(a) + Len(b)) /\ ~(k <= Len(a)) /\ k - Len(a) = m
    BY <2>1, <1>1, <1>2
  <2>3. b[m] = s[m + i] /\ m + i = k + 1
    BY <2>1, <1>2
  <2> QED
    BY <2>2, <2>3, <1>4
<1> QED
  BY <1>1, <1>2, <1>4, <1>5, <1>6 DEF r

\* A removal leaves a list as it grew, and costs exactly one note.
LEMMA RemoveNote ==
  ASSUME NEW n \in Nat, NEW s, Grown(s, n), NEW i \in 1..Len(s)
  PROVE  /\ Grown(RemoveAt(s, i), n)
         /\ ToSet(s) \ ToSet(RemoveAt(s, i)) = {s[i]}
<1> DEFINE r == RemoveAt(s, i)
<1>1. /\ s \in Seq(Note) /\ Len(s) \in Nat
      /\ \A k \in 1..Len(s) : s[k].id \in Nat /\ s[k].id <= n
      /\ \A j, k \in 1..Len(s) : j < k => s[j].id < s[k].id
  BY NoteIds DEF Grown
<1>2. /\ r \in Seq(Note) /\ Len(r) = Len(s) - 1
      /\ \A k \in 1..(i - 1) : r[k] = s[k]
      /\ \A k \in i..(Len(s) - 1) : r[k] = s[k + 1]
  BY <1>1, RemoveAtProperties
<1> HIDE DEF r
<1>3. \A k \in 1..Len(r) : \E p \in 1..Len(s) :
        p = (IF k < i THEN k ELSE k + 1) /\ r[k] = s[p]
  BY <1>1, <1>2
<1>4. ASSUME NEW j \in 1..Len(r), NEW k \in 1..Len(r), j < k
      PROVE  r[j].id < r[k].id
  <2>1. PICK p \in 1..Len(s) : p = (IF j < i THEN j ELSE j + 1) /\ r[j] = s[p]
    BY <1>3
  <2>2. PICK q \in 1..Len(s) : q = (IF k < i THEN k ELSE k + 1) /\ r[k] = s[q]
    BY <1>3
  <2>3. p < q
    BY <2>1, <2>2, <1>1, <1>2, <1>4
  <2> QED
    BY <2>1, <2>2, <2>3, <1>1
<1>5. Grown(r, n)
  BY <1>1, <1>2, <1>3, <1>4 DEF Grown
<1>6. s[i] \notin ToSet(r)
  <2> SUFFICES ASSUME NEW k \in 1..Len(r)
               PROVE  r[k] # s[i]
    BY <1>2 DEF ToSet
  <2>1. PICK p \in 1..Len(s) : p = (IF k < i THEN k ELSE k + 1) /\ r[k] = s[p]
    BY <1>3
  <2>2. p < i \/ i < p
    BY <2>1
  <2> QED
    BY <2>1, <2>2, <1>1
<1>7. ASSUME NEW p \in 1..Len(s), p # i
      PROVE  s[p] \in ToSet(r)
  <2>1. CASE p < i
    <3>1. p \in 1..(i - 1) /\ p \in 1..Len(r)
      BY <2>1, <1>1, <1>2
    <3> QED
      BY <3>1, <1>2 DEF ToSet
  <2>2. CASE p > i
    <3>1. PICK k \in i..(Len(s) - 1) : p = k + 1
      BY <2>2, <1>1
    <3>2. k \in 1..Len(r) /\ r[k] = s[p]
      BY <3>1, <1>1, <1>2
    <3> QED
      BY <3>2, <1>2 DEF ToSet
  <2> QED
    BY <2>1, <2>2, <1>7
<1>8. ToSet(s) = {s[k] : k \in 1..Len(s)}
  BY <1>1 DEF ToSet
<1>9. ToSet(s) \ ToSet(r) = {s[i]}
  BY <1>6, <1>7, <1>8
<1> QED
  BY <1>5, <1>9 DEF r

\* The position of a card among those that are shown is a position of the whole
\* list: _deleteNot never removes out of range.
LEMMA CardIndexInRange ==
  ASSUME notlar \in Seq(Note), NEW i \in FilteredNotlar
  PROVE  CardIndex(i) \in 1..Len(notlar)
<1> DEFINE upto == {k \in FilteredNotlar : k <= i}
<1>1. Len(notlar) \in Nat /\ i \in 1..Len(notlar) /\ FilteredNotlar \subseteq 1..Len(notlar)
  BY DEF FilteredNotlar
<1>2. IsFiniteSet(1..Len(notlar)) /\ Cardinality(1..Len(notlar)) = Len(notlar)
  BY <1>1, FS_Interval
<1>3. upto \in SUBSET (1..Len(notlar)) /\ i \in upto
  <2>1. i <= i
    BY <1>1
  <2> QED
    BY <2>1, <1>1
<1>4. IsFiniteSet(upto) /\ Cardinality(upto) <= Len(notlar)
  BY <1>2, <1>3, FS_Subset
<1>5. Cardinality(upto) \in Nat
  BY <1>4, FS_CardinalityType
<1>6. Cardinality(upto) # 0
  BY <1>3, <1>4, FS_EmptySet
<1> QED
  BY <1>1, <1>4, <1>5, <1>6 DEF CardIndex

-----------------------------------------------------------------------------
(***************************************************************************)
(* The inductive invariant.  ShowsStored compares the page with the disk,  *)
(* so it takes that the page has what the process reads (PageIsCached) and *)
(* that this is the last value written (CatchesUp); that every list is as  *)
(* it grew (AllGrown) makes the notes of a list different from each other. *)
(***************************************************************************)
PageIsCached == open => notlar = cached

CatchesUp ==
  IF writes = <<>> THEN cached = disk ELSE cached = writes[Len(writes)]

AllGrown ==
  /\ Grown(cached, added) /\ Grown(disk, added)
  /\ \A i \in 1..Len(writes) : Grown(writes[i], added)

IInv ==
  /\ TypeOK
  /\ PageIsCached
  /\ CatchesUp
  /\ AllGrown

LEMMA InitInv == Init => IInv
<1> SUFFICES ASSUME Init
             PROVE  IInv
  OBVIOUS
<1>1. TypeOK
  <2>1. open \in BOOLEAN
    BY DEF Init
  <2>2. /\ notlar = <<>> /\ cached = <<>> /\ disk = <<>> /\ writes = <<>>
        /\ selectedCategory = All /\ added = 0 /\ pressed = 0 /\ gone = {}
    BY DEF Init
  <2> QED
    BY <2>1, <2>2, NoNotes, BoundsAssumption DEF TypeOK
<1>2. PageIsCached /\ CatchesUp
  BY DEF Init, PageIsCached, CatchesUp
<1>3. AllGrown
  BY NoNotes DEF Init, AllGrown
<1> QED
  BY <1>1, <1>2, <1>3 DEF IInv

\* The page writes the list it shows, grown up to the last note that was added.
LEMMA WriteStep ==
  ASSUME IInv, SetStringList(notlar'), Grown(notlar', added'),
         added' = added \/ added' = added + 1, added' <= MaxNotes,
         pressed' \in 0..MaxNotes, gone' \subseteq 1..MaxNotes,
         UNCHANGED <<open, selectedCategory, disk>>
  PROVE  IInv'
<1>1. /\ writes \in Seq(Seq(Note)) /\ Len(writes) \in Nat /\ added \in Nat
      /\ MaxNotes \in Nat /\ MaxWrites \in Nat
      /\ notlar' \in Seq(Note)
  BY BoundsAssumption DEF IInv, TypeOK, Grown
<1>2. Len(writes) < MaxWrites /\ cached' = notlar' /\ writes' = Append(writes, notlar')
  BY DEF SetStringList
<1>3. /\ writes' \in Seq(Seq(Note)) /\ writes' # <<>>
      /\ Len(writes') = Len(writes) + 1
      /\ \A i \in 1..Len(writes) : writes'[i] = writes[i]
      /\ writes'[Len(writes')] = notlar'
  BY <1>1, <1>2, AppendProperties
<1>4. TypeOK'
  BY <1>1, <1>2, <1>3 DEF IInv, TypeOK
<1>5. PageIsCached' /\ CatchesUp'
  BY <1>2, <1>3 DEF PageIsCached, CatchesUp
<1>6. AllGrown'
  <2>1. ASSUME NEW s, Grown(s, added)
        PROVE  Grown(s, added')
    BY <2>1, <1>1, LaterNote
  <2>2. Grown(disk, added) /\ \A i \in 1..Len(writes) : Grown(writes[i], added)
    BY DEF IInv, AllGrown
  <2>3. Grown(disk', added') /\ Grown(cached', added')
    BY <2>1, <2>2, <1>2
  <2>4. ASSUME NEW i \in 1..Len(writes')
        PROVE  Grown(writes'[i], added')
    <3>1. CASE i = Len(writes')
      BY <3>1, <1>3
    <3>2. CASE i # Len(writes')
      <4>1. i \in 1..Len(writes)
        BY <3>2, <1>1, <1>3
      <4> QED
        BY <4>1, <1>3, <2>1, <2>2
    <3> QED
      BY <3>1, <3>2
  <2> QED
    BY <2>3, <2>4 DEF AllGrown
<1> QED
  BY <1>4, <1>5, <1>6 DEF IInv

LEMMA AddNotStep ==
  ASSUME IInv, NEW category \in Categories, AddNot(category)
  PROVE  IInv' /\ ToSet(cached) \ ToSet(cached') = {} /\ pressed' = 0
<1> DEFINE note == [id |-> added + 1, category |-> category]
<1>1. /\ notlar = cached /\ added \in Nat /\ added < MaxNotes /\ MaxNotes \in Nat
      /\ Grown(cached, added)
  BY BoundsAssumption DEF AddNot, IInv, PageIsCached, AllGrown, TypeOK
<1>2. note \in Note /\ note.id = added + 1
  BY <1>1 DEF Note
<1>3. /\ notlar' = Append(notlar, note) /\ SetStringList(notlar')
      /\ added' = added + 1 /\ pressed' = 0
      /\ UNCHANGED <<open, selectedCategory, disk, gone>>
  BY DEF AddNot
<1> HIDE DEF note
<1>4. Grown(notlar', added + 1) /\ ToSet(notlar) \ ToSet(notlar') = {}
  BY <1>1, <1>2, <1>3, AppendNote
<1>5. cached' = notlar'
  BY <1>3 DEF SetStringList
<1>6. gone' \subseteq 1..MaxNotes
  BY <1>3 DEF IInv, TypeOK
<1>7. IInv'
  BY <1>1, <1>3, <1>4, <1>6, WriteStep
<1> QED
  BY <1>1, <1>3, <1>4, <1>5, <1>7

LEMMA DeleteNotStep ==
  ASSUME IInv, NEW i \in DOMAIN notlar, DeleteNot(i)
  PROVE  /\ IInv'
         /\ pressed' # 0
         /\ \E n \in ToSet(cached) : ToSet(cached) \ ToSet(cached') = {n}
<1>1. /\ notlar = cached /\ notlar \in Seq(Note) /\ added \in Nat /\ added <= MaxNotes
      /\ MaxNotes \in Nat /\ Grown(notlar, added)
  BY BoundsAssumption DEF DeleteNot, IInv, PageIsCached, AllGrown, TypeOK
<1>2. CardIndex(i) \in 1..Len(notlar)
  BY <1>1, CardIndexInRange DEF DeleteNot
<1>3. /\ notlar' = RemoveAt(notlar, CardIndex(i)) /\ SetStringList(notlar')
      /\ pressed' = notlar[i].id
      /\ gone' = gone \union {notlar[CardIndex(i)].id}
      /\ UNCHANGED <<open, selectedCategory, disk, added>>
  BY DEF DeleteNot
<1>4. /\ Grown(notlar', added)
      /\ ToSet(notlar) \ ToSet(notlar') = {notlar[CardIndex(i)]}
  BY <1>1, <1>2, <1>3, RemoveNote
<1>5. pressed' \in 1..MaxNotes
  BY <1>1, <1>3, NoteIds
<1>6. pressed' \in 0..MaxNotes /\ pressed' # 0
  BY <1>5, <1>1
<1>7. cached' = notlar'
  BY <1>3 DEF SetStringList
<1>8. notlar[CardIndex(i)] \in ToSet(notlar)
  BY <1>1, <1>2 DEF ToSet
<1>9. notlar[CardIndex(i)].id \in 1..MaxNotes
  BY <1>1, <1>2, NoteIds
<1>10. gone' \subseteq 1..MaxNotes
  BY <1>3, <1>9 DEF IInv, TypeOK
<1>11. IInv'
  BY <1>1, <1>3, <1>4, <1>6, <1>10, WriteStep
<1> QED
  BY <1>1, <1>4, <1>6, <1>7, <1>8, <1>11

\* The platform stores what was written first, the rest is still under way.
LEMMA StoreListStep ==
  ASSUME IInv, StoreList
  PROVE  IInv'
<1>1. /\ writes \in Seq(Seq(Note)) /\ writes # <<>> /\ Len(writes) \in Nat
      /\ MaxWrites \in Nat /\ MaxNotes \in Nat
      /\ disk' = Head(writes) /\ writes' = Tail(writes) /\ pressed' = 0
      /\ UNCHANGED <<open, notlar, selectedCategory, cached, added, gone>>
  BY BoundsAssumption DEF StoreList, IInv, TypeOK
<1>2. /\ disk' = writes[1] /\ 1 \in 1..Len(writes)
      /\ writes' \in Seq(Seq(Note)) /\ Len(writes') = Len(writes) - 1
      /\ \A i \in 1..Len(writes') : writes'[i] = writes[i + 1]
  BY <1>1
<1>3. disk' \in Seq(Note)
  BY <1>1, <1>2
<1>4. TypeOK'
  BY <1>1, <1>2, <1>3 DEF IInv, TypeOK
<1>5. PageIsCached'
  BY <1>1 DEF IInv, PageIsCached
<1>6. AllGrown'
  BY <1>1, <1>2 DEF IInv, AllGrown
<1>7. CatchesUp'
  <2>1. cached = writes[Len(writes)]
    BY <1>1 DEF IInv, CatchesUp
  <2>2. CASE Len(writes) = 1
    <3>1. writes' = <<>>
      BY <2>2, <1>2, EmptySeq
    <3> QED
      BY <3>1, <2>1, <2>2, <1>1, <1>2 DEF CatchesUp
  <2>3. CASE Len(writes) # 1
    <3>1. Len(writes') \in 1..Len(writes') /\ writes' # <<>>
      <4>1. Len(writes) - 1 \in Nat \ {0}
        BY <2>3, <1>1, <1>2
      <4> QED
        BY <4>1, <1>2
    <3>2. writes'[Len(writes')] = writes[Len(writes)]
      BY <3>1, <1>1, <1>2
    <3> QED
      BY <3>1, <3>2, <2>1, <1>1 DEF CatchesUp
  <2> QED
    BY <2>2, <2>3
<1> QED
  BY <1>4, <1>5, <1>6, <1>7 DEF IInv

\* Opening, closing and filtering the page, and a restart, write nothing.
LEMMA QuietStep ==
  ASSUME IInv,
         \/ OpenPage \/ ClosePage \/ Restart
         \/ \E category \in Categories \union {All} : SelectCategory(category)
  PROVE  IInv'
<1>1. MaxNotes \in Nat /\ MaxWrites \in Nat
  BY BoundsAssumption
<1>2. CASE OpenPage
  BY <1>1, <1>2 DEF OpenPage, IInv, TypeOK, PageIsCached, CatchesUp, AllGrown
<1>3. CASE ClosePage
  <2>1. ~open' /\ open' \in BOOLEAN
    BY <1>3 DEF ClosePage
  <2>2. /\ pressed' = 0
        /\ UNCHANGED <<notlar, selectedCategory, cached, writes, disk, added, gone>>
    BY <1>3 DEF ClosePage
  <2> QED
    BY <1>1, <2>1, <2>2 DEF IInv, TypeOK, PageIsCached, CatchesUp, AllGrown
<1>4. CASE Restart
  <2>1. TypeOK'
    <3>1. open' \in BOOLEAN
      BY <1>4 DEF Restart
    <3>2. /\ notlar' = <<>> /\ cached' = disk /\ writes' = <<>>
          /\ selectedCategory' = All /\ pressed' = 0 /\ UNCHANGED <<disk, added>>
      BY <1>4 DEF Restart
    <3>3. gone' \subseteq 1..MaxNotes
      <4>1. gone' = gone \union (Ids(cached) \ Ids(disk))
        BY <1>4 DEF Restart
      <4>2. Ids(cached) \subseteq 1..MaxNotes /\ gone \subseteq 1..MaxNotes
        BY IdsOfNotes DEF IInv, TypeOK
      <4> QED
        BY <4>1, <4>2
    <3> QED
      BY <1>1, <3>1, <3>2, <3>3, NoNotes DEF IInv, TypeOK
  <2>2. PageIsCached' /\ CatchesUp'
    BY <1>4 DEF Restart, PageIsCached, CatchesUp
  <2>3. AllGrown'
    BY <1>4, NoNotes DEF Restart, IInv, AllGrown
  <2> QED
    BY <2>1, <2>2, <2>3 DEF IInv
<1>5. CASE \E category \in Categories \union {All} : SelectCategory(category)
  <2>1. PICK category \in Categories \union {All} : SelectCategory(category)
    BY <1>5
  <2> QED
    BY <1>1, <2>1
       DEF SelectCategory, IInv, TypeOK, PageIsCached, CatchesUp, AllGrown
<1> QED
  BY <1>2, <1>3, <1>4, <1>5

LEMMA NextInv == IInv /\ [Next]_vars => IInv'
<1> SUFFICES ASSUME IInv, [Next]_vars
             PROVE  IInv'
  OBVIOUS
<1>1. CASE UNCHANGED vars
  BY <1>1 DEF vars, IInv, TypeOK, PageIsCached, CatchesUp, AllGrown
<1> QED
  BY <1>1, QuietStep, AddNotStep, DeleteNotStep, StoreListStep DEF Next

-----------------------------------------------------------------------------
(* Theorems *)

\* The invariant holds at every step of the notes.
THEOREM Inductive == Spec => []IInv
BY InitInv, NextInv, PTL DEF Spec

\* Every variable keeps its type.
THEOREM TypeCorrect == Spec => []TypeOK
<1>1. IInv => TypeOK
  BY DEF IInv
<1> QED
  BY <1>1, Inductive, PTL

\* NotlarimScreen shows what a restart would bring back, when no write is
\* under way.
THEOREM PageShowsStored == Spec => []ShowsStored
<1>1. IInv => ShowsStored
  BY DEF IInv, PageIsCached, CatchesUp, ShowsStored
<1> QED
  BY <1>1, Inductive, PTL

\* _deleteNot costs one note, whichever category is shown, and nothing else
\* costs any while the process runs.
THEOREM PressCostsOne == Spec => OneNotePerPress
<1> DEFINE lost == ToSet(cached) \ ToSet(cached')
           One == \/ ~open' /\ cached' = disk
                  \/ IF pressed' = 0 THEN lost = {}
                     ELSE \E n \in ToSet(cached) : lost = {n}
<1>1. IInv /\ [Next]_vars => [One]_vars
  <2> SUFFICES ASSUME IInv, Next
               PROVE  One
    OBVIOUS
  <2>1. CASE \/ OpenPage \/ ClosePage \/ StoreList
             \/ \E category \in Categories \union {All} : SelectCategory(category)
    <3>1. cached' = cached /\ pressed' = 0
      BY <2>1 DEF OpenPage, ClosePage, StoreList, SelectCategory
    <3> QED
      BY <3>1
  <2>2. CASE \E category \in Categories : AddNot(category)
    BY <2>2, AddNotStep
  <2>3. CASE \E i \in DOMAIN notlar : DeleteNot(i)
    BY <2>3, DeleteNotStep
  <2>4. CASE Restart
    BY <2>4 DEF Restart
  <2> QED
    BY <2>1, <2>2, <2>3, <2>4 DEF Next
<1>2. Spec => [][One]_vars
  BY <1>1, Inductive, PTL DEF Spec
<1> QED
  BY <1>2 DEF OneNotePerPress
=============================================================================
