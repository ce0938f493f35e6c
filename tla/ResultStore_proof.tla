------------------------- MODULE ResultStore_proof -------------------------
(***************************************************************************)
(* Proofs about ResultStore for any number of results and of preference    *)
(* writes in flight.                                                       *)
(***************************************************************************)
EXTENDS ResultStore, SequenceTheorems, TLAPS

(* Lemmas about lists of results and queues of writes *)

\* A list of results is never the missing key.
LEMMA ListIsPresent ==
  ASSUME NEW s \in Seq(Results)
  PROVE  s # Absent /\ Contents(s) = s
<1>1. s \in Seq(Nat)
  BY DEF Results
<1> QED
  BY <1>1, AbsentAssumption DEF Contents

\* What a stored value holds is a list of results.
LEMMA ContentsType ==
  ASSUME NEW v \in Stored
  PROVE  Contents(v) \in Seq(Results)
BY ListIsPresent DEF Stored, Contents

\* Appending the newest result keeps a list chronological and drops nothing.
LEMMA AppendNewest ==
  ASSUME NEW n \in Nat, NEW s \in Seq(Results), Chronological(s, n)
  PROVE  /\ Append(s, n + 1) \in Seq(Results)
         /\ Chronological(Append(s, n + 1), n + 1)
         /\ Range(s) \subseteq Range(Append(s, n + 1))
<1>1. n + 1 \in Results
  BY DEF Results
<1>2. Append(s, n + 1) \in Seq(Results)
  BY <1>1
<1>3. /\ Len(Append(s, n + 1)) = Len(s) + 1
      /\ \A i \in 1..Len(s) : Append(s, n + 1)[i] = s[i]
      /\ Append(s, n + 1)[Len(s) + 1] = n + 1
  BY <1>1
<1>4. \A i \in 1..Len(s) : s[i] \in Nat
  BY DEF Results
<1>5. Chronological(Append(s, n + 1), n + 1)
  BY <1>3, <1>4 DEF Chronological
<1>6. Range(s) \subseteq Range(Append(s, n + 1))
  BY <1>2, <1>3 DEF Range
<1> QED
  BY <1>2, <1>5, <1>6

\* A later count does not disturb a chronological list.
LEMMA LaterCount ==
  ASSUME NEW n \in Nat, NEW s \in Seq(Results), Chronological(s, n)
  PROVE  Chronological(s, n + 1)
<1>1. \A i \in 1..Len(s) : s[i] \in Nat
  BY DEF Results
<1> QED
  BY <1>1 DEF Chronological

\* Removing one position keeps a list chronological and loses that result only.
LEMMA RemoveOne ==
  ASSUME NEW n \in Nat, NEW s \in Seq(Results), Chronological(s, n),
         NEW i \in 1..Len(s)
  PROVE  /\ RemoveAt(s, i) \in Seq(Results)
         /\ Chronological(RemoveAt(s, i), n)
         /\ Range(s) \ Range(RemoveAt(s, i)) \subseteq {s[i]}
<1> DEFINE a == SubSeq(s, 1, i - 1)
           b == SubSeq(s, i + 1, Len(s))
           r == RemoveAt(s, i)
<1>1. /\ a \in Seq(Results) /\ Len(a) = i - 1
      /\ \A k \in 1..(i - 1) : a[k] = s[k]
  OBVIOUS
<1>2. /\ b \in Seq(Results) /\ Len(b) = Len(s) - i
      /\ \A k \in 1..(Len(s) - i) : b[k] = s[k + i]
  OBVIOUS
<1>3. r = a \o b
  BY DEF RemoveAt
<1> HIDE DEF a, b, r
<1>4. /\ r \in Seq(Results) /\ Len(r) = Len(s) - 1
      /\ \A k \in 1..(Len(s) - 1) :
           r[k] = IF k < i THEN s[k] ELSE s[k + 1]
  <2>1. /\ r \in Seq(Results) /\ Len(r) = Len(a) + Len(b)
        /\ \A k \in 1..(Len(a) + Len(b)) :
             r[k] = IF k <= Len(a) THEN a[k] ELSE b[k - Len(a)]
    BY <1>1, <1>2, <1>3, ConcatProperties
  <2>2. ASSUME NEW k \in 1..(Len(s) - 1)
        PROVE  r[k] = IF k < i THEN s[k] ELSE s[k + 1]
    <3>1. CASE k < i
      BY <3>1, <2>1, <1>1, <1>2
    <3>2. CASE k >= i
      <4>1. PICK m \in 1..(Len(s) - i) : m = k - (i - 1)
        BY <3>2
      <4>2. r[k] = b[m]
        <5>1. k \in 1..(Len(a) + Len(b)) /\ ~(k <= Len(a)) /\ k - Len(a) = m
          BY <4>1, <3>2, <1>1, <1>2
        <5> QED
          BY <5>1, <2>1
      <4>3. b[m] = s[m + i] /\ m + i = k + 1
        BY <4>1, <1>2
      <4> QED
        BY <4>2, <4>3, <3>2
    <3> QED
      BY <3>1, <3>2
  <2> QED
    BY <2>1, <2>2, <1>1, <1>2
<1>5. Chronological(r, n)
  <2>1. \A k \in 1..Len(s) : s[k] \in Nat
    BY DEF Results
  <2>2. \A k \in 1..Len(r) : r[k] <= n
    BY <1>4 DEF Chronological
  <2>3. ASSUME NEW j \in 1..Len(r), NEW k \in 1..Len(r), j < k
        PROVE  r[j] < r[k]
    <3>1. PICK p \in 1..Len(s) : p = (IF j < i THEN j ELSE j + 1) /\ r[j] = s[p]
      BY <1>4
    <3>2. PICK q \in 1..Len(s) : q = (IF k < i THEN k ELSE k + 1) /\ r[k] = s[q]
      BY <1>4
    <3>3. p < q
      BY <3>1, <3>2, <2>3
    <3> QED
      BY <3>1, <3>2, <3>3 DEF Chronological
  <2> QED
    BY <2>2, <2>3 DEF Chronological
<1>6. ASSUME NEW x \in Range(s), x \notin Range(r)
      PROVE  x = s[i]
  <2>1. PICK k \in 1..Len(s) : x = s[k]
    BY DEF Range
  <2>2. \A m \in 1..(Len(s) - 1) : r[m] \in Range(r)
    BY <1>4 DEF Range
  <2>3. CASE k < i
    BY <2>1, <2>2, <2>3, <1>4, <1>6
  <2>4. CASE k > i
    <3>1. k - 1 \in 1..(Len(s) - 1) /\ r[k - 1] = s[k]
      BY <2>4, <1>4
    <3> QED
      BY <3>1, <2>1, <2>2, <1>6
  <2> QED
    BY <2>1, <2>3, <2>4
<1> QED
  BY <1>4, <1>5, <1>6 DEF r

\* A queue has a removal after a value is appended iff it had one or the value
\* is one.
LEMMA RemoveAppended ==
  ASSUME NEW ws \in Seq(Stored), NEW v \in Stored
  PROVE  /\ HasRemove(Append(ws, v)) <=> HasRemove(ws) \/ v = Absent
         /\ Append(ws, v) \in Seq(Stored)
         /\ Append(ws, v) # <<>>
         /\ Append(ws, v)[Len(Append(ws, v))] = v
BY DEF HasRemove

\* The oldest write leaves the queue.
LEMMA QueueTail ==
  ASSUME NEW ws \in Seq(Stored), ws # <<>>
  PROVE  /\ Head(ws) \in Stored /\ Tail(ws) \in Seq(Stored)
         /\ Len(ws) \in Nat \ {0}
         /\ Len(Tail(ws)) = Len(ws) - 1
         /\ Head(ws) = ws[1]
         /\ \A i \in 1..Len(Tail(ws)) : Tail(ws)[i] = ws[i + 1]
         /\ Tail(ws) = <<>> => Len(ws) = 1
         /\ Len(ws) = 1 => Tail(ws) = <<>>
         /\ HasRemove(ws) <=> Head(ws) = Absent \/ HasRemove(Tail(ws))
<1>1. /\ Head(ws) \in Stored /\ Tail(ws) \in Seq(Stored)
      /\ Len(ws) \in Nat \ {0}
      /\ Len(Tail(ws)) = Len(ws) - 1
      /\ Head(ws) = ws[1]
      /\ \A i \in 1..Len(Tail(ws)) : Tail(ws)[i] = ws[i + 1]
  OBVIOUS
<1>2. (Tail(ws) = <<>> => Len(ws) = 1) /\ (Len(ws) = 1 => Tail(ws) = <<>>)
  <2>1. \A t \in Seq(Stored) : Len(t) = 0 <=> t = <<>>
    BY EmptySeq
  <2> QED
    BY <2>1, <1>1
<1>3. HasRemove(ws) => Head(ws) = Absent \/ HasRemove(Tail(ws))
  <2>1. SUFFICES ASSUME NEW i \in 1..Len(ws), ws[i] = Absent, i # 1
                 PROVE  HasRemove(Tail(ws))
    BY <1>1 DEF HasRemove
  <2>2. i - 1 \in 1..Len(Tail(ws)) /\ Tail(ws)[i - 1] = ws[i]
    BY <1>1, <2>1
  <2> QED
    BY <2>1, <2>2 DEF HasRemove
<1>4. Head(ws) = Absent \/ HasRemove(Tail(ws)) => HasRemove(ws)
  BY <1>1 DEF HasRemove
<1> QED
  BY <1>1, <1>2, <1>3, <1>4

-----------------------------------------------------------------------------
(***************************************************************************)
(* The inductive invariant: the invariants of the runs, strengthened by    *)
(* what a half done clear leaves behind.                                   *)
(***************************************************************************)

\* While a clear is half done, a process that is in sync has no stored list.
ClearedFirst == inSync /\ ClearPending => cache = Absent

\* The list of a process without a stored list is empty, or about to be.
NothingStored == cache = Absent => memory = <<>> \/ ClearPending

\* What this process reads back from the preferences is what the disk will
\* hold once the writes in flight are done.
StoreCatchesUp ==
  cache = IF writes = <<>> THEN disk ELSE writes[Len(writes)]

\* A delete dialog is open above the history page only.
DialogAbovePage == dialog # 0 => page = "shown"

StoreInv ==
  /\ StoreTypeOK
  /\ InOrder
  /\ StoreCatchesUp
  /\ Agreement
  /\ DialogTarget
  /\ ClearedFirst
  /\ NothingStored
  /\ DialogAbovePage

\* What a call of setString or remove does to the preferences.
LEMMA PreferenceStep ==
  ASSUME StoreTypeOK, NEW v \in Stored, SetPreference(v)
  PROVE  /\ cache' = v
         /\ writes' \in Seq(Stored)
         /\ ClearPending' <=> ClearPending \/ v = Absent
         /\ StoreCatchesUp'
         /\ \A i \in 1..Len(writes') :
              writes'[i] = v \/ \E j \in 1..Len(writes) : writes'[i] = writes[j]
<1>1. writes \in Seq(Stored) /\ writes' = Append(writes, v) /\ cache' = v
  BY DEF StoreTypeOK, SetPreference
<1>2. /\ HasRemove(writes') <=> HasRemove(writes) \/ v = Absent
      /\ writes' \in Seq(Stored)
      /\ writes' # <<>>
      /\ writes'[Len(writes')] = v
  BY <1>1, RemoveAppended
<1>3. StoreCatchesUp'
  BY <1>1, <1>2 DEF StoreCatchesUp
<1>4. \A i \in 1..Len(writes') :
        writes'[i] = v \/ \E j \in 1..Len(writes) : writes'[i] = writes[j]
  BY <1>1
<1> QED
  BY <1>1, <1>2, <1>3, <1>4 DEF ClearPending

\* What the completion of the oldest write does to the preferences.
LEMMA CompletionStep ==
  ASSUME StoreTypeOK, StoreCatchesUp, writes # <<>>, disk' = Head(writes),
         writes' = Tail(writes), UNCHANGED cache
  PROVE  /\ disk' \in Stored
         /\ writes' \in Seq(Stored)
         /\ ClearPending <=> Head(writes) = Absent \/ ClearPending'
         /\ StoreCatchesUp'
         /\ \E j \in 1..Len(writes) : disk' = writes[j]
         /\ \A i \in 1..Len(writes') :
              \E j \in 1..Len(writes) : writes'[i] = writes[j]
<1>1. writes \in Seq(Stored)
  BY DEF StoreTypeOK
<1>2. /\ Head(writes) \in Stored /\ Tail(writes) \in Seq(Stored)
      /\ Len(writes) \in Nat \ {0}
      /\ Len(Tail(writes)) = Len(writes) - 1
      /\ Head(writes) = writes[1]
      /\ \A i \in 1..Len(Tail(writes)) : Tail(writes)[i] = writes[i + 1]
      /\ Tail(writes) = <<>> => Len(writes) = 1
      /\ Len(writes) = 1 => Tail(writes) = <<>>
      /\ HasRemove(writes) <=> Head(writes) = Absent \/ HasRemove(Tail(writes))
  BY <1>1, QueueTail
<1>3. StoreCatchesUp'
  <2>1. CASE Tail(writes) = <<>>
    BY <2>1, <1>2 DEF StoreCatchesUp
  <2>2. CASE Tail(writes) # <<>>
    <3>1. Len(Tail(writes)) \in 1..Len(Tail(writes))
      BY <2>2, <1>2
    <3>2. Tail(writes)[Len(Tail(writes))] = writes[Len(writes)]
      BY <3>1, <1>2
    <3> QED
      BY <3>2, <2>2 DEF StoreCatchesUp
  <2> QED
    BY <2>1, <2>2
<1>4. \E j \in 1..Len(writes) : disk' = writes[j]
  BY <1>2
<1>5. \A i \in 1..Len(writes') : \E j \in 1..Len(writes) : writes'[i] = writes[j]
  <2>1. SUFFICES ASSUME NEW i \in 1..Len(Tail(writes))
                 PROVE  \E j \in 1..Len(writes) : Tail(writes)[i] = writes[j]
    OBVIOUS
  <2>2. i + 1 \in 1..Len(writes) /\ Tail(writes)[i] = writes[i + 1]
    BY <1>2
  <2> QED
    BY <2>2
<1> QED
  BY <1>2, <1>3, <1>4, <1>5 DEF ClearPending

-----------------------------------------------------------------------------
\* The initial state satisfies the inductive invariant.
LEMMA StoreInitInv == StoreInit => StoreInv
<1> SUFFICES ASSUME StoreInit PROVE StoreInv
  OBVIOUS
<1>1. memory = <<>> /\ cache = Absent /\ disk = Absent /\ writes = <<>>
  BY DEF StoreInit
<1>2. StoreTypeOK
  <2>1. <<>> \in Seq(Results) /\ <<>> \in Seq(Stored) /\ Absent \in Stored
    BY EmptySeq DEF Stored
  <2> QED
    BY <1>1, <2>1 DEF StoreInit, StoreTypeOK
<1>3. InOrder
  BY <1>1 DEF StoreInit, InOrder, Chronological, Contents
<1> QED
  BY <1>1, <1>2, <1>3 DEF StoreInit, StoreInv, StoreCatchesUp, Agreement, DialogTarget,
     ClearedFirst, NothingStored, DialogAbovePage, Contents
\* Saving a result keeps the invariant.
LEMMA SaveStep == StoreInv /\ SaveTestResult => StoreInv'
<1> SUFFICES ASSUME StoreInv, SaveTestResult PROVE StoreInv'
  OBVIOUS
<1> USE DEF StoreInv
<1>1. /\ memory' = Append(memory, saved + 1) /\ saved' = saved + 1
      /\ memory \in Seq(Results) /\ saved \in Nat
  BY DEF SaveTestResult, StoreTypeOK
<1>2. /\ memory' \in Seq(Results)
      /\ Chronological(memory', saved')
      /\ Len(memory') = Len(memory) + 1
      /\ \A i \in 1..Len(memory) : memory'[i] = memory[i]
  <2>1. saved + 1 \in Results
    BY <1>1 DEF Results
  <2> QED
    BY <1>1, <2>1, AppendNewest DEF InOrder
<1>3. memory' \in Stored /\ memory' # Absent /\ Contents(memory') = memory'
  BY <1>2, ListIsPresent DEF Stored
<1>4. /\ cache' = memory'
      /\ writes' \in Seq(Stored)
      /\ ClearPending' <=> ClearPending
      /\ StoreCatchesUp'
      /\ \A i \in 1..Len(writes') :
           \/ writes'[i] = memory'
           \/ \E j \in 1..Len(writes) : writes'[i] = writes[j]
  BY <1>3, PreferenceStep DEF SaveTestResult
<1>5. StoreTypeOK'
  BY <1>1, <1>2, <1>3, <1>4 DEF SaveTestResult, StoreTypeOK
<1>6. InOrder'
  <2>1. Chronological(Contents(disk'), saved')
    BY <1>1, ContentsType, LaterCount DEF SaveTestResult, StoreTypeOK, InOrder
  <2>2. ASSUME NEW i \in 1..Len(writes')
        PROVE  Chronological(Contents(writes'[i]), saved')
    <3>1. CASE writes'[i] = memory'
      BY <3>1, <1>2, <1>3
    <3>2. CASE \E j \in 1..Len(writes) : writes'[i] = writes[j]
      <4>1. PICK j \in 1..Len(writes) : writes'[i] = writes[j]
        BY <3>2
      <4>2. Contents(writes[j]) \in Seq(Results)
        BY ContentsType DEF StoreTypeOK
      <4> QED
        BY <4>1, <4>2, <1>1, LaterCount DEF InOrder
    <3> QED
      BY <3>1, <3>2, <1>4
  <2> QED
    BY <2>1, <2>2, <1>2, <1>3, <1>4 DEF InOrder
<1>7. DialogTarget'
  BY <1>1, <1>2 DEF SaveTestResult, DialogTarget, StoreTypeOK
<1>8. Agreement' /\ ClearedFirst' /\ NothingStored' /\ DialogAbovePage'
  BY <1>3, <1>4 DEF SaveTestResult, Agreement, ClearedFirst, NothingStored,
     DialogAbovePage
<1> QED
  BY <1>4, <1>5, <1>6, <1>7, <1>8

\* Deleting a result keeps the invariant.
LEMMA DeleteStep == StoreInv /\ DeleteTestResultAt => StoreInv'
<1> SUFFICES ASSUME StoreInv, DeleteTestResultAt PROVE StoreInv'
  OBVIOUS
<1> USE DEF StoreInv
<1>1. /\ memory' = RemoveAt(memory, dialog) /\ saved' = saved
      /\ memory \in Seq(Results) /\ saved \in Nat /\ dialog \in 1..Len(memory)
      /\ memory[dialog] \in Results
  BY DEF DeleteTestResultAt, StoreTypeOK
<1>2. memory' \in Seq(Results) /\ Chronological(memory', saved')
  BY <1>1, RemoveOne DEF InOrder
<1>3. memory' \in Stored /\ memory' # Absent /\ Contents(memory') = memory'
  BY <1>2, ListIsPresent DEF Stored
<1>4. /\ cache' = memory'
      /\ writes' \in Seq(Stored)
      /\ ClearPending' <=> ClearPending
      /\ StoreCatchesUp'
      /\ \A i \in 1..Len(writes') :
           \/ writes'[i] = memory'
           \/ \E j \in 1..Len(writes) : writes'[i] = writes[j]
  BY <1>3, PreferenceStep DEF DeleteTestResultAt
<1>5. StoreTypeOK'
  <2>1. {target} \ {0} \subseteq Results
    BY DEF StoreTypeOK, Results
  <2> QED
    BY <2>1, <1>1, <1>2, <1>3, <1>4 DEF DeleteTestResultAt, StoreTypeOK
<1>6. InOrder'
  BY <1>1, <1>2, <1>3, <1>4 DEF DeleteTestResultAt, InOrder
<1>7. /\ Agreement' /\ DialogTarget' /\ ClearedFirst' /\ NothingStored'
      /\ DialogAbovePage'
  BY <1>3, <1>4 DEF DeleteTestResultAt, Agreement, DialogTarget, ClearedFirst,
     NothingStored, DialogAbovePage
<1> QED
  BY <1>4, <1>5, <1>6, <1>7

\* The first half of a clear keeps the invariant.
LEMMA ClearStep == StoreInv /\ ClearTestResults => StoreInv'
<1> SUFFICES ASSUME StoreInv, ClearTestResults PROVE StoreInv'
  OBVIOUS
<1> USE DEF StoreInv
<1>1. Absent \in Stored /\ Contents(Absent) = <<>>
  BY DEF Stored, Contents
<1>2. /\ cache' = Absent
      /\ writes' \in Seq(Stored)
      /\ ClearPending'
      /\ StoreCatchesUp'
      /\ \A i \in 1..Len(writes') :
           \/ writes'[i] = Absent
           \/ \E j \in 1..Len(writes) : writes'[i] = writes[j]
  BY <1>1, PreferenceStep DEF ClearTestResults
<1>3. 1..saved \subseteq Results
  BY DEF StoreTypeOK, Results
<1>4. StoreTypeOK'
  BY <1>1, <1>2, <1>3 DEF ClearTestResults, StoreTypeOK
<1>5. Chronological(<<>>, saved)
  BY DEF Chronological
<1>6. InOrder'
  BY <1>1, <1>2, <1>5 DEF ClearTestResults, InOrder
<1>7. /\ Agreement' /\ DialogTarget' /\ ClearedFirst' /\ NothingStored'
      /\ DialogAbovePage'
  BY <1>2 DEF ClearTestResults, Agreement, DialogTarget, ClearedFirst,
     NothingStored, DialogAbovePage
<1> QED
  BY <1>2, <1>4, <1>6, <1>7

\* A list that reaches the disk keeps the invariant.
LEMMA StoreListStep == StoreInv /\ StoreList => StoreInv'
<1> SUFFICES ASSUME StoreInv, StoreList PROVE StoreInv'
  OBVIOUS
<1> USE DEF StoreInv
<1>1. /\ disk' \in Stored
      /\ writes' \in Seq(Stored)
      /\ ClearPending <=> ClearPending'
      /\ StoreCatchesUp'
      /\ \E j \in 1..Len(writes) : disk' = writes[j]
      /\ \A i \in 1..Len(writes') :
           \E j \in 1..Len(writes) : writes'[i] = writes[j]
  BY CompletionStep DEF StoreList
<1>2. StoreTypeOK'
  BY <1>1 DEF StoreList, StoreTypeOK
<1>3. InOrder'
  BY <1>1 DEF StoreList, InOrder
<1>4. /\ Agreement' /\ DialogTarget' /\ ClearedFirst' /\ NothingStored'
      /\ DialogAbovePage'
  BY <1>1 DEF StoreList, Agreement, DialogTarget, ClearedFirst, NothingStored,
     DialogAbovePage
<1> QED
  BY <1>1, <1>2, <1>3, <1>4

\* The second half of a clear keeps the invariant.
LEMMA RemoveStep == StoreInv /\ RemoveAndClear => StoreInv'
<1> SUFFICES ASSUME StoreInv, RemoveAndClear PROVE StoreInv'
  OBVIOUS
<1> USE DEF StoreInv
<1>1. /\ disk' \in Stored
      /\ writes' \in Seq(Stored)
      /\ ClearPending
      /\ StoreCatchesUp'
      /\ \A i \in 1..Len(writes') :
           \E j \in 1..Len(writes) : writes'[i] = writes[j]
  BY CompletionStep DEF RemoveAndClear
<1>2. memory' = <<>> /\ <<>> \in Seq(Results) /\ Contents(Absent) = <<>>
  BY EmptySeq DEF RemoveAndClear, Contents
<1>3. StoreTypeOK'
  BY <1>1, <1>2 DEF RemoveAndClear, StoreTypeOK
<1>4. Chronological(<<>>, saved)
  BY DEF Chronological
<1>5. InOrder'
  BY <1>1, <1>2, <1>4 DEF RemoveAndClear, InOrder
<1>6. Agreement'
  BY <1>1, <1>2 DEF RemoveAndClear, Agreement, ClearedFirst
<1>7. ClearedFirst'
  BY <1>1 DEF RemoveAndClear, ClearedFirst
<1>8. DialogTarget' /\ NothingStored' /\ DialogAbovePage'
  BY <1>2 DEF RemoveAndClear, DialogTarget, NothingStored, DialogAbovePage
<1> QED
  BY <1>1, <1>3, <1>5, <1>6, <1>7, <1>8

\* Opening the history page keeps the invariant.
LEMMA LoadStep == StoreInv /\ LoadTestResults => StoreInv'
<1> SUFFICES ASSUME StoreInv, LoadTestResults PROVE StoreInv'
  OBVIOUS
<1> USE DEF StoreInv
<1>1. memory' \in Seq(Results) /\ Chronological(memory', saved')
  BY ContentsType DEF LoadTestResults, StoreTypeOK, InOrder, Contents, Stored
<1>2. ClearPending' <=> ClearPending
  BY DEF LoadTestResults, ClearPending
<1>3. StoreTypeOK'
  BY <1>1 DEF LoadTestResults, StoreTypeOK
<1>4. InOrder' /\ StoreCatchesUp'
  BY <1>1 DEF LoadTestResults, InOrder, StoreCatchesUp
<1>5. Agreement'
  BY <1>2 DEF LoadTestResults, Agreement, NothingStored, Contents
<1>6. ClearedFirst' /\ NothingStored'
  BY <1>2 DEF LoadTestResults, ClearedFirst, NothingStored
<1>7. DialogTarget' /\ DialogAbovePage'
  BY DEF LoadTestResults, DialogTarget, DialogAbovePage
<1> QED
  BY <1>3, <1>4, <1>5, <1>6, <1>7

\* A restart of the process keeps the invariant.
LEMMA RestartStep == StoreInv /\ Restart => StoreInv'
<1> SUFFICES ASSUME StoreInv, Restart PROVE StoreInv'
  OBVIOUS
<1> USE DEF StoreInv
<1>1. <<>> \in Seq(Results) /\ <<>> \in Seq(Stored)
  BY EmptySeq
<1>2. StoreTypeOK'
  BY <1>1 DEF Restart, StoreTypeOK
<1>3. Chronological(<<>>, saved)
  BY DEF Chronological
<1>4. InOrder'
  BY <1>3 DEF Restart, InOrder
<1> QED
  BY <1>2, <1>4 DEF Restart, StoreCatchesUp, Agreement, DialogTarget,
     ClearedFirst, NothingStored, DialogAbovePage

\* The steps that touch neither the list nor the preferences.
LEMMA DialogStep ==
  ASSUME StoreInv,
         \/ CloseHistory
         \/ \E i \in 1..Len(memory) : AskDelete(i)
         \/ CancelDelete
         \/ DeleteOutOfRange
         \/ UNCHANGED storeVars
  PROVE  StoreInv'
<1> USE DEF StoreInv
<1>1. UNCHANGED <<memory, cache, disk, writes, saved, removed, inSync>>
  BY DEF CloseHistory, AskDelete, CancelDelete, DeleteOutOfRange, storeVars
<1>2. StoreTypeOK'
  BY <1>1 DEF CloseHistory, AskDelete, CancelDelete, DeleteOutOfRange, storeVars,
     StoreTypeOK, Results
<1>3. DialogTarget' /\ DialogAbovePage'
  BY <1>1 DEF CloseHistory, AskDelete, CancelDelete, DeleteOutOfRange, storeVars,
     DialogTarget, DialogAbovePage
<1> QED
  BY <1>1, <1>2, <1>3 DEF InOrder, StoreCatchesUp, Agreement, ClearedFirst,
     NothingStored, ClearPending

\* Every step keeps the invariant.
LEMMA StoreNextInv == StoreInv /\ [StoreNext]_storeVars => StoreInv'
BY SaveStep, LoadStep, DeleteStep, ClearStep, StoreListStep, RemoveStep,
   RestartStep, DialogStep DEF StoreNext

\* The inductive invariant holds in every reachable state.
THEOREM StoreInductive == StoreSpec => []StoreInv
<1> QED
  BY StoreInitInv, StoreNextInv, PTL DEF StoreSpec

-----------------------------------------------------------------------------
(***************************************************************************)
(* The results                                                             *)
(***************************************************************************)

\* Every variable keeps its type.
THEOREM StoreTypeCorrect == StoreSpec => []StoreTypeOK
<1>1. StoreInv => StoreTypeOK
  BY DEF StoreInv
<1> QED
  BY <1>1, StoreInductive, PTL

\* Every copy of the history lists each solved test once, oldest first
\* (saveTestResult, loadTestResults, deleteTestResultAt).
THEOREM HistoryInOrder == StoreSpec => []InOrder
<1>1. StoreInv => InOrder
  BY DEF StoreInv
<1> QED
  BY <1>1, StoreInductive, PTL

\* The list of the history page and the stored list agree, outside a clear.
THEOREM ListsAgree == StoreSpec => []Agreement
<1>1. StoreInv => Agreement
  BY DEF StoreInv
<1> QED
  BY <1>1, StoreInductive, PTL

\* The captured index of the delete dialog still names the pressed card.
THEOREM DialogNamesTarget == StoreSpec => []DialogTarget
<1>1. StoreInv => DialogTarget
  BY DEF StoreInv
<1> QED
  BY <1>1, StoreInductive, PTL

\* One step of a process that knows the stored list drops only results the
\* user asked to delete, or the one a dialog names by accident after a clear.
LEMMA LossStep ==
  ASSUME StoreInv, [StoreNext]_storeVars, inSync, inSync'
  PROVE  Range(Contents(cache)) \ Range(Contents(cache'))
           \subseteq removed' \union Mishit
<1> USE DEF StoreInv
<1>1. /\ memory \in Seq(Results) /\ saved \in Nat
      /\ Chronological(memory, saved)
      /\ Contents(cache) \in Seq(Results)
      /\ Chronological(Contents(cache), saved)
  BY ContentsType DEF StoreTypeOK, InOrder
<1>2. CASE SaveTestResult
  <2>1. memory = Contents(cache)
    BY <1>2 DEF SaveTestResult, Agreement
  <2>2. cache' = Append(memory, saved + 1)
    BY <1>2 DEF SaveTestResult, SetPreference
  <2>3. /\ cache' \in Seq(Results)
        /\ Range(memory) \subseteq Range(cache')
    <3>1. saved + 1 \in Results
      BY <1>1 DEF Results
    <3> QED
      BY <3>1, <2>2, <1>1, AppendNewest
  <2>4. Contents(cache') = cache'
    BY <2>3, ListIsPresent
  <2> QED
    BY <2>1, <2>3, <2>4
<1>3. CASE DeleteTestResultAt
  <2>1. memory = Contents(cache)
    BY <1>3 DEF DeleteTestResultAt, Agreement
  <2>2. /\ cache' = RemoveAt(memory, dialog)
        /\ dialog \in 1..Len(memory)
        /\ removed' = removed \union ({target} \ {0})
        /\ memory[dialog] \in Results
        /\ dialog' = 0
    BY <1>3 DEF DeleteTestResultAt, SetPreference, StoreTypeOK
  <2>3. /\ cache' \in Seq(Results)
        /\ Range(memory) \ Range(cache') \subseteq {memory[dialog]}
    BY <2>2, <1>1, RemoveOne
  <2>4. Contents(cache') = cache'
    BY <2>3, ListIsPresent
  <2>5. memory[dialog] \in removed' \union Mishit
    <3>1. CASE target # 0
      BY <3>1, <2>2 DEF DialogTarget
    <3>2. CASE target = 0
      BY <3>2, <2>2 DEF Mishit
    <3> QED
      BY <3>1, <3>2
  <2> QED
    BY <2>1, <2>3, <2>4, <2>5
<1>4. CASE ClearTestResults
  <2>1. removed' = 1..saved
    BY <1>4 DEF ClearTestResults
  <2>2. \A i \in 1..Len(Contents(cache)) : Contents(cache)[i] \in 1..saved
    BY <1>1 DEF Chronological, Results
  <2> QED
    BY <2>1, <2>2, <1>1 DEF Range
<1>5. CASE Restart
  BY <1>5 DEF Restart
<1>6. CASE \/ LoadTestResults \/ CloseHistory
           \/ \E i \in 1..Len(memory) : AskDelete(i)
           \/ CancelDelete \/ DeleteOutOfRange \/ StoreList \/ RemoveAndClear
           \/ UNCHANGED storeVars
  <2>1. cache' = cache
    BY <1>6 DEF LoadTestResults, CloseHistory, AskDelete, CancelDelete,
       DeleteOutOfRange, StoreList, RemoveAndClear, storeVars
  <2> QED
    BY <2>1
<1> QED
  BY <1>2, <1>3, <1>4, <1>5, <1>6 DEF StoreNext

\* A process that knows the stored list never drops a result the user did not
\* ask to delete (saveTestResult and deleteTestResultAt write the whole list),
\* but for the one a dialog takes when the list was cleared under it.
THEOREM NothingLostSilently == StoreSpec => NoSilentLoss
<1>1. StoreInv /\ [StoreNext]_storeVars =>
        [inSync /\ inSync' =>
           Range(Contents(cache)) \ Range(Contents(cache'))
             \subseteq removed' \union Mishit]_storeVars
  BY LossStep
<1> QED
  BY <1>1, StoreInductive, PTL DEF StoreSpec, NoSilentLoss
=============================================================================
