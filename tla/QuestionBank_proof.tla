------------------------- MODULE QuestionBank_proof ------------------------
(***************************************************************************)
(* Proofs about QuestionBank for any number of administrators, handlers,   *)
(* topics, options and questions: the run has one administrator only.      *)
(***************************************************************************)
EXTENDS QuestionBank, SequenceTheorems, FiniteSetTheorems, TLAPS

Adding(call)   == call.op \in {"get", "set", "add"}
Deleting(call) == call.op \in {"count", "confirm", "delete"}

AddCalls    == [op : {"get", "set", "add"}, id : Ids, question : Questions]
DeleteCalls == [op : {"count", "confirm", "delete"}, id : Ids, topic : Topics,
                stale : BOOLEAN]
DropCalls   == [op : {"drop"}, topic : Topics \union {None}]
UpdateCalls == [op : {"update"}, id : Ids, question : Questions, open : BOOLEAN]

-----------------------------------------------------------------------------
(***************************************************************************)
(* The inductive invariant                                                 *)
(***************************************************************************)

\* The question id exists or existed, and has topic t as long as it is stored.
Knows(id, t) == bank[id] # Unborn /\ (Stored(id) => bank[id].topic = t)

\* What a handler took along is still true: its question is not stored yet and
\* is the one that was asked for; its topic exists once it is to be stored; the
\* question it deletes or edits is of the topic it was found in.
CallKnows(call) ==
  /\ Adding(call) =>
       /\ call.id \in 1..Len(asked) /\ bank[call.id] = Unborn
       /\ call.question = asked[call.id].question
  /\ call.op = "add" => call.question.topic \in topics \union dropped
  /\ Deleting(call) => Knows(call.id, call.topic)
  /\ call.op = "update" => Knows(call.id, call.question.topic)

CallsKnow ==
  \A a \in Admins, c \in Calls, x \in CallSet : calls[a][c] = x => CallKnows(x)

\* No question is added by two handlers.
AddsDiffer ==
  \A a, b \in Admins, c, d \in Calls :
    /\ Adding(calls[a][c]) /\ Adding(calls[b][d])
    /\ calls[a][c].id = calls[b][d].id
    => a = b /\ c = d

\* What was not asked for is not stored.
NotAskedYet ==
  /\ Len(asked) <= MaxAdded
  /\ \A id \in Ids : id > Len(asked) => bank[id] = Unborn

\* An answer that was picked last is among the options, on the form and in what
\* was asked for.
PickedLast ==
  /\ \A a \in Admins : form[a].kept => form[a].answer \in Selectable(form[a].options)
  /\ \A i \in 1..Len(asked) : asked[i].kept =>
       asked[i].question.answer \in Selectable(asked[i].question.options)

\* A handler that was asked to confirm waits for a delete dialog; an edit dialog
\* has a question and its topic.
DialogKnows(a, x) ==
  /\ x.kind = "delete" => calls[a][x.call].op = "confirm"
  /\ x.kind = "edit" => Knows(x.id, x.question.topic)

DialogsKnow ==
  \A a \in Admins, x \in DialogSet : \A i \in 1..Len(dialogs[a]) :
    dialogs[a][i] = x => DialogKnows(a, x)

\* No handler waits for two dialogs.
DialogsDiffer ==
  \A a \in Admins : \A i, k \in 1..Len(dialogs[a]) :
    /\ dialogs[a][i].kind = "delete" /\ dialogs[a][k].kind = "delete"
    /\ dialogs[a][i].call = dialogs[a][k].call
    => i = k

\* Who left has no dialogs.
LeaversDone == \A a \in left : dialogs[a] = <<>>

\* An edit whose dialog was not closed has a dialog.
Behind(call) == call.op = "update" /\ call.open

OpenEdits ==
  \A a \in Admins, c \in Calls : Behind(calls[a][c]) =>
    \E i \in 1..Len(dialogs[a]) : dialogs[a][i].kind = "edit"

IInv ==
  /\ TypeOK
  /\ QuestionsHaveTopic
  /\ LastOneNeedsStaleCount
  /\ StoredAsAsked
  /\ CallsKnow
  /\ AddsDiffer
  /\ NotAskedYet
  /\ PickedLast
  /\ DialogsKnow
  /\ DialogsDiffer
  /\ LeaversDone
  /\ OpenEdits

-----------------------------------------------------------------------------
(* Lemmas about types *)

\* A handler is of one of five kinds.
LEMMA CallKinds ==
  ASSUME NEW x \in CallSet
  PROVE  /\ Adding(x) => x \in AddCalls
         /\ Deleting(x) => x \in DeleteCalls
         /\ x.op = "drop" => x \in DropCalls
         /\ x.op = "update" => x \in UpdateCalls
         /\ x \in AddCalls \union DeleteCalls \union DropCalls \union UpdateCalls
              \union {NoCall}
BY DEF CallSet, AddCalls, DeleteCalls, DropCalls, UpdateCalls, NoCall, Adding,
   Deleting

LEMMA KindsAreCalls ==
  /\ AddCalls \subseteq CallSet /\ DeleteCalls \subseteq CallSet
  /\ DropCalls \subseteq CallSet /\ UpdateCalls \subseteq CallSet
  /\ NoCall \in CallSet /\ NoCall.op = "none"
BY DEF CallSet, AddCalls, DeleteCalls, DropCalls, UpdateCalls, NoCall

\* No handler knows nothing, and one that drops a topic.
LEMMA OthersKnow ==
  ASSUME NEW x, x.op \in {"none", "drop"}
  PROVE  CallKnows(x) /\ ~Adding(x) /\ ~Deleting(x)
BY DEF CallKnows, Adding, Deleting

LEMMA CallType ==
  ASSUME TypeOK, NEW a \in Admins, NEW c \in Calls
  PROVE  calls[a][c] \in CallSet
BY DEF TypeOK

\* Replacing one handler replaces that one only.
LEMMA OneCall ==
  ASSUME TypeOK, NEW a \in Admins, NEW c \in Calls, NEW x \in CallSet,
         calls' = [calls EXCEPT ![a][c] = x]
  PROVE  /\ calls' \in [Admins -> [Calls -> CallSet]]
         /\ calls'[a][c] = x
         /\ \A b \in Admins, d \in Calls : b # a \/ d # c => calls'[b][d] = calls[b][d]
BY DEF TypeOK

\* What is stored is a question.
LEMMA StoredType ==
  ASSUME TypeOK, NEW id \in Ids
  PROVE  /\ Stored(id) <=> bank[id] \in Questions
         /\ bank[id] \in Questions \union {Unborn, Gone}
BY MarkersAssumption DEF TypeOK, Stored

LEMMA DialogKinds ==
  ASSUME NEW x \in DialogSet
  PROVE  /\ x.kind = "delete" => x \in [kind : {"delete"}, call : Calls]
         /\ x.kind = "edit" =>
              x \in [kind : {"edit"}, id : Ids, question : Questions]
BY DEF DialogSet

\* The top dialog, and what is below it.
LEMMA PopDialog ==
  ASSUME NEW s \in Seq(DialogSet), s # <<>>
  PROVE  /\ Len(s) \in 1..Len(s)
         /\ Last(s) = s[Len(s)] /\ Last(s) \in DialogSet
         /\ Front(s) \in Seq(DialogSet) /\ Len(Front(s)) = Len(s) - 1
         /\ \A i \in 1..Len(Front(s)) : i \in 1..Len(s) /\ Front(s)[i] = s[i]
<1>1. Len(s) \in Nat /\ Len(s) >= 1
  BY EmptySeq
<1>2. \A i \in 1..Len(s) : s[i] \in DialogSet
  OBVIOUS
<1>3. Last(s) = s[Len(s)] /\ Last(s) \in DialogSet
  BY <1>1, <1>2 DEF Last
<1> DEFINE n == Len(s) - 1
           r == SubSeq(s, 1, n)
<1>4. Front(s) = r
  BY DEF Front
<1>5. n \in Int /\ n >= 0 /\ 1 \in Int /\ n - 1 + 1 = n
  BY <1>1
<1>6. \A i \in 1..n : s[i] \in DialogSet
  BY <1>1, <1>2
<1> HIDE DEF n
<1>7. /\ r \in Seq(DialogSet)
      /\ Len(r) = IF 1 <= n THEN n - 1 + 1 ELSE 0
      /\ \A i \in 1 .. n - 1 + 1 : r[i] = s[1 + i - 1]
  BY <1>5, <1>6, SubSeqProperties
<1> HIDE DEF r
<1>8. Len(r) = n /\ \A i \in 1..n : r[i] = s[i]
  BY <1>5, <1>7
<1>9. Len(s) \in 1..Len(s) /\ 1..(Len(s) - 1) \subseteq 1..Len(s)
  BY <1>1
<1> QED
  BY <1>3, <1>4, <1>7, <1>8, <1>9 DEF n

LEMMA PushDialog ==
  ASSUME NEW s \in Seq(DialogSet), NEW x \in DialogSet
  PROVE  /\ Append(s, x) \in Seq(DialogSet) /\ Append(s, x) # <<>>
         /\ Len(Append(s, x)) = Len(s) + 1 /\ Len(s) \in Nat
         /\ \A i \in 1..Len(s) : Append(s, x)[i] = s[i]
         /\ Append(s, x)[Len(s) + 1] = x
BY AppendProperties

-----------------------------------------------------------------------------
(* What every step of the world leaves true *)

\* Questions are only added, changed within their topic, and deleted.
BankGoesOn ==
  \A id \in Ids : bank[id] # Unborn =>
    /\ bank'[id] # Unborn
    /\ Stored(id)' => Stored(id) /\ bank'[id].topic = bank[id].topic

\* Requests are only added, and topics go only to the deleted ones.
RequestsGoOn ==
  /\ Len(asked) <= Len(asked')
  /\ \A i \in 1..Len(asked) : asked'[i] = asked[i]
  /\ topics \union dropped \subseteq topics' \union dropped'

LEMMA KnowsStays ==
  ASSUME BankGoesOn, NEW id \in Ids, NEW t, Knows(id, t)
  PROVE  Knows(id, t)'
BY DEF BankGoesOn, Knows

LEMMA BankSame ==
  ASSUME UNCHANGED bank
  PROVE  BankGoesOn
BY DEF BankGoesOn, Stored

LEMMA RequestsSame ==
  ASSUME TypeOK, UNCHANGED asked, topics \union dropped \subseteq topics' \union dropped'
  PROVE  RequestsGoOn
BY DEF RequestsGoOn, TypeOK

\* A handler keeps what it knows, as long as nobody adds its question.
LEMMA CallKnowsStays ==
  ASSUME TypeOK, BankGoesOn, RequestsGoOn, NEW x \in CallSet, CallKnows(x),
         Adding(x) => bank'[x.id] = bank[x.id], Len(asked') \in Nat
  PROVE  CallKnows(x)'
<1>1. Adding(x) => /\ x.id \in 1..Len(asked') /\ bank'[x.id] = Unborn
                   /\ x.question = asked'[x.id].question
  <2>1. Len(asked) \in Nat
    BY DEF TypeOK
  <2> QED
    BY <2>1 DEF CallKnows, RequestsGoOn
<1>2. x.op = "add" => x.question.topic \in topics' \union dropped'
  BY DEF CallKnows, RequestsGoOn
<1>3. Deleting(x) => Knows(x.id, x.topic)'
  BY CallKinds, KnowsStays DEF CallKnows, DeleteCalls
<1>4. x.op = "update" => Knows(x.id, x.question.topic)'
  BY CallKinds, KnowsStays DEF CallKnows, UpdateCalls
<1> QED
  BY <1>1, <1>2, <1>3, <1>4 DEF CallKnows, Adding, Deleting

\* The stored questions keep what is promised of them while the bank rests.
LEMMA BankRests ==
  ASSUME IInv, UNCHANGED <<bank, edited>>, RequestsGoOn, Len(asked') \in Nat,
         Len(asked') <= MaxAdded
  PROVE  QuestionsHaveTopic' /\ StoredAsAsked' /\ NotAskedYet'
<1>1. \A id \in Ids : Stored(id)' <=> Stored(id)
  BY DEF Stored
<1>2. Len(asked) \in Nat /\ \A id \in Ids : id \in Nat /\ id >= 1
  BY AddedAssumption DEF IInv, TypeOK, Ids
<1>3. ASSUME NEW id \in Ids, Stored(id)
      PROVE  id \in 1..Len(asked)
  BY <1>2, <1>3 DEF IInv, NotAskedYet, Stored
<1>4. QuestionsHaveTopic'
  BY <1>1 DEF IInv, QuestionsHaveTopic, RequestsGoOn
<1>5. StoredAsAsked'
  BY <1>1, <1>3 DEF IInv, StoredAsAsked, RequestsGoOn
<1>6. NotAskedYet'
  BY <1>2 DEF IInv, NotAskedYet, RequestsGoOn
<1> QED
  BY <1>4, <1>5, <1>6

-----------------------------------------------------------------------------
(* What the handlers and dialogs keep, whatever the step *)

-----------------------------------------------------------------------------
(* What the handlers and dialogs keep, whatever the step *)

LEMMA CallsGoOn ==
  ASSUME IInv, BankGoesOn, RequestsGoOn, Len(asked') \in Nat,
         \A a \in Admins, c \in Calls, x \in CallSet : calls'[a][c] = x =>
           \/ CallKnows(x)'
           \/ calls[a][c] = x /\ (Adding(x) => bank'[x.id] = bank[x.id])
  PROVE  CallsKnow'
<1> SUFFICES ASSUME NEW a \in Admins, NEW c \in Calls, NEW x \in CallSet,
                    calls'[a][c] = x
             PROVE  CallKnows(x)'
  BY DEF CallsKnow
<1>1. CASE calls[a][c] = x /\ (Adding(x) => bank'[x.id] = bank[x.id])
  <2>1. TypeOK /\ CallKnows(x)
    BY <1>1 DEF IInv, CallsKnow
  <2> QED
    BY <1>1, <2>1, CallKnowsStays
<1> QED
  BY <1>1

LEMMA AddsGoOn ==
  ASSUME IInv,
         \A a \in Admins, c \in Calls : Adding(calls'[a][c]) =>
           Adding(calls[a][c]) /\ calls'[a][c].id = calls[a][c].id
  PROVE  AddsDiffer'
BY DEF IInv, AddsDiffer, Adding

LEMMA CountsGoOn ==
  ASSUME IInv, UNCHANGED bank,
         \A a \in Admins, c \in Calls :
           LET x == calls[a][c]
               y == calls'[a][c]
           IN y.op \in {"confirm", "delete"} /\ Stored(y.id) =>
                \/ /\ x.op \in {"confirm", "delete"}
                   /\ y.id = x.id /\ y.stale = x.stale
                \/ QuestionsOf(bank[y.id].topic) # {y.id}
  PROVE  LastOneNeedsStaleCount'
BY DEF IInv, LastOneNeedsStaleCount, Stored, QuestionsOf

\* The waiting handler is asked on, and the bank goes on.
LEMMA DialogKnowsStays ==
  ASSUME BankGoesOn, NEW a \in Admins, NEW x \in DialogSet, DialogKnows(a, x),
         x.kind = "delete" /\ calls[a][x.call].op = "confirm" =>
           calls'[a][x.call].op = "confirm"
  PROVE  DialogKnows(a, x)'
<1>1. x.kind = "edit" => Knows(x.id, x.question.topic)'
  BY DialogKinds, KnowsStays DEF DialogKnows
<1> QED
  BY <1>1 DEF DialogKnows

\* The dialogs rest.
LEMMA DialogsRest ==
  ASSUME IInv, BankGoesOn, UNCHANGED dialogs,
         \A a \in left' : a \in left \/ dialogs[a] = <<>>,
         \A a \in Admins, c \in Calls :
           /\ calls[a][c].op = "confirm" => calls'[a][c].op = "confirm"
           /\ Behind(calls'[a][c]) => Behind(calls[a][c]) \/ OnTop(a, "edit")
  PROVE  DialogsKnow' /\ DialogsDiffer' /\ LeaversDone' /\ OpenEdits'
<1>1. \A a \in Admins : dialogs[a] \in Seq(DialogSet)
  BY DEF IInv, TypeOK
<1>2. DialogsKnow'
  <2> SUFFICES ASSUME NEW a \in Admins, NEW x \in DialogSet,
                      NEW i \in 1..Len(dialogs[a]), dialogs[a][i] = x
               PROVE  DialogKnows(a, x)'
    BY DEF DialogsKnow
  <2>1. DialogKnows(a, x)
    BY DEF IInv, DialogsKnow
  <2>2. x.kind = "delete" => x.call \in Calls
    BY DialogKinds
  <2> QED
    BY <2>1, <2>2, DialogKnowsStays
<1>3. DialogsDiffer' /\ LeaversDone'
  BY DEF IInv, DialogsDiffer, LeaversDone
<1>4. OpenEdits'
  <2> SUFFICES ASSUME NEW a \in Admins, NEW c \in Calls, Behind(calls'[a][c])
               PROVE  \E i \in 1..Len(dialogs[a]) : dialogs[a][i].kind = "edit"
    BY DEF OpenEdits, Behind
  <2>1. CASE Behind(calls[a][c])
    BY <2>1 DEF IInv, OpenEdits
  <2>2. CASE OnTop(a, "edit")
    BY <2>2, <1>1, PopDialog DEF OnTop
  <2> QED
    BY <2>1, <2>2
<1> QED
  BY <1>2, <1>3, <1>4

\* A dialog is put on top.
LEMMA DialogPushed ==
  ASSUME IInv, BankGoesOn, NEW a \in Admins, NEW x \in DialogSet, a \notin left,
         dialogs' = [dialogs EXCEPT ![a] = Append(@, x)], UNCHANGED left,
         x.kind = "delete" =>
           calls[a][x.call].op # "confirm" /\ calls'[a][x.call].op = "confirm",
         x.kind = "edit" => Knows(x.id, x.question.topic),
         \A b \in Admins, c \in Calls :
           /\ calls[b][c].op = "confirm" => calls'[b][c].op = "confirm"
           /\ Behind(calls'[b][c]) => Behind(calls[b][c])
  PROVE  /\ dialogs' \in [Admins -> Seq(DialogSet)]
         /\ DialogsKnow' /\ DialogsDiffer' /\ LeaversDone' /\ OpenEdits'
<1>1. \A b \in Admins : dialogs[b] \in Seq(DialogSet) /\ Len(dialogs[b]) \in Nat
  BY DEF IInv, TypeOK
<1>2. /\ dialogs'[a] = Append(dialogs[a], x)
      /\ \A b \in Admins : b # a => dialogs'[b] = dialogs[b]
  BY DEF IInv, TypeOK
<1>3. /\ Len(dialogs'[a]) = Len(dialogs[a]) + 1 /\ Len(dialogs'[a]) \in Nat
      /\ \A i \in 1..Len(dialogs[a]) : dialogs'[a][i] = dialogs[a][i]
      /\ dialogs'[a][Len(dialogs[a]) + 1] = x
  BY <1>1, <1>2, PushDialog
<1>4. \A i \in 1..Len(dialogs'[a]) :
        i \in 1..Len(dialogs[a]) \/ i = Len(dialogs[a]) + 1
  BY <1>1, <1>3
<1>5. ASSUME NEW b \in Admins, NEW y \in DialogSet, NEW i \in 1..Len(dialogs[b]),
             dialogs[b][i] = y
      PROVE  DialogKnows(b, y) /\ DialogKnows(b, y)'
  <2>1. DialogKnows(b, y)
    BY <1>5 DEF IInv, DialogsKnow
  <2>2. y.kind = "delete" => y.call \in Calls
    BY DialogKinds
  <2> QED
    BY <2>1, <2>2, DialogKnowsStays
<1>6. DialogKnows(a, x)'
  <2>1. x.kind = "edit" => Knows(x.id, x.question.topic)'
    BY DialogKinds, KnowsStays
  <2> QED
    BY <2>1 DEF DialogKnows
<1>7. DialogsKnow'
  <2> SUFFICES ASSUME NEW b \in Admins, NEW y \in DialogSet,
                      NEW i \in 1..Len(dialogs'[b]), dialogs'[b][i] = y
               PROVE  DialogKnows(b, y)'
    BY DEF DialogsKnow
  <2>1. CASE b # a
    BY <2>1, <1>2, <1>5
  <2>2. CASE b = a /\ i \in 1..Len(dialogs[a])
    BY <2>2, <1>3, <1>5
  <2>3. CASE b = a /\ i = Len(dialogs[a]) + 1
    BY <2>3, <1>3, <1>6
  <2> QED
    BY <2>1, <2>2, <2>3, <1>4
<1>8. DialogsDiffer'
  <2> SUFFICES ASSUME NEW b \in Admins, NEW i \in 1..Len(dialogs'[b]),
                      NEW k \in 1..Len(dialogs'[b]),
                      dialogs'[b][i].kind = "delete", dialogs'[b][k].kind = "delete",
                      dialogs'[b][i].call = dialogs'[b][k].call
               PROVE  i = k
    BY DEF DialogsDiffer
  <2>1. CASE b # a
    BY <2>1, <1>2 DEF IInv, DialogsDiffer
  <2>2. \A j \in 1..Len(dialogs[a]) :
          x.kind = "delete" /\ dialogs[a][j].kind = "delete" =>
            dialogs[a][j].call # x.call
    BY <1>1, <1>5 DEF DialogKnows
  <2>3. CASE b = a
    BY <2>2, <2>3, <1>3, <1>4 DEF IInv, DialogsDiffer
  <2> QED
    BY <2>1, <2>3
<1>9. OpenEdits'
  <2> SUFFICES ASSUME NEW b \in Admins, NEW c \in Calls, Behind(calls'[b][c])
               PROVE  \E i \in 1..Len(dialogs'[b]) : dialogs'[b][i].kind = "edit"
    BY DEF OpenEdits, Behind
  <2>1. PICK i \in 1..Len(dialogs[b]) : dialogs[b][i].kind = "edit"
    BY DEF IInv, OpenEdits
  <2>2. i \in 1..Len(dialogs'[b]) /\ dialogs'[b][i] = dialogs[b][i]
    BY <1>1, <1>2, <1>3
  <2> QED
    BY <2>1, <2>2
<1>10. LeaversDone'
  BY <1>2 DEF IInv, LeaversDone, TypeOK
<1>11. dialogs' \in [Admins -> Seq(DialogSet)]
  BY <1>1, PushDialog DEF IInv, TypeOK
<1> QED
  BY <1>7, <1>8, <1>9, <1>10, <1>11

\* The dialog on top is closed: its handler, and the edits that wait behind it,
\* hear of it.
LEMMA DialogPopped ==
  ASSUME IInv, BankGoesOn, NEW a \in Admins, dialogs[a] # <<>>, a \notin left,
         dialogs' = [dialogs EXCEPT ![a] = Front(@)], UNCHANGED left,
         \A b \in Admins, c \in Calls :
           /\ calls[b][c].op = "confirm" =>
                \/ calls'[b][c].op = "confirm"
                \/ b = a /\ OnTop(a, "delete") /\ Last(dialogs[a]).call = c
           /\ Behind(calls'[b][c]) =>
                Behind(calls[b][c]) /\ ~(b = a /\ OnTop(a, "edit"))
  PROVE  /\ dialogs' \in [Admins -> Seq(DialogSet)]
         /\ DialogsKnow' /\ DialogsDiffer' /\ LeaversDone' /\ OpenEdits'
<1>1. \A b \in Admins : dialogs[b] \in Seq(DialogSet) /\ Len(dialogs[b]) \in Nat
  BY DEF IInv, TypeOK
<1>2. /\ dialogs'[a] = Front(dialogs[a])
      /\ \A b \in Admins : b # a => dialogs'[b] = dialogs[b]
  BY DEF IInv, TypeOK
<1>3. /\ Len(dialogs[a]) \in 1..Len(dialogs[a])
      /\ Last(dialogs[a]) = dialogs[a][Len(dialogs[a])]
      /\ Len(dialogs'[a]) = Len(dialogs[a]) - 1
      /\ \A i \in 1..Len(dialogs'[a]) :
           i \in 1..Len(dialogs[a]) /\ dialogs'[a][i] = dialogs[a][i]
  BY <1>1, <1>2, PopDialog
<1>4. ASSUME NEW b \in Admins, NEW i \in 1..Len(dialogs'[b])
      PROVE  /\ i \in 1..Len(dialogs[b]) /\ dialogs'[b][i] = dialogs[b][i]
             /\ b = a => i # Len(dialogs[a])
  BY <1>1, <1>2, <1>3
<1>5. DialogsKnow'
  <2> SUFFICES ASSUME NEW b \in Admins, NEW x \in DialogSet,
                      NEW i \in 1..Len(dialogs'[b]), dialogs'[b][i] = x
               PROVE  DialogKnows(b, x)'
    BY DEF DialogsKnow
  <2>1. i \in 1..Len(dialogs[b]) /\ dialogs[b][i] = x
    BY <1>4
  <2>2. DialogKnows(b, x) /\ (x.kind = "delete" => x.call \in Calls)
    BY <2>1, DialogKinds DEF IInv, DialogsKnow
  <2>3. ~(x.kind = "delete" /\ b = a /\ OnTop(a, "delete") /\ Last(dialogs[a]).call = x.call)
    BY <2>1, <1>3, <1>4 DEF IInv, DialogsDiffer, OnTop
  <2> QED
    BY <2>2, <2>3, DialogKnowsStays
<1>6. DialogsDiffer'
  <2> SUFFICES ASSUME NEW b \in Admins, NEW i \in 1..Len(dialogs'[b]),
                      NEW k \in 1..Len(dialogs'[b]),
                      dialogs'[b][i].kind = "delete", dialogs'[b][k].kind = "delete",
                      dialogs'[b][i].call = dialogs'[b][k].call
               PROVE  i = k
    BY DEF DialogsDiffer
  <2> QED
    BY <1>4 DEF IInv, DialogsDiffer
<1>7. LeaversDone'
  BY <1>2 DEF IInv, LeaversDone, TypeOK
<1>8. OpenEdits'
  <2> SUFFICES ASSUME NEW b \in Admins, NEW c \in Calls, Behind(calls'[b][c])
               PROVE  \E i \in 1..Len(dialogs'[b]) : dialogs'[b][i].kind = "edit"
    BY DEF OpenEdits, Behind
  <2>1. PICK i \in 1..Len(dialogs[b]) : dialogs[b][i].kind = "edit"
    BY DEF IInv, OpenEdits
  <2>2. CASE b # a
    BY <2>1, <2>2, <1>2
  <2>3. CASE b = a
    <3>1. i # Len(dialogs[a])
      BY <2>1, <2>3, <1>3 DEF OnTop
    <3>2. i \in 1..Len(dialogs'[a])
      BY <2>3, <3>1, <1>1, <1>3
    <3> QED
      BY <2>1, <2>3, <3>2, <1>3
  <2> QED
    BY <2>2, <2>3
<1>9. dialogs' \in [Admins -> Seq(DialogSet)]
  BY <1>1, PopDialog DEF IInv, TypeOK
<1> QED
  BY <1>5, <1>6, <1>7, <1>8, <1>9

\* The edit dialog on top is filled in.
LEMMA DialogReplaced ==
  ASSUME IInv, UNCHANGED <<bank, calls, left>>, NEW a \in Admins, OnTop(a, "edit"),
         NEW x \in DialogSet, x.kind = "edit", Knows(x.id, x.question.topic),
         dialogs' = [dialogs EXCEPT ![a] = Append(Front(@), x)]
  PROVE  /\ dialogs' \in [Admins -> Seq(DialogSet)]
         /\ DialogsKnow' /\ DialogsDiffer' /\ LeaversDone' /\ OpenEdits'
<1>1. \A b \in Admins : dialogs[b] \in Seq(DialogSet) /\ Len(dialogs[b]) \in Nat
  BY DEF IInv, TypeOK
<1>2. /\ dialogs'[a] = Append(Front(dialogs[a]), x)
      /\ \A b \in Admins : b # a => dialogs'[b] = dialogs[b]
  BY DEF IInv, TypeOK
<1> DEFINE s == dialogs[a]
<1>3. /\ Len(s) \in 1..Len(s) /\ s[Len(s)].kind = "edit"
      /\ Front(s) \in Seq(DialogSet) /\ Len(Front(s)) = Len(s) - 1
      /\ \A i \in 1..Len(Front(s)) : i \in 1..Len(s) /\ Front(s)[i] = s[i]
  BY <1>1, PopDialog DEF OnTop
<1>4. /\ Len(dialogs'[a]) = Len(s)
      /\ \A i \in 1..Len(Front(s)) : dialogs'[a][i] = s[i]
      /\ dialogs'[a][Len(s)] = x
  BY <1>1, <1>2, <1>3, PushDialog
<1>5. \A i \in 1..Len(s) : i \in 1..Len(Front(s)) \/ i = Len(s)
  BY <1>1, <1>3
<1>6. DialogsKnow'
  <2> SUFFICES ASSUME NEW b \in Admins, NEW y \in DialogSet,
                      NEW i \in 1..Len(dialogs'[b]), dialogs'[b][i] = y
               PROVE  DialogKnows(b, y)'
    BY DEF DialogsKnow
  <2>1. CASE y = x
    BY <2>1 DEF DialogKnows, Knows, Stored
  <2>2. CASE y # x
    <3>1. i \in 1..Len(dialogs[b]) /\ dialogs[b][i] = y
      BY <2>2, <1>2, <1>4, <1>5
    <3>2. DialogKnows(b, y)
      BY <3>1 DEF IInv, DialogsKnow
    <3> QED
      BY <3>2 DEF DialogKnows, Knows, Stored
  <2> QED
    BY <2>1, <2>2
<1>7. DialogsDiffer'
  <2> SUFFICES ASSUME NEW b \in Admins, NEW i \in 1..Len(dialogs'[b]),
                      NEW k \in 1..Len(dialogs'[b]),
                      dialogs'[b][i].kind = "delete", dialogs'[b][k].kind = "delete",
                      dialogs'[b][i].call = dialogs'[b][k].call
               PROVE  i = k
    BY DEF DialogsDiffer
  <2>1. CASE b # a
    BY <2>1, <1>2 DEF IInv, DialogsDiffer
  <2>2. CASE b = a
    <3>1. ASSUME NEW j \in 1..Len(s), dialogs'[a][j].kind = "delete"
          PROVE  dialogs'[a][j] = s[j]
      BY <3>1, <1>4, <1>5
    <3>2. dialogs'[a][i] = s[i] /\ dialogs'[a][k] = s[k]
      BY <2>2, <3>1, <1>4
    <3>3. i \in 1..Len(s) /\ k \in 1..Len(s)
      BY <2>2, <1>4
    <3> QED
      BY <2>2, <3>2, <3>3 DEF IInv, DialogsDiffer
  <2> QED
    BY <2>1, <2>2
<1>8. LeaversDone'
  BY <1>2 DEF IInv, LeaversDone, TypeOK, OnTop
<1>9. OpenEdits'
  <2> SUFFICES ASSUME NEW b \in Admins, NEW c \in Calls, Behind(calls[b][c])
               PROVE  \E i \in 1..Len(dialogs'[b]) : dialogs'[b][i].kind = "edit"
    BY DEF OpenEdits, Behind
  <2>1. CASE b # a
    BY <2>1, <1>2 DEF IInv, OpenEdits
  <2>2. CASE b = a
    <3>1. Len(s) \in 1..Len(dialogs'[a]) /\ dialogs'[a][Len(s)].kind = "edit"
      BY <1>3, <1>4
    <3> QED
      BY <2>2, <3>1
  <2> QED
    BY <2>1, <2>2
<1>10. dialogs' \in [Admins -> Seq(DialogSet)]
  BY <1>1, <1>3, PushDialog DEF IInv, TypeOK
<1> QED
  BY <1>6, <1>7, <1>8, <1>9, <1>10

\* What is left of a handler cs[b][d] when the top dialog of a is closed.
Heard(cs, a, b, d) ==
  LET x == cs[b][d]
      y == AfterPop(cs, a)[b][d]
  IN \/ /\ b = a /\ OnTop(a, "delete") /\ Last(dialogs[a]).call = d
        /\ y = NoCall
     \/ /\ b = a /\ OnTop(a, "edit") /\ x.op = "update"
        /\ y = [x EXCEPT !.open = FALSE]
     \/ /\ ~(b = a /\ OnTop(a, "delete") /\ Last(dialogs[a]).call = d)
        /\ ~(b = a /\ OnTop(a, "edit") /\ x.op = "update")
        /\ y = x

LEMMA PopIsHeard ==
  ASSUME NEW cs \in [Admins -> [Calls -> CallSet]], NEW a \in Admins
  PROVE  /\ AfterPop(cs, a) \in [Admins -> [Calls -> CallSet]]
         /\ \A b \in Admins, d \in Calls : Heard(cs, a, b, d)
<1>1. ASSUME NEW x \in CallSet, x.op = "update"
      PROVE  [x EXCEPT !.open = FALSE] \in UpdateCalls
  BY <1>1, CallKinds DEF UpdateCalls
<1> DEFINE Rest(d) == IF OnTop(a, "delete") /\ Last(dialogs[a]).call = d THEN NoCall
                      ELSE IF OnTop(a, "edit") /\ cs[a][d].op = "update"
                      THEN [cs[a][d] EXCEPT !.open = FALSE]
                      ELSE cs[a][d]
<1>2. \A d \in Calls : Rest(d) \in CallSet
  BY <1>1, KindsAreCalls
<1>3. AfterPop(cs, a) = [cs EXCEPT ![a] = [d \in Calls |-> Rest(d)]]
  BY DEF AfterPop
<1>4. AfterPop(cs, a) \in [Admins -> [Calls -> CallSet]]
  <2> HIDE DEF Rest
  <2> QED
    BY <1>2, <1>3
<1>5. ASSUME NEW b \in Admins, NEW d \in Calls
      PROVE  AfterPop(cs, a)[b][d] = IF b = a THEN Rest(d) ELSE cs[b][d]
  <2> HIDE DEF Rest
  <2> QED
    BY <1>3
<1>6. \A b \in Admins, d \in Calls : Heard(cs, a, b, d)
  BY <1>5 DEF Heard
<1> QED
  BY <1>4, <1>6

-----------------------------------------------------------------------------
(* Steps that leave the bank as it is *)

\* The form of b names an answer that is an option, if it was picked last.
FormPicked(b) == form[b].kept => form[b].answer \in Selectable(form[b].options)

LEMMA FormsPicked ==
  ASSUME IInv, UNCHANGED asked,
         \A b \in Admins : form'[b] = form[b] \/ FormPicked(b)'
  PROVE  PickedLast'
<1>1. \A b \in Admins : FormPicked(b)'
  BY DEF IInv, PickedLast, FormPicked
<1> QED
  BY <1>1 DEF IInv, PickedLast, FormPicked

\* What the parts of such a step have to show.
LEMMA QuietStep ==
  ASSUME IInv, UNCHANGED <<bank, asked, edited>>,
         topics \union dropped \subseteq topics' \union dropped',
         TypeOK', PickedLast',
         \A a \in Admins, c \in Calls, x \in CallSet :
           calls'[a][c] = x => CallKnows(x)' \/ calls[a][c] = x,
         \A a \in Admins, c \in Calls : Adding(calls'[a][c]) =>
           Adding(calls[a][c]) /\ calls'[a][c].id = calls[a][c].id,
         LastOneNeedsStaleCount',
         DialogsKnow', DialogsDiffer', LeaversDone', OpenEdits'
  PROVE  IInv'
<1>1. BankGoesOn
  BY BankSame
<1>2. TypeOK /\ Len(asked) \in Nat /\ Len(asked') \in Nat /\ Len(asked') <= MaxAdded
  BY DEF IInv, TypeOK, NotAskedYet
<1>3. RequestsGoOn
  BY <1>2, RequestsSame
<1>4. QuestionsHaveTopic' /\ StoredAsAsked' /\ NotAskedYet'
  BY <1>2, <1>3, BankRests
<1>5. CallsKnow'
  BY <1>1, <1>2, <1>3, CallsGoOn
<1>6. AddsDiffer'
  BY AddsGoOn
<1> QED
  BY <1>4, <1>5, <1>6 DEF IInv

\* One handler goes on to x.
LEMMA OneCallStep ==
  ASSUME IInv, NEW a \in Admins, NEW c \in Calls, NEW x \in CallSet,
         calls' = [calls EXCEPT ![a][c] = x],
         UNCHANGED <<bank, dialogs, left, asked, edited>>,
         topics \union dropped \subseteq topics' \union dropped',
         topics' \subseteq Topics, dropped' \subseteq Topics,
         form' \in [Admins -> Forms],
         \A b \in Admins : form'[b] = form[b] \/ FormPicked(b)',
         calls[a][c].op # "confirm", CallKnows(x)',
         Adding(x) => Adding(calls[a][c]) /\ x.id = calls[a][c].id,
         x.op \notin {"confirm", "delete"},
         Behind(x) => OnTop(a, "edit")
  PROVE  IInv'
<1>0. TypeOK
  BY DEF IInv
<1>1. /\ calls' \in [Admins -> [Calls -> CallSet]] /\ calls'[a][c] = x
      /\ \A b \in Admins, d \in Calls : b # a \/ d # c => calls'[b][d] = calls[b][d]
  BY <1>0 DEF TypeOK
<1>2. TypeOK'
  BY <1>1 DEF IInv, TypeOK
<1>3. PickedLast'
  BY FormsPicked
<1>4. \A b \in Admins, d \in Calls, y \in CallSet :
        calls'[b][d] = y => CallKnows(y)' \/ calls[b][d] = y
  BY <1>1
<1>5. \A b \in Admins, d \in Calls : Adding(calls'[b][d]) =>
        Adding(calls[b][d]) /\ calls'[b][d].id = calls[b][d].id
  BY <1>1
<1>6. LastOneNeedsStaleCount'
  BY <1>1, CountsGoOn
<1>7. \A b \in Admins, d \in Calls :
        /\ calls[b][d].op = "confirm" => calls'[b][d].op = "confirm"
        /\ Behind(calls'[b][d]) => Behind(calls[b][d]) \/ OnTop(b, "edit")
  BY <1>1
<1>8. DialogsKnow' /\ DialogsDiffer' /\ LeaversDone' /\ OpenEdits'
  BY <1>7, BankSame, DialogsRest
<1> QED
  BY <1>2, <1>3, <1>4, <1>5, <1>6, <1>8, QuietStep

\* The form is filled in, or the page left.
LEMMA FormStep ==
  ASSUME IInv, UNCHANGED <<topics, bank, dialogs, calls, asked, edited, dropped>>,
         form' \in [Admins -> Forms],
         \A b \in Admins : form'[b] = form[b] \/ FormPicked(b)',
         left' \subseteq Admins, \A a \in left' : a \in left \/ dialogs[a] = <<>>
  PROVE  IInv'
<1>1. TypeOK'
  BY DEF IInv, TypeOK
<1>2. PickedLast'
  BY FormsPicked
<1>3. LastOneNeedsStaleCount'
  BY DEF IInv, LastOneNeedsStaleCount, Stored, QuestionsOf
<1>4. DialogsKnow' /\ DialogsDiffer' /\ LeaversDone' /\ OpenEdits'
  BY BankSame, DialogsRest
<1> QED
  BY <1>1, <1>2, <1>3, <1>4, QuietStep

-----------------------------------------------------------------------------
(* The form *)

LEMMA SelectTopicInv ==
  ASSUME IInv, NEW a \in Admins, NEW t \in Topics, SelectTopic(a, t)
  PROVE  IInv'
<1>1. form' \in [Admins -> Forms]
  BY DEF IInv, TypeOK, SelectTopic, Forms
<1>2. \A b \in Admins : form'[b] = form[b] \/ FormPicked(b)'
  <2> SUFFICES ASSUME NEW b \in Admins, form'[b] # form[b]
               PROVE  FormPicked(b)'
    OBVIOUS
  <2>1. /\ form'[b].kept = form[b].kept /\ form'[b].answer = form[b].answer
        /\ form'[b].options = form[b].options
    BY DEF IInv, TypeOK, SelectTopic, Forms
  <2> QED
    BY <2>1 DEF IInv, PickedLast, FormPicked
<1>6. /\ UNCHANGED <<topics, bank, dialogs, calls, asked, edited, dropped>> 
      /\ left' \subseteq Admins /\ \A b \in left' : b \in left
  BY DEF IInv, TypeOK, SelectTopic
<1> QED
  BY <1>1, <1>2, <1>6, FormStep

LEMMA TypeOptionInv ==
  ASSUME IInv, NEW a \in Admins, NEW i \in Slots, NEW text \in Texts,
         TypeOption(a, i, text)
  PROVE  IInv'
<1>1. form[a] \in Forms
  BY DEF IInv, TypeOK
<1>2. [form[a] EXCEPT !.options[i] = text, !.kept = FALSE] \in Forms
  BY <1>1 DEF Forms, Options
<1>3. form' = [form EXCEPT ![a] = [form[a] EXCEPT !.options[i] = text, !.kept = FALSE]]
  BY DEF TypeOption
<1>4. form' \in [Admins -> Forms]
  BY <1>2, <1>3 DEF IInv, TypeOK
<1>5. \A b \in Admins : form'[b] = form[b] \/ FormPicked(b)'
  BY <1>1, <1>3 DEF IInv, TypeOK, Forms, FormPicked
<1>6. /\ UNCHANGED <<topics, bank, dialogs, calls, asked, edited, dropped>> 
      /\ left' \subseteq Admins /\ \A b \in left' : b \in left
  BY DEF IInv, TypeOK, TypeOption
<1> QED
  BY <1>4, <1>5, <1>6, FormStep

LEMMA PickAnswerInv ==
  ASSUME IInv, NEW a \in Admins, NEW text \in Texts, PickAnswer(a, text)
  PROVE  IInv'
<1>1. form' \in [Admins -> Forms]
  BY DEF IInv, TypeOK, PickAnswer, Forms
<1>2. \A b \in Admins : form'[b] = form[b] \/ FormPicked(b)'
  BY DEF IInv, TypeOK, PickAnswer, Forms, FormPicked
<1>6. /\ UNCHANGED <<topics, bank, dialogs, calls, asked, edited, dropped>> 
      /\ left' \subseteq Admins /\ \A b \in left' : b \in left
  BY DEF IInv, TypeOK, PickAnswer
<1> QED
  BY <1>1, <1>2, <1>6, FormStep

LEMMA EmptyFormType == EmptyForm \in Forms
BY TrimAssumption DEF EmptyForm, Forms, Blank, Options

LEMMA LeaveInv ==
  ASSUME IInv, NEW a \in Admins, Leave(a)
  PROVE  IInv'
<1>1. form' \in [Admins -> Forms]
  BY EmptyFormType DEF IInv, TypeOK, Leave, Dispose
<1>2. \A b \in Admins : form'[b] = form[b] \/ FormPicked(b)'
  BY DEF IInv, TypeOK, Leave, Dispose, EmptyForm, FormPicked
<1>3. left' \subseteq Admins /\ \A b \in left' : b \in left \/ dialogs[b] = <<>>
  BY DEF IInv, TypeOK, Leave, Dispose, Uncovered
<1> QED
  BY <1>1, <1>2, <1>3, FormStep DEF Leave

-----------------------------------------------------------------------------
(* Handlers that go on *)

LEMMA TopicReadInv ==
  ASSUME IInv, NEW a \in Admins, NEW c \in Calls, TopicRead(a, c)
  PROVE  IInv'
<1> DEFINE old == calls[a][c]
<1>0. PICK x : x = [old EXCEPT !.op = IF old.question.topic \in topics THEN "add" ELSE "set"]
  OBVIOUS
<1>1. old \in AddCalls /\ old \in CallSet
  BY CallType, CallKinds DEF IInv, TopicRead, Adding
<1>2. /\ x \in AddCalls /\ x.id = old.id /\ x.question = old.question
      /\ x.op = "add" => old.question.topic \in topics
      /\ Adding(old) /\ Adding(x) /\ x.op \in {"add", "set"}
  BY <1>0, <1>1 DEF AddCalls, Adding, TopicRead
<1>3. calls' = [calls EXCEPT ![a][c] = x]
  BY <1>0 DEF TopicRead
<1>4. CallKnows(old)
  BY <1>1 DEF IInv, CallsKnow
<1>5. CallKnows(x)'
  <2>1. CallKnows(x)
    BY <1>2, <1>4 DEF CallKnows, Adding, Deleting
  <2> QED
    BY <2>1 DEF CallKnows, Knows, Stored, Adding, Deleting, TopicRead
<1>6. x \in CallSet /\ old.op # "confirm" /\ ~Behind(x)
  BY <1>1, <1>2, KindsAreCalls DEF TopicRead, Behind
<1>7. form' = form /\ form \in [Admins -> Forms] /\ topics \subseteq Topics /\ dropped \subseteq Topics
  BY DEF TopicRead, IInv, TypeOK
<1> QED
  BY <1>2, <1>3, <1>5, <1>6, <1>7, OneCallStep DEF TopicRead

LEMMA TopicCreatedInv ==
  ASSUME IInv, NEW a \in Admins, NEW c \in Calls, TopicCreated(a, c)
  PROVE  IInv'
<1> DEFINE old == calls[a][c]
<1>0. PICK x : x = [old EXCEPT !.op = "add"]
  OBVIOUS
<1>1. old \in AddCalls /\ old \in CallSet
  BY CallType, CallKinds DEF IInv, TopicCreated, Adding
<1>2. /\ x \in AddCalls /\ x.id = old.id /\ x.question = old.question
      /\ Adding(old) /\ Adding(x) /\ x.op = "add"
      /\ old.question.topic \in Topics
  BY <1>0, <1>1 DEF AddCalls, Adding, TopicCreated, Questions
<1>3. calls' = [calls EXCEPT ![a][c] = x]
  BY <1>0 DEF TopicCreated
<1>4. CallKnows(old)
  BY <1>1 DEF IInv, CallsKnow
<1>5. CallKnows(x)'
  BY <1>2, <1>4 DEF CallKnows, Adding, Deleting, TopicCreated
<1>6. x \in CallSet /\ old.op # "confirm" /\ ~Behind(x)
  BY <1>1, <1>2, KindsAreCalls DEF TopicCreated, Behind
<1>7. /\ form' = form /\ form \in [Admins -> Forms] /\ topics' \subseteq Topics
      /\ dropped' \subseteq Topics /\ topics \union dropped \subseteq topics' \union dropped'
  BY <1>2 DEF TopicCreated, IInv, TypeOK
<1> QED
  BY <1>2, <1>3, <1>5, <1>6, <1>7, OneCallStep DEF TopicCreated

\* A handler that ends.
LEMMA HandlerEnds ==
  ASSUME IInv, NEW a \in Admins, NEW c \in Calls,
         calls' = [calls EXCEPT ![a][c] = NoCall], calls[a][c].op # "confirm",
         UNCHANGED <<bank, dialogs, left, asked, edited>>,
         topics \union dropped \subseteq topics' \union dropped',
         topics' \subseteq Topics, dropped' \subseteq Topics,
         form' \in [Admins -> Forms],
         \A b \in Admins : form'[b] = form[b] \/ FormPicked(b)'
  PROVE  IInv'
<1> DEFINE x == NoCall
<1>1. /\ x \in CallSet /\ ~Adding(x) /\ x.op \notin {"confirm", "delete"}
      /\ ~Behind(x)
  BY KindsAreCalls DEF Adding, Behind
<1>2. CallKnows(x)'
  BY DEF CallKnows, Adding, Deleting, NoCall
<1> HIDE DEF x
<1> QED
  BY <1>1, <1>2, OneCallStep DEF x

LEMMA LastOneInv ==
  ASSUME IInv, NEW a \in Admins, NEW c \in Calls, LastOne(a, c)
  PROVE  IInv'
BY HandlerEnds DEF LastOne, IInv, TypeOK

LEMMA CallFailsInv ==
  ASSUME IInv, NEW a \in Admins, NEW c \in Calls, CallFails(a, c)
  PROVE  IInv'
BY HandlerEnds DEF CallFails, IInv, TypeOK

LEMMA TopicDroppedInv ==
  ASSUME IInv, NEW a \in Admins, NEW c \in Calls, TopicDropped(a, c)
  PROVE  IInv'
<1>1. form' \in [Admins -> Forms]
  BY DEF IInv, TypeOK, TopicDropped, Forms
<1>2. \A b \in Admins : form'[b] = form[b] \/ FormPicked(b)'
  <2> SUFFICES ASSUME NEW b \in Admins, form'[b] # form[b]
               PROVE  FormPicked(b)'
    OBVIOUS
  <2>1. /\ form'[b].kept = form[b].kept /\ form'[b].answer = form[b].answer
        /\ form'[b].options = form[b].options
    BY DEF IInv, TypeOK, TopicDropped, Forms
  <2> QED
    BY <2>1 DEF IInv, PickedLast, FormPicked
<1>3. /\ topics' \subseteq Topics /\ dropped' \subseteq Topics
      /\ topics \union dropped \subseteq topics' \union dropped'
  BY DEF IInv, TypeOK, TopicDropped
<1> QED
  BY <1>1, <1>2, <1>3, HandlerEnds DEF TopicDropped

LEMMA AskDeleteInv ==
  ASSUME IInv, NEW a \in Admins, NEW c \in Calls, NEW id \in Ids, AskDelete(a, c, id)
  PROVE  IInv'
<1>0. PICK x : x = [op |-> "count", id |-> id, topic |-> bank[id].topic, stale |-> FALSE]
  OBVIOUS
<1>1. bank[id] \in Questions /\ bank[id] # Unborn
  BY StoredType DEF AskDelete, IInv, Stored
<1>2. x \in DeleteCalls /\ ~Adding(x) /\ x.op = "count" /\ ~Behind(x)
  BY <1>0, <1>1 DEF DeleteCalls, Questions, Adding, Behind
<1>3. calls' = [calls EXCEPT ![a][c] = x] /\ calls[a][c].op # "confirm"
  BY <1>0, KindsAreCalls DEF AskDelete
<1>4. Knows(x.id, x.topic)'
  BY <1>0, <1>1 DEF Knows, AskDelete, Stored
<1>5. CallKnows(x)'
  BY <1>2, <1>4 DEF CallKnows, Adding
<1>6. /\ UNCHANGED <<bank, dialogs, left, asked, edited>>
      /\ topics \union dropped \subseteq topics' \union dropped'
      /\ topics' \subseteq Topics /\ dropped' \subseteq Topics
      /\ form' \in [Admins -> Forms] /\ form' = form
  BY DEF AskDelete, IInv, TypeOK
<1>7. x \in CallSet
  BY <1>2, KindsAreCalls
<1> QED
  BY <1>2, <1>3, <1>5, <1>6, <1>7, OneCallStep

\* What is on top is a dialog, and knows its question.
LEMMA TopDialog ==
  ASSUME IInv, NEW a \in Admins, dialogs[a] # <<>>
  PROVE  Last(dialogs[a]) \in DialogSet /\ DialogKnows(a, Last(dialogs[a])) /\ a \notin left
<1>1. dialogs[a] \in Seq(DialogSet)
  BY DEF IInv, TypeOK
<1> QED
  BY <1>1, PopDialog DEF IInv, DialogsKnow, LeaversDone

LEMMA SaveEditInv ==
  ASSUME IInv, NEW a \in Admins, NEW c \in Calls, SaveEdit(a, c)
  PROVE  IInv'
<1>0. PICK d : d = Last(dialogs[a])
  OBVIOUS
<1>1. d \in [kind : {"edit"}, id : Ids, question : Questions] /\ Knows(d.id, d.question.topic)
  BY <1>0, TopDialog, DialogKinds DEF SaveEdit, OnTop, DialogKnows
<1>2. PICK x : x = [op |-> "update", id |-> d.id, open |-> TRUE,
                    question |-> [d.question EXCEPT !.options =
                                    [i \in Slots |-> Trim[d.question.options[i]]]]]
  OBVIOUS
<1>3. calls' = [calls EXCEPT ![a][c] = x] /\ calls[a][c].op # "confirm"
  BY <1>0, <1>2, KindsAreCalls DEF SaveEdit
<1>4. d.question \in Questions /\ [i \in Slots |-> Trim[d.question.options[i]]] \in Options
  BY <1>1, TrimAssumption DEF Questions, Options
<1>5. /\ x \in UpdateCalls /\ x.id = d.id /\ x.question.topic = d.question.topic
      /\ x.op = "update" /\ ~Adding(x)
  BY <1>1, <1>2, <1>4 DEF UpdateCalls, Questions, Adding
<1>6. Knows(x.id, x.question.topic)'
  BY <1>1, <1>5 DEF Knows, SaveEdit, Stored
<1>7. CallKnows(x)'
  BY <1>5, <1>6 DEF CallKnows, Adding, Deleting
<1>8. /\ UNCHANGED <<bank, dialogs, left, asked, edited>>
      /\ topics \union dropped \subseteq topics' \union dropped'
      /\ topics' \subseteq Topics /\ dropped' \subseteq Topics
      /\ form' \in [Admins -> Forms] /\ form' = form
  BY DEF SaveEdit, IInv, TypeOK
<1>9. x \in CallSet /\ OnTop(a, "edit")
  BY <1>5, KindsAreCalls DEF SaveEdit
<1> QED
  BY <1>3, <1>5, <1>7, <1>8, <1>9, OneCallStep

-----------------------------------------------------------------------------
(* Adding a question *)

LEMMA AppendAsked ==
  ASSUME NEW S, NEW s \in Seq(S), NEW r \in S
  PROVE  /\ Append(s, r) \in Seq(S)
         /\ Len(Append(s, r)) = Len(s) + 1 /\ Len(s) \in Nat
         /\ \A i \in 1..Len(s) : Append(s, r)[i] = s[i]
         /\ Append(s, r)[Len(s) + 1] = r
BY AppendProperties

LEMMA AddQuestionInv ==
  ASSUME IInv, NEW a \in Admins, NEW c \in Calls, NEW t \in Topics, AddQuestion(a, c, t)
  PROVE  IInv'
<1>1. TypeOK /\ Len(asked) \in Nat /\ form[a] \in Forms
  BY DEF IInv, TypeOK
<1>2. PICK n : n = Len(asked) + 1
  OBVIOUS
<1>3. PICK q : q = [topic |-> t, options |-> form[a].options, answer |-> form[a].answer]
  OBVIOUS
<1>4. PICK r : r = [question |-> q, kept |-> form[a].kept]
  OBVIOUS
<1>5. PICK x : x = [op |-> "get", id |-> n, question |-> q]
  OBVIOUS
<1>6. q \in Questions /\ r \in [question : Questions, kept : BOOLEAN]
  BY <1>1, <1>3, <1>4 DEF AddQuestion, Forms, Questions, Answers
<1>7. /\ n \in Ids /\ n \in 1..n /\ x \in AddCalls /\ x \in CallSet /\ x.op = "get"
      /\ Adding(x) /\ ~Behind(x)
  BY <1>1, <1>2, <1>5, <1>6, AddedAssumption, KindsAreCalls
     DEF AddQuestion, Ids, AddCalls, Adding, Behind
<1>8. /\ asked' = Append(asked, r) /\ calls' = [calls EXCEPT ![a][c] = x]
      /\ calls[a][c] = NoCall
      /\ UNCHANGED <<topics, bank, form, dialogs, edited, dropped, left>>
  BY <1>2, <1>3, <1>4, <1>5 DEF AddQuestion
<1>9. /\ asked' \in Seq([question : Questions, kept : BOOLEAN]) /\ Len(asked') = n
      /\ Len(asked') \in Nat /\ Len(asked') <= MaxAdded
      /\ \A i \in 1..Len(asked) : asked'[i] = asked[i]
      /\ asked'[n] = r
  <2>1. asked \in Seq([question : Questions, kept : BOOLEAN]) /\ n <= MaxAdded
    BY <1>1, <1>2, AddedAssumption DEF AddQuestion, TypeOK
  <2> QED
    BY <2>1, <1>1, <1>2, <1>6, <1>8, AppendAsked
<1>10. RequestsGoOn /\ BankGoesOn
  BY <1>1, <1>2, <1>8, <1>9, BankSame DEF RequestsGoOn
<1>11. /\ calls' \in [Admins -> [Calls -> CallSet]] /\ calls'[a][c] = x
       /\ \A b \in Admins, d \in Calls : b # a \/ d # c => calls'[b][d] = calls[b][d]
  BY <1>1, <1>7, <1>8 DEF TypeOK
<1>12. TypeOK'
  BY <1>1, <1>8, <1>9, <1>11 DEF TypeOK
<1>13. QuestionsHaveTopic' /\ StoredAsAsked' /\ NotAskedYet'
  BY <1>8, <1>9, <1>10, BankRests
<1>14. bank[n] = Unborn
  BY <1>1, <1>2, <1>7 DEF IInv, NotAskedYet
<1>15. CallKnows(x)'
  BY <1>4, <1>5, <1>7, <1>8, <1>9, <1>14 DEF CallKnows, Adding, Deleting
<1>16. CallsKnow'
  <2>1. \A b \in Admins, d \in Calls, y \in CallSet : calls'[b][d] = y =>
          CallKnows(y)' \/ (calls[b][d] = y /\ (Adding(y) => bank'[y.id] = bank[y.id]))
    BY <1>8, <1>11, <1>15
  <2> QED
    BY <2>1, <1>9, <1>10, CallsGoOn
<1>17. ASSUME NEW b \in Admins, NEW d \in Calls, Adding(calls[b][d])
       PROVE  calls[b][d].id # n
  BY <1>1, <1>2, <1>17, CallType DEF IInv, CallsKnow, CallKnows
<1>18. ~Adding(NoCall) /\ NoCall.op = "none"
  BY DEF Adding, NoCall
<1>19. AddsDiffer'
  <2> SUFFICES ASSUME NEW b \in Admins, NEW e \in Admins, NEW d \in Calls, NEW f \in Calls,
                      Adding(calls'[b][d]), Adding(calls'[e][f]),
                      calls'[b][d].id = calls'[e][f].id
               PROVE  b = e /\ d = f
    BY DEF AddsDiffer, Adding
  <2>1. x.id = n
    BY <1>5
  <2> QED
    BY <2>1, <1>11, <1>17 DEF IInv, AddsDiffer
<1>20. PickedLast'
  <2>1. \A b \in Admins : FormPicked(b)'
    BY <1>8 DEF IInv, PickedLast, FormPicked
  <2>2. r.kept => r.question.answer \in Selectable(r.question.options)
    BY <1>3, <1>4 DEF IInv, PickedLast
  <2>3. \A i \in 1..Len(asked') : i \in 1..Len(asked) \/ i = n
    BY <1>1, <1>2, <1>9
  <2>4. \A i \in 1..Len(asked') : asked'[i].kept =>
          asked'[i].question.answer \in Selectable(asked'[i].question.options)
    BY <2>2, <2>3, <1>9 DEF IInv, PickedLast
  <2> QED
    BY <2>1, <2>4 DEF PickedLast, FormPicked
<1>21. LastOneNeedsStaleCount'
  BY <1>7, <1>8, <1>11, CountsGoOn
<1>22. DialogsKnow' /\ DialogsDiffer' /\ LeaversDone' /\ OpenEdits'
  BY <1>7, <1>8, <1>10, <1>11, <1>18, DialogsRest
<1> QED
  BY <1>12, <1>13, <1>16, <1>19, <1>20, <1>21, <1>22 DEF IInv

LEMMA QuestionAddedInv ==
  ASSUME IInv, NEW a \in Admins, NEW c \in Calls, QuestionAdded(a, c)
  PROVE  IInv'
<1>1. TypeOK /\ Len(asked) \in Nat /\ Len(asked) <= MaxAdded
  BY DEF IInv, TypeOK, NotAskedYet
<1>2. PICK x \in CallSet : x = calls[a][c]
  BY <1>1, CallType
<1>3. x \in AddCalls /\ Adding(x) /\ CallKnows(x) /\ x.op = "add"
  BY <1>2, CallKinds DEF QuestionAdded, Adding, IInv, CallsKnow
<1>4. PICK id \in Ids, q \in Questions : id = x.id /\ q = x.question
  BY <1>3 DEF AddCalls
<1>5. /\ id \in 1..Len(asked) /\ bank[id] = Unborn /\ q = asked[id].question
      /\ q.topic \in topics \union dropped
  BY <1>3, <1>4 DEF CallKnows
<1>6. /\ bank' = [bank EXCEPT ![id] = q] /\ calls' = [calls EXCEPT ![a][c] = NoCall]
      /\ form' = [form EXCEPT ![a].options = Blank, ![a].kept = FALSE]
      /\ UNCHANGED <<topics, dialogs, left, asked, edited, dropped>>
  BY <1>2, <1>4 DEF QuestionAdded
<1>7. /\ bank' \in [Ids -> Questions \union {Unborn, Gone}] /\ bank'[id] = q
      /\ \A i \in Ids : i # id => bank'[i] = bank[i]
  BY <1>1, <1>6 DEF TypeOK
<1>8. \A i \in Ids : i # id => (Stored(i)' <=> Stored(i))
  BY <1>7 DEF Stored
<1>9. BankGoesOn
  BY <1>5, <1>7, <1>8 DEF BankGoesOn
<1>10. RequestsGoOn
  BY <1>1, <1>6, RequestsSame
<1>11. /\ calls' \in [Admins -> [Calls -> CallSet]] /\ calls'[a][c] = NoCall
       /\ \A b \in Admins, d \in Calls : b # a \/ d # c => calls'[b][d] = calls[b][d]
  BY <1>1, <1>6, KindsAreCalls DEF TypeOK
<1>12. form' \in [Admins -> Forms] /\ \A b \in Admins : form'[b] = form[b] \/ FormPicked(b)'
  <2>1. Blank \in Options
    BY TrimAssumption DEF Blank, Options
  <2> QED
    BY <1>1, <1>6, <2>1 DEF TypeOK, Forms, FormPicked
<1>13. TypeOK'
  BY <1>1, <1>6, <1>7, <1>11, <1>12 DEF TypeOK
<1>14. PickedLast'
  BY <1>6, <1>12, FormsPicked
<1>15. QuestionsHaveTopic'
  BY <1>5, <1>6, <1>7, <1>8 DEF IInv, QuestionsHaveTopic
<1>16. StoredAsAsked'
  BY <1>5, <1>6, <1>7, <1>8 DEF IInv, StoredAsAsked
<1>17. NotAskedYet'
  BY <1>1, <1>5, <1>6, <1>7 DEF IInv, NotAskedYet
<1>18. ~Adding(NoCall) /\ NoCall.op = "none" /\ ~Behind(NoCall) /\ CallKnows(NoCall)'
  BY DEF Adding, NoCall, Behind, CallKnows, Deleting
<1>19. CallsKnow'
  <2>1. ASSUME NEW b \in Admins, NEW d \in Calls, NEW y \in CallSet,
               b # a \/ d # c, calls[b][d] = y, Adding(y)
        PROVE  bank'[y.id] = bank[y.id]
    <3>1. y.id # id
      BY <2>1, <1>2, <1>3, <1>4 DEF IInv, AddsDiffer
    <3>2. y.id \in Ids
      BY <2>1, CallKinds DEF AddCalls
    <3> QED
      BY <3>1, <3>2, <1>7
  <2>2. \A b \in Admins, d \in Calls, y \in CallSet : calls'[b][d] = y =>
          CallKnows(y)' \/ (calls[b][d] = y /\ (Adding(y) => bank'[y.id] = bank[y.id]))
    BY <2>1, <1>11, <1>18
  <2> QED
    BY <2>2, <1>1, <1>6, <1>9, <1>10, CallsGoOn
<1>20. AddsDiffer'
  BY <1>11, <1>18, AddsGoOn
<1>21. LastOneNeedsStaleCount'
  <2> SUFFICES ASSUME NEW b \in Admins, NEW d \in Calls, NEW y \in CallSet,
                      y = calls'[b][d], y.op \in {"confirm", "delete"}, Stored(y.id)',
                      ~y.stale
               PROVE  QuestionsOf(bank[y.id].topic)' # {y.id}
    BY <1>11 DEF LastOneNeedsStaleCount
  <2>1. calls[b][d] = y
    BY <1>11, <1>18
  <2>2. y.id \in Ids /\ Knows(y.id, y.topic)
    BY <2>1, CallKinds DEF IInv, CallsKnow, CallKnows, Deleting, DeleteCalls
  <2>3. y.id # id /\ Stored(y.id) /\ bank'[y.id] = bank[y.id]
    BY <2>2, <1>5, <1>7, <1>8 DEF Knows
  <2>4. QuestionsOf(bank[y.id].topic) # {y.id}
    BY <2>1, <2>3 DEF IInv, LastOneNeedsStaleCount
  <2>5. y.id \in QuestionsOf(bank[y.id].topic)
    BY <2>2, <2>3 DEF QuestionsOf
  <2>6. PICK i \in QuestionsOf(bank[y.id].topic) : i # y.id
    BY <2>4, <2>5
  <2>7. i \in Ids /\ Stored(i) /\ bank[i].topic = bank[y.id].topic
    BY <2>6 DEF QuestionsOf
  <2>8. i # id
    BY <2>7, <1>5 DEF Stored
  <2>9. Stored(i)' /\ bank'[i].topic = bank'[y.id].topic
    BY <2>3, <2>7, <2>8, <1>7, <1>8
  <2> QED
    BY <2>6, <2>7, <2>9 DEF QuestionsOf
<1>22. DialogsKnow' /\ DialogsDiffer' /\ LeaversDone' /\ OpenEdits'
  BY <1>2, <1>3, <1>6, <1>9, <1>11, <1>18, DialogsRest
<1> QED
  BY <1>13, <1>14, <1>15, <1>16, <1>17, <1>19, <1>20, <1>21, <1>22 DEF IInv

-----------------------------------------------------------------------------
(* Dialogs *)

LEMMA CountedInv ==
  ASSUME IInv, NEW a \in Admins, NEW c \in Calls, Counted(a, c)
  PROVE  IInv'
<1>1. TypeOK
  BY DEF IInv
<1>2. PICK old \in CallSet : old = calls[a][c]
  BY <1>1, CallType
<1>3. old \in DeleteCalls /\ Knows(old.id, old.topic) /\ old.op = "count"
  BY <1>2, CallKinds DEF Counted, Deleting, IInv, CallsKnow, CallKnows
<1>4. PICK x : x = [old EXCEPT !.op = "confirm", !.stale = FALSE]
  OBVIOUS
<1>5. /\ x \in DeleteCalls /\ x \in CallSet /\ x.op = "confirm" /\ x.id = old.id
      /\ x.topic = old.topic /\ ~Adding(x) /\ ~Behind(x) /\ x.id \in Ids
  BY <1>3, <1>4, KindsAreCalls DEF DeleteCalls, Adding, Behind
<1>6. PICK dialog : dialog = [kind |-> "delete", call |-> c]
  OBVIOUS
<1>7. /\ dialog \in DialogSet /\ dialog.kind = "delete" /\ dialog.call = c
  BY <1>6 DEF DialogSet
<1>8. /\ calls' = [calls EXCEPT ![a][c] = x] /\ a \notin left
      /\ dialogs' = [dialogs EXCEPT ![a] = Append(@, dialog)]
      /\ UNCHANGED <<topics, bank, form, left, asked, edited, dropped>>
      /\ Cardinality(QuestionsOf(old.topic)) # 1
  BY <1>2, <1>4, <1>6 DEF Counted
<1>9. /\ calls' \in [Admins -> [Calls -> CallSet]] /\ calls'[a][c] = x
      /\ \A b \in Admins, d \in Calls : b # a \/ d # c => calls'[b][d] = calls[b][d]
  BY <1>1, <1>5, <1>8 DEF TypeOK
<1>10. CallKnows(x)'
  BY <1>3, <1>5, <1>8 DEF CallKnows, Knows, Stored, Adding
<1>11. Stored(x.id) => QuestionsOf(bank[x.id].topic) # {x.id}
  <2>1. Cardinality({x.id}) = 1
    BY FS_Singleton
  <2>2. QuestionsOf(old.topic) # {x.id}
    BY <2>1, <1>8
  <2>3. Stored(x.id) => bank[x.id].topic = old.topic
    BY <1>3, <1>5 DEF Knows
  <2> QED
    BY <2>2, <2>3
<1>12. LastOneNeedsStaleCount'
  BY <1>8, <1>9, <1>11, CountsGoOn
<1>13. BankGoesOn
  BY <1>8, BankSame
<1>14. /\ dialogs' \in [Admins -> Seq(DialogSet)]
       /\ DialogsKnow' /\ DialogsDiffer' /\ LeaversDone' /\ OpenEdits'
  BY <1>2, <1>3, <1>5, <1>7, <1>8, <1>9, <1>13, DialogPushed
<1>15. TypeOK'
  BY <1>1, <1>8, <1>9, <1>14 DEF TypeOK
<1>16. PickedLast'
  BY <1>8, FormsPicked
<1> QED
  BY <1>5, <1>8, <1>9, <1>10, <1>12, <1>14, <1>15, <1>16, QuietStep

LEMMA AskDropTopicInv ==
  ASSUME IInv, NEW a \in Admins, AskDropTopic(a)
  PROVE  IInv'
<1>1. PICK dialog \in DialogSet : dialog = [kind |-> "topic"]
  BY DEF DialogSet
<1>2. /\ a \notin left /\ dialogs' = [dialogs EXCEPT ![a] = Append(@, dialog)]
      /\ UNCHANGED <<topics, bank, form, calls, left, asked, edited, dropped>>
  BY <1>1 DEF AskDropTopic, Uncovered
<1>3. BankGoesOn
  BY <1>2, BankSame
<1>4. /\ dialogs' \in [Admins -> Seq(DialogSet)]
      /\ DialogsKnow' /\ DialogsDiffer' /\ LeaversDone' /\ OpenEdits'
  BY <1>1, <1>2, <1>3, DialogPushed
<1>5. TypeOK'
  BY <1>2, <1>4 DEF TypeOK, IInv
<1>6. PickedLast' /\ LastOneNeedsStaleCount'
  BY <1>2 DEF IInv, PickedLast, LastOneNeedsStaleCount, Stored, QuestionsOf
<1> QED
  BY <1>2, <1>4, <1>5, <1>6, QuietStep

LEMMA OpenEditInv ==
  ASSUME IInv, NEW a \in Admins, NEW id \in Ids, OpenEdit(a, id)
  PROVE  IInv'
<1>1. bank[id] \in Questions /\ Knows(id, bank[id].topic)
  BY StoredType DEF OpenEdit, IInv, Stored, Knows
<1>2. PICK dialog : dialog = [kind |-> "edit", id |-> id, question |-> bank[id]]
  OBVIOUS
<1>3. /\ dialog \in DialogSet /\ dialog.kind = "edit"
      /\ Knows(dialog.id, dialog.question.topic)
  BY <1>1, <1>2 DEF DialogSet
<1>4. /\ a \notin left /\ dialogs' = [dialogs EXCEPT ![a] = Append(@, dialog)]
      /\ UNCHANGED <<topics, bank, form, calls, left, asked, edited, dropped>>
  BY <1>2 DEF OpenEdit, Uncovered
<1>5. BankGoesOn
  BY <1>4, BankSame
<1>6. /\ dialogs' \in [Admins -> Seq(DialogSet)]
      /\ DialogsKnow' /\ DialogsDiffer' /\ LeaversDone' /\ OpenEdits'
  BY <1>3, <1>4, <1>5, DialogPushed
<1>7. TypeOK'
  BY <1>4, <1>6 DEF TypeOK, IInv
<1>8. PickedLast' /\ LastOneNeedsStaleCount'
  BY <1>4 DEF IInv, PickedLast, LastOneNeedsStaleCount, Stored, QuestionsOf
<1> QED
  BY <1>4, <1>6, <1>7, <1>8, QuietStep

\* The draft changes within its topic.
LEMMA ChangeDraftInv ==
  ASSUME IInv, NEW a \in Admins, NEW question \in Questions,
         OnTop(a, "edit") => question.topic = Last(dialogs[a]).question.topic,
         ChangeDraft(a, question)
  PROVE  IInv'
<1>1. PICK d : d = Last(dialogs[a])
  OBVIOUS
<1>2. d \in [kind : {"edit"}, id : Ids, question : Questions] /\ Knows(d.id, d.question.topic)
  BY <1>1, TopDialog, DialogKinds DEF ChangeDraft, OnTop, DialogKnows
<1>3. PICK x : x = [d EXCEPT !.question = question]
  OBVIOUS
<1>4. /\ x \in DialogSet /\ x.kind = "edit" /\ x.id = d.id /\ x.question = question
  BY <1>2, <1>3 DEF DialogSet
<1>5. /\ dialogs' = [dialogs EXCEPT ![a] = Append(Front(@), x)] /\ OnTop(a, "edit")
      /\ UNCHANGED <<topics, bank, form, calls, left, asked, edited, dropped>>
  BY <1>1, <1>3 DEF ChangeDraft
<1>6. Knows(x.id, x.question.topic)
  BY <1>1, <1>2, <1>4, <1>5
<1>7. /\ dialogs' \in [Admins -> Seq(DialogSet)]
      /\ DialogsKnow' /\ DialogsDiffer' /\ LeaversDone' /\ OpenEdits'
  BY <1>4, <1>5, <1>6, DialogReplaced
<1>8. TypeOK'
  BY <1>5, <1>7 DEF TypeOK, IInv
<1>9. PickedLast' /\ LastOneNeedsStaleCount'
  BY <1>5 DEF IInv, PickedLast, LastOneNeedsStaleCount, Stored, QuestionsOf
<1> QED
  BY <1>5, <1>7, <1>8, <1>9, QuietStep

LEMMA TopQuestion ==
  ASSUME IInv, NEW a \in Admins, OnTop(a, "edit")
  PROVE  Last(dialogs[a]).question \in Questions
BY TopDialog, DialogKinds DEF OnTop

LEMMA RetypeOptionInv ==
  ASSUME IInv, NEW a \in Admins, NEW i \in Slots, NEW text \in Texts,
         RetypeOption(a, i, text)
  PROVE  IInv'
<1>1. PICK q \in Questions : q = Last(dialogs[a]).question
  BY TopQuestion DEF RetypeOption
<1>2. PICK r : r = [q EXCEPT !.options[i] = text]
  OBVIOUS
<1>3. r \in Questions /\ r.topic = q.topic
  BY <1>2 DEF Questions, Options
<1>4. ChangeDraft(a, r)
  BY <1>1, <1>2 DEF RetypeOption
<1> QED
  BY <1>1, <1>3, <1>4, ChangeDraftInv

LEMMA PickLetterInv ==
  ASSUME IInv, NEW a \in Admins, NEW letter \in Letters, PickLetter(a, letter)
  PROVE  IInv'
<1>1. PICK q \in Questions : q = Last(dialogs[a]).question
  BY TopQuestion DEF PickLetter
<1>2. PICK r : r = [q EXCEPT !.answer = letter]
  OBVIOUS
<1>3. r \in Questions /\ r.topic = q.topic
  BY <1>2 DEF Questions, Answers
<1>4. ChangeDraft(a, r)
  BY <1>1, <1>2 DEF PickLetter
<1> QED
  BY <1>1, <1>3, <1>4, ChangeDraftInv

\* A handler x that hears of a closed dialog, or ends.
LEMMA HeardCall ==
  ASSUME NEW x \in CallSet, NEW y \in CallSet,
         \/ y \in {x, NoCall}
         \/ x.op = "update" /\ y = [x EXCEPT !.open = FALSE]
  PROVE  /\ Adding(y) \/ Behind(y) \/ y.op \in {"confirm", "delete"} => y = x
         /\ CallKnows(x) => CallKnows(y)
         /\ CallKnows(x)' => CallKnows(y)'
<1>1. CASE y = x
  BY <1>1
<1>2. CASE y = NoCall
  BY <1>2 DEF NoCall, Adding, Deleting, Behind, CallKnows
<1>3. CASE x.op = "update" /\ y = [x EXCEPT !.open = FALSE]
  <2>1. x \in UpdateCalls
    BY <1>3, CallKinds
  <2>2. y.op = "update" /\ y.open = FALSE /\ y.id = x.id /\ y.question = x.question
    BY <1>3, <2>1 DEF UpdateCalls
  <2> QED
    BY <1>3, <2>2 DEF Adding, Deleting, Behind, CallKnows
<1> QED
  BY <1>1, <1>2, <1>3

LEMMA CloseDialogInv ==
  ASSUME IInv, NEW a \in Admins, CloseDialog(a)
  PROVE  IInv'
<1>1. /\ calls \in [Admins -> [Calls -> CallSet]] /\ calls' = AfterPop(calls, a)
      /\ a \notin left /\ dialogs[a] # <<>>
      /\ dialogs' = [dialogs EXCEPT ![a] = Front(@)]
      /\ UNCHANGED <<topics, bank, form, left, asked, edited, dropped>>
  BY DEF CloseDialog, IInv, TypeOK
<1>2. /\ calls' \in [Admins -> [Calls -> CallSet]]
      /\ \A b \in Admins, d \in Calls : Heard(calls, a, b, d)
  BY <1>1, PopIsHeard
<1>3. ASSUME NEW b \in Admins, NEW d \in Calls
      PROVE  /\ calls[b][d] \in CallSet /\ calls'[b][d] \in CallSet
             /\ \/ calls'[b][d] \in {calls[b][d], NoCall}
                \/ /\ calls[b][d].op = "update"
                   /\ calls'[b][d] = [calls[b][d] EXCEPT !.open = FALSE]
  BY <1>1, <1>2 DEF Heard
<1>4. ASSUME NEW b \in Admins, NEW d \in Calls
      PROVE  /\ Adding(calls'[b][d]) => calls'[b][d] = calls[b][d]
             /\ Behind(calls'[b][d]) => calls'[b][d] = calls[b][d]
             /\ calls'[b][d].op \in {"confirm", "delete"} => calls'[b][d] = calls[b][d]
  BY <1>3, HeardCall
<1>5. ASSUME NEW b \in Admins, NEW d \in Calls, NEW y \in CallSet, calls'[b][d] = y
      PROVE  CallKnows(y)'
  <2>1. PICK x \in CallSet : x = calls[b][d]
    BY <1>3
  <2>2. CallKnows(x)'
    BY <1>1, <2>1 DEF IInv, CallsKnow, CallKnows, Knows, Stored
  <2> QED
    BY <1>3, <1>5, <2>1, <2>2, HeardCall
<1>6. BankGoesOn
  BY <1>1, BankSame
<1>7. ASSUME NEW b \in Admins, NEW d \in Calls
      PROVE  /\ calls[b][d].op = "confirm" =>
                  \/ calls'[b][d].op = "confirm"
                  \/ b = a /\ OnTop(a, "delete") /\ Last(dialogs[a]).call = d
             /\ Behind(calls'[b][d]) =>
                  Behind(calls[b][d]) /\ ~(b = a /\ OnTop(a, "edit"))
  <2>1. calls[b][d].op = "confirm" =>
          \/ calls'[b][d].op = "confirm"
          \/ b = a /\ OnTop(a, "delete") /\ Last(dialogs[a]).call = d
    BY <1>1, <1>2 DEF Heard
  <2>2. ASSUME Behind(calls'[b][d]), b = a, OnTop(a, "edit")
        PROVE  FALSE
    <3>1. calls'[b][d] = calls[b][d] /\ calls[b][d].op = "update" /\ calls[b][d].open
      BY <1>4, <2>2 DEF Behind
    <3>2. calls'[b][d] = NoCall \/ calls'[b][d] = [calls[b][d] EXCEPT !.open = FALSE]
      BY <1>1, <1>2, <2>2, <3>1 DEF Heard
    <3>3. calls[b][d] \in UpdateCalls
      BY <3>1, <1>3, CallKinds
    <3> QED
      BY <3>1, <3>2, <3>3 DEF NoCall, UpdateCalls
  <2> QED
    BY <1>4, <2>1, <2>2
<1>8. /\ dialogs' \in [Admins -> Seq(DialogSet)]
      /\ DialogsKnow' /\ DialogsDiffer' /\ LeaversDone' /\ OpenEdits'
  BY <1>1, <1>6, <1>7, DialogPopped
<1>9. TypeOK'
  BY <1>1, <1>2, <1>8 DEF TypeOK, IInv
<1>10. LastOneNeedsStaleCount'
  BY <1>1, <1>4, CountsGoOn
<1>11. PickedLast'
  BY <1>1, FormsPicked
<1>12. \A b \in Admins, d \in Calls : Adding(calls'[b][d]) =>
         Adding(calls[b][d]) /\ calls'[b][d].id = calls[b][d].id
  BY <1>4
<1> QED
  BY <1>1, <1>5, <1>8, <1>9, <1>10, <1>11, <1>12, QuietStep

LEMMA ConfirmDeleteInv ==
  ASSUME IInv, NEW a \in Admins, ConfirmDelete(a)
  PROVE  IInv'
<1>1. PICK top \in DialogSet : top = Last(dialogs[a])
  BY TopDialog DEF ConfirmDelete, OnTop
<1>2. PICK c \in Calls : c = top.call
  BY <1>1, DialogKinds DEF ConfirmDelete, OnTop
<1>3. TypeOK /\ calls[a][c].op = "confirm" /\ dialogs[a] # <<>> /\ a \notin left
  BY <1>1, <1>2, TopDialog DEF IInv, DialogKnows, ConfirmDelete, OnTop
<1>4. PICK old \in CallSet : old = calls[a][c]
  BY <1>3, CallType
<1>5. old \in DeleteCalls /\ Knows(old.id, old.topic)
  BY <1>3, <1>4, CallKinds DEF Deleting, IInv, CallsKnow, CallKnows
<1>6. PICK x : x = [old EXCEPT !.op = "delete"]
  OBVIOUS
<1>7. /\ x \in DeleteCalls /\ x \in CallSet /\ x.op = "delete" /\ x.id = old.id
      /\ x.topic = old.topic /\ x.stale = old.stale /\ ~Adding(x) /\ ~Behind(x)
  BY <1>5, <1>6, KindsAreCalls DEF DeleteCalls, Adding, Behind
<1>8. /\ calls' = [calls EXCEPT ![a][c] = x]
      /\ dialogs' = [dialogs EXCEPT ![a] = Front(@)] /\ OnTop(a, "delete")
      /\ UNCHANGED <<topics, bank, form, left, asked, edited, dropped>>
  BY <1>1, <1>2, <1>4, <1>6 DEF ConfirmDelete
<1>9. /\ calls' \in [Admins -> [Calls -> CallSet]] /\ calls'[a][c] = x
      /\ \A b \in Admins, d \in Calls : b # a \/ d # c => calls'[b][d] = calls[b][d]
  BY <1>3, <1>7, <1>8 DEF TypeOK
<1>10. CallKnows(x)'
  BY <1>5, <1>7, <1>8 DEF CallKnows, Knows, Stored, Adding
<1>11. LastOneNeedsStaleCount'
  BY <1>3, <1>4, <1>7, <1>8, <1>9, CountsGoOn
<1>12. BankGoesOn
  BY <1>8, BankSame
<1>13. ~OnTop(a, "edit")
  BY <1>8 DEF OnTop
<1>14. \A b \in Admins, d \in Calls :
         /\ calls[b][d].op = "confirm" =>
              \/ calls'[b][d].op = "confirm"
              \/ b = a /\ OnTop(a, "delete") /\ Last(dialogs[a]).call = d
         /\ Behind(calls'[b][d]) =>
              Behind(calls[b][d]) /\ ~(b = a /\ OnTop(a, "edit"))
  BY <1>1, <1>2, <1>7, <1>8, <1>9, <1>13
<1>15. /\ dialogs' \in [Admins -> Seq(DialogSet)]
       /\ DialogsKnow' /\ DialogsDiffer' /\ LeaversDone' /\ OpenEdits'
  BY <1>3, <1>8, <1>12, <1>14, DialogPopped
<1>16. TypeOK'
  BY <1>3, <1>8, <1>9, <1>15 DEF TypeOK
<1>17. PickedLast'
  BY <1>8, FormsPicked
<1> QED
  BY <1>7, <1>8, <1>9, <1>10, <1>11, <1>15, <1>16, <1>17, QuietStep

LEMMA ConfirmDropTopicInv ==
  ASSUME IInv, NEW a \in Admins, NEW c \in Calls, ConfirmDropTopic(a, c)
  PROVE  IInv'
<1>1. PICK x : x = [op |-> "drop", topic |-> form[a].topic]
  OBVIOUS
<1>2. /\ calls' = [calls EXCEPT ![a][c] = x] /\ calls[a][c] = NoCall
      /\ dialogs' = [dialogs EXCEPT ![a] = Front(@)] /\ dialogs[a] # <<>>
      /\ UNCHANGED <<topics, bank, form, left, asked, edited, dropped>>
      /\ ~OnTop(a, "edit") /\ a \notin left
  BY <1>1 DEF ConfirmDropTopic, OnTop
<1>3. TypeOK /\ form[a] \in Forms
  BY DEF IInv, TypeOK
<1>4. x \in DropCalls /\ x \in CallSet /\ x.op = "drop"
  BY <1>1, <1>3, KindsAreCalls DEF DropCalls, Forms
<1>5. ~Adding(x) /\ ~Behind(x) /\ CallKnows(x)'
  BY <1>4 DEF CallKnows, Adding, Deleting, Behind
<1>6. /\ calls' \in [Admins -> [Calls -> CallSet]] /\ calls'[a][c] = x
      /\ \A b \in Admins, d \in Calls : b # a \/ d # c => calls'[b][d] = calls[b][d]
  BY <1>2, <1>3, <1>4 DEF TypeOK
<1>7. LastOneNeedsStaleCount'
  BY <1>2, <1>4, <1>6, CountsGoOn
<1>8. BankGoesOn
  BY <1>2, BankSame
<1>9. \A b \in Admins, d \in Calls :
        /\ calls[b][d].op = "confirm" => calls'[b][d].op = "confirm"
        /\ Behind(calls'[b][d]) => Behind(calls[b][d]) /\ ~(b = a /\ OnTop(a, "edit"))
  BY <1>2, <1>5, <1>6, KindsAreCalls
<1>10. /\ dialogs' \in [Admins -> Seq(DialogSet)]
       /\ DialogsKnow' /\ DialogsDiffer' /\ LeaversDone' /\ OpenEdits'
  BY <1>2, <1>8, <1>9, DialogPopped
<1>11. TypeOK'
  BY <1>2, <1>3, <1>6, <1>10 DEF TypeOK
<1>12. PickedLast'
  BY <1>2, FormsPicked
<1> QED
  BY <1>2, <1>5, <1>6, <1>7, <1>10, <1>11, <1>12, QuietStep

-----------------------------------------------------------------------------
(* Steps that change or delete a question *)

LEMMA QuestionDeletedInv ==
  ASSUME IInv, NEW a \in Admins, NEW c \in Calls, QuestionDeleted(a, c)
  PROVE  IInv'
<1>1. TypeOK /\ Len(asked) \in Nat /\ Len(asked) <= MaxAdded
  BY DEF IInv, TypeOK, NotAskedYet
<1>2. PICK x \in CallSet : x = calls[a][c]
  BY <1>1, CallType
<1>3. x \in DeleteCalls /\ Knows(x.id, x.topic) /\ x.op = "delete"
  BY <1>2, CallKinds DEF QuestionDeleted, Deleting, IInv, CallsKnow, CallKnows
<1>4. PICK id \in Ids : id = x.id
  BY <1>3 DEF DeleteCalls
<1> DEFINE Stale(b, d) == /\ calls[b][d].op \in {"confirm", "delete"}
                         /\ calls[b][d].topic = x.topic /\ Stored(id)
           Rest(b, d) == IF b = a /\ d = c THEN NoCall
                         ELSE IF Stale(b, d) THEN [calls[b][d] EXCEPT !.stale = TRUE]
                         ELSE calls[b][d]
<1>5. /\ bank' = [bank EXCEPT ![id] = Gone]
      /\ calls' = [b \in Admins |-> [d \in Calls |-> Rest(b, d)]]
      /\ UNCHANGED <<topics, form, dialogs, left, asked, edited, dropped>>
  BY <1>2, <1>4 DEF QuestionDeleted
<1>6. /\ bank' \in [Ids -> Questions \union {Unborn, Gone}] /\ bank'[id] = Gone
      /\ \A i \in Ids : i # id => bank'[i] = bank[i]
  BY <1>1, <1>5 DEF TypeOK
<1>7. bank[id] # Unborn
  BY <1>3, <1>4 DEF Knows
<1>8. ~Stored(id)' /\ \A i \in Ids : i # id => (Stored(i)' <=> Stored(i))
  BY <1>6 DEF Stored
<1>9. BankGoesOn
  BY <1>6, <1>8, MarkersAssumption DEF BankGoesOn
<1>10. RequestsGoOn
  BY <1>1, <1>5, RequestsSame
<1>11. ASSUME NEW b \in Admins, NEW d \in Calls
       PROVE  calls'[b][d] = Rest(b, d)
  <2> HIDE DEF Rest
  <2> QED
    BY <1>5
<1>12. ASSUME NEW b \in Admins, NEW d \in Calls
       PROVE  /\ calls[b][d] \in CallSet /\ calls'[b][d] \in CallSet
              /\ \/ b = a /\ d = c /\ calls'[b][d] = NoCall
                 \/ (b # a \/ d # c) /\ ~Stale(b, d) /\ calls'[b][d] = calls[b][d]
                 \/ /\ Stale(b, d) /\ calls'[b][d].op = calls[b][d].op
                    /\ calls'[b][d].id = calls[b][d].id
                    /\ calls'[b][d].topic = calls[b][d].topic
                    /\ calls'[b][d].stale = TRUE
  <2>1. calls[b][d] \in CallSet
    BY <1>1, CallType
  <2>2. CASE b = a /\ d = c
    BY <2>1, <2>2, <1>11, KindsAreCalls
  <2>3. CASE (b # a \/ d # c) /\ ~Stale(b, d)
    BY <2>1, <2>3, <1>11
  <2>4. CASE (b # a \/ d # c) /\ Stale(b, d)
    <3>1. calls[b][d] \in DeleteCalls
      BY <2>1, <2>4, CallKinds DEF Deleting
    <3>2. calls'[b][d] = [calls[b][d] EXCEPT !.stale = TRUE]
      BY <2>4, <1>11
    <3>3. /\ calls'[b][d] \in DeleteCalls /\ calls'[b][d].op = calls[b][d].op
          /\ calls'[b][d].id = calls[b][d].id
          /\ calls'[b][d].topic = calls[b][d].topic
          /\ calls'[b][d].stale = TRUE
      BY <3>1, <3>2 DEF DeleteCalls
    <3> QED
      BY <2>1, <2>4, <3>3, KindsAreCalls
  <2> QED
    BY <2>2, <2>3, <2>4
<1>13. NoCall.op = "none" /\ ~Adding(NoCall) /\ ~Deleting(NoCall) /\ ~Behind(NoCall)
  BY DEF NoCall, Adding, Deleting, Behind
<1> HIDE DEF Rest
<1>14. calls' \in [Admins -> [Calls -> CallSet]]
  <2>1. \A b \in Admins, d \in Calls : Rest(b, d) \in CallSet
    BY <1>11, <1>12
  <2> QED
    BY <2>1, <1>5
<1>15. TypeOK'
  BY <1>1, <1>5, <1>6, <1>14 DEF TypeOK
<1>16. PickedLast'
  BY <1>5, FormsPicked
<1>17. QuestionsHaveTopic' /\ StoredAsAsked'
  BY <1>5, <1>6, <1>8 DEF IInv, QuestionsHaveTopic, StoredAsAsked
<1>18. NotAskedYet'
  BY <1>5, <1>6, <1>7 DEF IInv, NotAskedYet
<1>19. ASSUME NEW b \in Admins, NEW d \in Calls, Stale(b, d)
       PROVE  ~Adding(calls'[b][d]) /\ ~Behind(calls'[b][d])
  BY <1>12, <1>13, <1>19 DEF Adding, Behind
<1>20. CallsKnow'
  <2>1. ASSUME NEW b \in Admins, NEW d \in Calls, NEW y \in CallSet, calls'[b][d] = y,
               y # calls[b][d]
        PROVE  CallKnows(y)'
    <3>1. CASE y = NoCall
      BY <3>1, <1>13 DEF CallKnows, Adding, Deleting, NoCall
    <3>2. CASE y # NoCall
      <4>1. Stale(b, d) /\ y.id = calls[b][d].id /\ y.topic = calls[b][d].topic /\ y.op = calls[b][d].op
        BY <2>1, <3>2, <1>12
      <4>2. PICK z \in CallSet : z = calls[b][d]
        BY <1>12
      <4>3. z.op \in {"confirm", "delete"} /\ z \in DeleteCalls
        BY <4>1, <4>2, CallKinds DEF Deleting
      <4>4. Knows(z.id, z.topic)
        BY <4>2, <4>3 DEF IInv, CallsKnow, CallKnows, Deleting
      <4>5. Knows(z.id, z.topic)'
        BY <4>3, <4>4, <1>9, KnowsStays DEF DeleteCalls
      <4> QED
        BY <4>1, <4>2, <4>3, <4>5 DEF CallKnows, Adding, Deleting
    <3> QED
      BY <3>1, <3>2
  <2>2. ASSUME NEW y \in CallSet, CallKnows(y), Adding(y)
        PROVE  bank'[y.id] = bank[y.id]
    <3>1. y.id \in Ids /\ bank[y.id] = Unborn
      BY <2>2, CallKinds DEF CallKnows, AddCalls
    <3> QED
      BY <3>1, <1>6, <1>7
  <2>3. \A b \in Admins, d \in Calls, y \in CallSet : calls'[b][d] = y =>
          CallKnows(y)' \/ (calls[b][d] = y /\ (Adding(y) => bank'[y.id] = bank[y.id]))
    BY <2>1, <2>2 DEF IInv, CallsKnow
  <2> QED
    BY <2>3, <1>1, <1>5, <1>9, <1>10, CallsGoOn
<1>21. AddsDiffer'
  <2>1. \A b \in Admins, d \in Calls : Adding(calls'[b][d]) =>
          Adding(calls[b][d]) /\ calls'[b][d].id = calls[b][d].id
    BY <1>12, <1>13, <1>19
  <2> QED
    BY <2>1, AddsGoOn
<1>22. LastOneNeedsStaleCount'
  <2> SUFFICES ASSUME NEW b \in Admins, NEW d \in Calls, NEW y \in CallSet,
                      y = calls'[b][d], y.op \in {"confirm", "delete"}, Stored(y.id)',
                      ~y.stale
               PROVE  QuestionsOf(bank[y.id].topic)' # {y.id}
    BY <1>12 DEF LastOneNeedsStaleCount
  <2>1. calls[b][d] = y /\ ~Stale(b, d)
    BY <1>12, <1>13
  <2>2. y.id \in Ids /\ Knows(y.id, y.topic)
    BY <2>1, CallKinds DEF IInv, CallsKnow, CallKnows, Deleting, DeleteCalls
  <2>3. y.id # id /\ Stored(y.id) /\ bank'[y.id] = bank[y.id]
    BY <2>2, <1>6, <1>8
  <2>4. QuestionsOf(bank[y.id].topic) # {y.id}
    BY <2>1, <2>3 DEF IInv, LastOneNeedsStaleCount
  <2>5. y.id \in QuestionsOf(bank[y.id].topic)
    BY <2>2, <2>3 DEF QuestionsOf
  <2>6. PICK i \in QuestionsOf(bank[y.id].topic) : i # y.id
    BY <2>4, <2>5
  <2>7. i \in Ids /\ Stored(i) /\ bank[i].topic = bank[y.id].topic
    BY <2>6 DEF QuestionsOf
  <2>8. i # id
    <3>1. bank[y.id].topic = y.topic
      BY <2>2, <2>3 DEF Knows
    <3>2. Stored(id) => y.topic # x.topic
      BY <2>1
    <3>3. Stored(id) => bank[id].topic = x.topic
      BY <1>3, <1>4 DEF Knows
    <3> QED
      BY <2>7, <3>1, <3>2, <3>3
  <2>9. Stored(i)' /\ bank'[i].topic = bank'[y.id].topic
    BY <2>3, <2>7, <2>8, <1>6, <1>8
  <2> QED
    BY <2>6, <2>7, <2>9 DEF QuestionsOf
<1>23. DialogsKnow' /\ DialogsDiffer' /\ LeaversDone' /\ OpenEdits'
  <2>1. \A b \in Admins, d \in Calls :
          /\ calls[b][d].op = "confirm" => calls'[b][d].op = "confirm"
          /\ Behind(calls'[b][d]) => Behind(calls[b][d])
    BY <1>2, <1>3, <1>12, <1>13, <1>19
  <2> QED
    BY <2>1, <1>5, <1>9, DialogsRest
<1> QED
  BY <1>15, <1>16, <1>17, <1>18, <1>20, <1>21, <1>22, <1>23 DEF IInv

LEMMA EditSavedInv ==
  ASSUME IInv, NEW a \in Admins, NEW c \in Calls, EditSaved(a, c)
  PROVE  IInv'
<1>1. TypeOK /\ Len(asked) \in Nat /\ Len(asked) <= MaxAdded
  BY DEF IInv, TypeOK, NotAskedYet
<1>2. PICK x \in CallSet : x = calls[a][c]
  BY <1>1, CallType
<1>3. x \in UpdateCalls /\ Knows(x.id, x.question.topic) /\ x.op = "update"
  BY <1>2, CallKinds DEF EditSaved, IInv, CallsKnow, CallKnows
<1>4. PICK id \in Ids, q \in Questions : id = x.id /\ q = x.question
  BY <1>3 DEF UpdateCalls
<1>5. PICK ended : ended = [calls EXCEPT ![a][c] = NoCall]
  OBVIOUS
<1>6. /\ bank' = [bank EXCEPT ![id] = q] /\ Stored(id) /\ edited' = edited \union {id}
      /\ UNCHANGED <<topics, asked, dropped>>
  BY <1>2, <1>4 DEF EditSaved
<1>7. /\ bank' \in [Ids -> Questions \union {Unborn, Gone}] /\ bank'[id] = q
      /\ \A i \in Ids : i # id => bank'[i] = bank[i]
  BY <1>1, <1>6 DEF TypeOK
<1>8. \A i \in Ids : /\ Stored(i)' <=> Stored(i)
                     /\ Stored(i) => bank'[i].topic = bank[i].topic
  <2>1. q.topic = bank[id].topic /\ q \notin {Unborn, Gone}
    BY <1>3, <1>4, <1>6, MarkersAssumption DEF Knows
  <2> QED
    BY <2>1, <1>6, <1>7 DEF Stored
<1>9. BankGoesOn
  BY <1>6, <1>7, <1>8, MarkersAssumption DEF BankGoesOn, Stored
<1>10. RequestsGoOn
  BY <1>1, <1>6, RequestsSame
<1>11. /\ ended \in [Admins -> [Calls -> CallSet]] /\ ended[a][c] = NoCall
       /\ \A b \in Admins, d \in Calls : b # a \/ d # c => ended[b][d] = calls[b][d]
  BY <1>1, <1>5, KindsAreCalls DEF TypeOK
<1>12. /\ AfterPop(ended, a) \in [Admins -> [Calls -> CallSet]]
       /\ \A b \in Admins, d \in Calls : Heard(ended, a, b, d)
  BY <1>11, PopIsHeard
<1>13. \/ /\ calls' = AfterPop(ended, a) /\ dialogs[a] = <<>> /\ UNCHANGED dialogs
          /\ left' = left \union {a} /\ form' = [form EXCEPT ![a] = EmptyForm]
       \/ /\ calls' = AfterPop(ended, a) /\ dialogs[a] # <<>>
          /\ dialogs' = [dialogs EXCEPT ![a] = Front(@)] /\ UNCHANGED <<form, left>>
       \/ /\ calls' = ended /\ UNCHANGED <<form, dialogs, left>>
  BY <1>5 DEF EditSaved, PopAfterSave, Dispose
<1>14. NoCall.op = "none" /\ ~Adding(NoCall) /\ ~Deleting(NoCall) /\ ~Behind(NoCall)
  BY DEF NoCall, Adding, Deleting, Behind
<1>15. ASSUME NEW b \in Admins, NEW d \in Calls
       PROVE  /\ calls[b][d] \in CallSet /\ calls'[b][d] \in CallSet
              /\ \/ calls'[b][d] \in {calls[b][d], NoCall}
                 \/ /\ calls[b][d].op = "update"
                    /\ calls'[b][d] = [calls[b][d] EXCEPT !.open = FALSE]
  <2>1. calls[b][d] \in CallSet /\ calls' \in [Admins -> [Calls -> CallSet]]
    BY <1>1, <1>11, <1>12, <1>13, CallType
  <2>2. CASE calls' = ended
    BY <2>1, <2>2, <1>11
  <2>3. CASE calls' = AfterPop(ended, a)
    <3>1. CASE b = a /\ d = c
      BY <2>1, <2>3, <3>1, <1>11, <1>12, <1>14 DEF Heard
    <3>2. CASE b # a \/ d # c
      <4>1. ended[b][d] = calls[b][d] /\ Heard(ended, a, b, d)
        BY <3>2, <1>11, <1>12
      <4>2. \/ calls'[b][d] = NoCall
            \/ ended[b][d].op = "update" /\ calls'[b][d] = [ended[b][d] EXCEPT !.open = FALSE]
            \/ calls'[b][d] = ended[b][d]
        BY <4>1, <2>3 DEF Heard
      <4> QED
        BY <2>1, <4>1, <4>2
    <3> QED
      BY <3>1, <3>2
  <2> QED
    BY <2>2, <2>3, <1>13
<1>16. ASSUME NEW b \in Admins, NEW d \in Calls
       PROVE  /\ Adding(calls'[b][d]) => calls'[b][d] = calls[b][d]
              /\ Behind(calls'[b][d]) => calls'[b][d] = calls[b][d]
              /\ calls'[b][d].op \in {"confirm", "delete"} => calls'[b][d] = calls[b][d]
  BY <1>15, HeardCall
<1>17. form' \in [Admins -> Forms] /\ \A b \in Admins : form'[b] = form[b] \/ FormPicked(b)'
  <2>1. form \in [Admins -> Forms] /\ EmptyForm.kept = FALSE
    BY <1>1 DEF TypeOK, EmptyForm
  <2>2. CASE form' = form
    BY <2>1, <2>2
  <2>3. CASE form' = [form EXCEPT ![a] = EmptyForm]
    BY <2>1, <2>3, EmptyFormType DEF FormPicked
  <2> QED
    BY <2>2, <2>3, <1>13
<1>18. PickedLast'
  BY <1>6, <1>17, FormsPicked
<1>19. QuestionsHaveTopic'
  BY <1>6, <1>8 DEF IInv, QuestionsHaveTopic
<1>20. StoredAsAsked'
  BY <1>6, <1>7, <1>8 DEF IInv, StoredAsAsked
<1>21. NotAskedYet'
  BY <1>6, <1>7 DEF IInv, NotAskedYet, Stored
<1>22. CallsKnow'
  <2>1. ASSUME NEW b \in Admins, NEW d \in Calls, NEW y \in CallSet, calls'[b][d] = y
        PROVE  CallKnows(y)'
    <3>1. PICK z \in CallSet : z = calls[b][d]
      BY <1>15
    <3>2. CallKnows(z)
      BY <3>1 DEF IInv, CallsKnow
    <3>3. Adding(z) => bank'[z.id] = bank[z.id]
      <4>1. Adding(z) => z.id \in Ids /\ bank[z.id] = Unborn
        BY <3>2, CallKinds DEF CallKnows, AddCalls
      <4> QED
        BY <4>1, <1>6, <1>7 DEF Stored
    <3>4. Len(asked') \in Nat
      BY <1>1, <1>6
    <3>5. CallKnows(z)'
      BY <3>2, <3>3, <3>4, <1>1, <1>9, <1>10, CallKnowsStays
    <3> QED
      BY <2>1, <3>1, <3>5, <1>15, HeardCall
  <2> QED
    BY <2>1 DEF CallsKnow
<1>23. AddsDiffer'
  <2>1. \A b \in Admins, d \in Calls : Adding(calls'[b][d]) =>
          Adding(calls[b][d]) /\ calls'[b][d].id = calls[b][d].id
    BY <1>16
  <2> QED
    BY <2>1, AddsGoOn
<1>24. LastOneNeedsStaleCount'
  <2> SUFFICES ASSUME NEW b \in Admins, NEW d \in Calls, NEW y \in CallSet,
                      y = calls'[b][d], y.op \in {"confirm", "delete"}, Stored(y.id)',
                      ~y.stale
               PROVE  QuestionsOf(bank[y.id].topic)' # {y.id}
    <3>1. \A b \in Admins, d \in Calls : calls'[b][d] \in CallSet
      BY <1>15
    <3> QED
      BY <3>1 DEF LastOneNeedsStaleCount
  <2>1. calls[b][d] = y
    BY <1>16
  <2>2. y.id \in Ids
    BY <2>1, CallKinds DEF Deleting, DeleteCalls
  <2>3. Stored(y.id) /\ bank'[y.id].topic = bank[y.id].topic
    BY <2>2, <1>8
  <2>4. QuestionsOf(bank[y.id].topic) # {y.id}
    BY <2>1, <2>3 DEF IInv, LastOneNeedsStaleCount
  <2>5. QuestionsOf(bank[y.id].topic)' = QuestionsOf(bank[y.id].topic)
    BY <2>3, <1>8 DEF QuestionsOf
  <2> QED
    BY <2>4, <2>5
<1>25. CASE dialogs[a] # <<>> /\ dialogs' = [dialogs EXCEPT ![a] = Front(@)]
             /\ calls' = AfterPop(ended, a) /\ UNCHANGED <<form, left>>
  <2>1. a \notin left
    BY <1>25 DEF IInv, LeaversDone
  <2>2. ASSUME NEW b \in Admins, NEW d \in Calls
        PROVE  /\ calls[b][d].op = "confirm" =>
                    \/ calls'[b][d].op = "confirm"
                    \/ b = a /\ OnTop(a, "delete") /\ Last(dialogs[a]).call = d
               /\ Behind(calls'[b][d]) =>
                    Behind(calls[b][d]) /\ ~(b = a /\ OnTop(a, "edit"))
    <3>1. calls[b][d].op = "confirm" =>
            \/ calls'[b][d].op = "confirm"
            \/ b = a /\ OnTop(a, "delete") /\ Last(dialogs[a]).call = d
      BY <1>2, <1>3, <1>11, <1>12, <1>25 DEF Heard
    <3>2. ASSUME Behind(calls'[b][d]), b = a, OnTop(a, "edit")
          PROVE  FALSE
      <4>1. calls'[b][d] = calls[b][d] /\ calls[b][d].op = "update" /\ calls[b][d].open
        BY <1>16, <3>2 DEF Behind
      <4>2. calls'[b][d] # NoCall
        BY <3>2, <1>14
      <4>3. d # c
        BY <4>2, <3>2, <1>11, <1>12, <1>14, <1>25 DEF Heard
      <4>4. ended[b][d] = calls[b][d]
        BY <4>3, <1>11
      <4>5. calls'[b][d] = [calls[b][d] EXCEPT !.open = FALSE]
        BY <4>1, <4>2, <4>4, <3>2, <1>12, <1>25 DEF Heard
      <4>6. calls[b][d] \in UpdateCalls
        BY <4>1, <1>15, CallKinds
      <4> QED
        BY <4>1, <4>5, <4>6 DEF UpdateCalls
    <3> QED
      BY <1>16, <3>1, <3>2
  <2>3. /\ dialogs' \in [Admins -> Seq(DialogSet)]
        /\ DialogsKnow' /\ DialogsDiffer' /\ LeaversDone' /\ OpenEdits'
    BY <2>1, <2>2, <1>9, <1>25, DialogPopped
  <2>4. TypeOK'
    BY <2>3, <1>1, <1>4, <1>6, <1>7, <1>12, <1>17, <1>25 DEF TypeOK
  <2> QED
    BY <2>3, <2>4, <1>18, <1>19, <1>20, <1>21, <1>22, <1>23, <1>24 DEF IInv
<1>26. CASE /\ UNCHANGED dialogs /\ left' \in {left, left \union {a}}
            /\ left' # left => dialogs[a] = <<>>
            /\ calls' = ended \/ (calls' = AfterPop(ended, a) /\ dialogs[a] = <<>>)
  <2>1. calls' \in [Admins -> [Calls -> CallSet]]
    BY <1>11, <1>12, <1>26
  <2>2. TypeOK'
    BY <2>1, <1>1, <1>4, <1>6, <1>7, <1>17, <1>26 DEF TypeOK
  <2>3. ASSUME NEW b \in Admins, NEW d \in Calls, calls[b][d].op = "confirm"
        PROVE  calls'[b][d].op = "confirm"
    <3>1. b # a \/ d # c
      BY <2>3, <1>2, <1>3
    <3>2. ended[b][d] = calls[b][d]
      BY <3>1, <1>11
    <3>3. CASE calls' = ended
      BY <3>2, <3>3, <2>3
    <3>4. CASE calls' = AfterPop(ended, a) /\ dialogs[a] = <<>>
      BY <3>2, <3>4, <2>3, <1>12 DEF Heard, OnTop
    <3> QED
      BY <3>3, <3>4, <1>26
  <2>4. \A b \in Admins, d \in Calls : Behind(calls'[b][d]) => Behind(calls[b][d])
    BY <1>16
  <2>5. DialogsKnow' /\ DialogsDiffer' /\ LeaversDone' /\ OpenEdits'
    BY <2>3, <2>4, <1>9, <1>26, DialogsRest
  <2> QED
    BY <2>2, <2>5, <1>18, <1>19, <1>20, <1>21, <1>22, <1>23, <1>24 DEF IInv
<1> QED
  BY <1>13, <1>25, <1>26

-----------------------------------------------------------------------------
(* All steps *)

LEMMA InitInv == Init => IInv
<1> SUFFICES ASSUME Init
             PROVE  IInv
  OBVIOUS
<1>1. NoCall \in CallSet /\ NoCall.op = "none"
  BY KindsAreCalls
<1>2. ~Adding(NoCall) /\ ~Behind(NoCall) /\ CallKnows(NoCall)
  BY DEF NoCall, Adding, Behind, CallKnows, Deleting
<1>3. TypeOK
  BY <1>1, EmptyFormType DEF Init, TypeOK
<1>4. QuestionsHaveTopic /\ StoredAsAsked
  BY DEF Init, QuestionsHaveTopic, StoredAsAsked, Stored
<1>5. LastOneNeedsStaleCount /\ CallsKnow /\ AddsDiffer /\ OpenEdits
  BY <1>1, <1>2 DEF Init, LastOneNeedsStaleCount, CallsKnow, AddsDiffer, OpenEdits
<1>6. NotAskedYet /\ PickedLast
  BY AddedAssumption DEF Init, NotAskedYet, PickedLast, EmptyForm
<1>7. DialogsKnow /\ DialogsDiffer /\ LeaversDone
  BY DEF Init, DialogsKnow, DialogsDiffer, LeaversDone
<1> QED
  BY <1>3, <1>4, <1>5, <1>6, <1>7 DEF IInv

LEMMA StutterInv ==
  ASSUME IInv, UNCHANGED vars
  PROVE  IInv'
<1>1. UNCHANGED <<topics, bank, dialogs, calls, asked, edited, dropped>> /\ UNCHANGED <<form, left>>
  BY DEF vars
<1>2. form' \in [Admins -> Forms] /\ left' \subseteq Admins
  BY <1>1 DEF IInv, TypeOK
<1> QED
  BY <1>1, <1>2, FormStep

LEMMA NextInv == IInv /\ [Next]_vars => IInv'
<1> SUFFICES ASSUME IInv, [Next]_vars
             PROVE  IInv'
  OBVIOUS
<1>1. CASE UNCHANGED vars
  BY <1>1, StutterInv
<1>2. CASE Next
  <2>1. PICK a \in Admins :
          \/ \E t \in Topics : SelectTopic(a, t)
          \/ \E i \in Slots, text \in Texts : TypeOption(a, i, text)
          \/ \E text \in Texts : PickAnswer(a, text)
          \/ \E c \in Calls, t \in Topics : AddQuestion(a, c, t)
          \/ \E c \in Calls, id \in Ids : AskDelete(a, c, id)
          \/ \E c \in Calls :
               \/ TopicRead(a, c)
               \/ TopicCreated(a, c)
               \/ QuestionAdded(a, c)
               \/ Counted(a, c)
               \/ LastOne(a, c)
               \/ QuestionDeleted(a, c)
               \/ ConfirmDropTopic(a, c)
               \/ TopicDropped(a, c)
               \/ SaveEdit(a, c)
               \/ EditSaved(a, c)
               \/ CallFails(a, c)
          \/ Leave(a)
          \/ ConfirmDelete(a)
          \/ AskDropTopic(a)
          \/ \E id \in Ids : OpenEdit(a, id)
          \/ \E i \in Slots, text \in Texts : RetypeOption(a, i, text)
          \/ \E letter \in Letters : PickLetter(a, letter)
          \/ CloseDialog(a)
    BY <1>2 DEF Next
  <2>2. CASE \/ \E t \in Topics : SelectTopic(a, t)
             \/ \E i \in Slots, text \in Texts : TypeOption(a, i, text)
             \/ \E text \in Texts : PickAnswer(a, text)
             \/ Leave(a)
    BY <2>2, SelectTopicInv, TypeOptionInv, PickAnswerInv, LeaveInv
  <2>3. CASE \/ \E c \in Calls, t \in Topics : AddQuestion(a, c, t)
             \/ \E c \in Calls : TopicRead(a, c) \/ TopicCreated(a, c) \/ QuestionAdded(a, c)
    BY <2>3, AddQuestionInv, TopicReadInv, TopicCreatedInv, QuestionAddedInv
  <2>4. CASE \/ \E c \in Calls, id \in Ids : AskDelete(a, c, id)
             \/ \E c \in Calls : Counted(a, c) \/ LastOne(a, c) \/ QuestionDeleted(a, c)
             \/ ConfirmDelete(a)
    BY <2>4, AskDeleteInv, CountedInv, LastOneInv, QuestionDeletedInv, ConfirmDeleteInv
  <2>5. CASE \/ AskDropTopic(a) \/ CloseDialog(a)
             \/ \E c \in Calls : ConfirmDropTopic(a, c) \/ TopicDropped(a, c)
                                 \/ CallFails(a, c)
    BY <2>5, AskDropTopicInv, CloseDialogInv, ConfirmDropTopicInv, TopicDroppedInv,
       CallFailsInv
  <2>6. CASE \/ \E id \in Ids : OpenEdit(a, id)
             \/ \E i \in Slots, text \in Texts : RetypeOption(a, i, text)
             \/ \E letter \in Letters : PickLetter(a, letter)
             \/ \E c \in Calls : SaveEdit(a, c) \/ EditSaved(a, c)
    BY <2>6, OpenEditInv, RetypeOptionInv, PickLetterInv, SaveEditInv, EditSavedInv
  <2> QED
    BY <2>1, <2>2, <2>3, <2>4, <2>5, <2>6
<1> QED
  BY <1>1, <1>2

-----------------------------------------------------------------------------
(***************************************************************************)
(* Theorems                                                                *)
(***************************************************************************)

\* The invariant holds in every behaviour, whatever the constants.
THEOREM Inductive == Spec => []IInv
BY InitInv, NextInv, PTL DEF Spec

\* Type correctness.
THEOREM TypeCorrect == Spec => []TypeOK
<1>1. IInv => TypeOK
  BY DEF IInv
<1> QED
  BY <1>1, Inductive, PTL

\* A stored question belongs to a topic that exists or that an administrator
\* deleted (_addQuestion, _deleteTopic).
THEOREM EveryQuestionHasTopic == Spec => []QuestionsHaveTopic
<1>1. IInv => QuestionsHaveTopic
  BY DEF IInv
<1> QED
  BY <1>1, Inductive, PTL

\* Only a handler with a stale count is about to delete the last question of
\* its topic (_deleteQuestion).
THEOREM LastOneGoesOnStaleCount == Spec => []LastOneNeedsStaleCount
<1>1. IInv => LastOneNeedsStaleCount
  BY DEF IInv
<1> QED
  BY <1>1, Inductive, PTL

\* What _addQuestion stores is what was on the form when it was called.
THEOREM StoredWasAsked == Spec => []StoredAsAsked
<1>1. IInv => StoredAsAsked
  BY DEF IInv
<1> QED
  BY <1>1, Inductive, PTL

\* The answer of a stored question that was picked from its options, is exactly
\* one of them if none of them begins or ends with a blank.
THEOREM PickedAnswerStaysOption == Spec => []PickedAnswerIsOption
<1>1. IInv => PickedAnswerIsOption
  <2> SUFFICES ASSUME IInv, NEW id \in Ids, AnswerPicked(id), NoBlanks(id)
               PROVE  \E i \in Slots : bank[id].options[i] = bank[id].answer
    BY DEF PickedAnswerIsOption
  <2>1. bank[id] = asked[id].question
    BY DEF IInv, StoredAsAsked, AnswerPicked
  <2>2. id \in 1..Len(asked)
    <3>1. id \in Nat /\ 1 <= id /\ Len(asked) \in Nat
      BY AddedAssumption DEF Ids, IInv, TypeOK
    <3>2. ~(id > Len(asked))
      BY DEF IInv, NotAskedYet, Stored, AnswerPicked
    <3> QED
      BY <3>1, <3>2
  <2>3. asked[id].question.answer \in Selectable(asked[id].question.options)
    BY <2>2 DEF IInv, PickedLast, AnswerPicked
  <2>4. PICK i \in Slots : Trim[bank[id].options[i]] = bank[id].answer
    BY <2>1, <2>3 DEF Selectable
  <2>5. bank[id].options[i] = bank[id].answer
    BY <2>4 DEF NoBlanks
  <2> QED
    BY <2>5
<1> QED
  BY <1>1, Inductive, PTL

\* What a step does to the questions and to the pages: nothing, or a question is
\* added, deleted or changed, or a page is left.
LEMMA StepKinds ==
  ASSUME Next
  PROVE  \/ UNCHANGED <<bank, left>>
         \/ \E a \in Admins : Leave(a)
         \/ \E a \in Admins, c \in Calls :
              QuestionAdded(a, c) \/ QuestionDeleted(a, c) \/ EditSaved(a, c)
<1> DEFINE Idle == UNCHANGED <<bank, left>>
<1>1. ASSUME NEW a \in Admins, NEW c \in Calls
      PROVE  /\ \A t \in Topics : AddQuestion(a, c, t) => Idle
             /\ \A id \in Ids : AskDelete(a, c, id) => Idle
             /\ TopicRead(a, c) \/ TopicCreated(a, c) => Idle
             /\ Counted(a, c) \/ LastOne(a, c) => Idle
             /\ ConfirmDropTopic(a, c) \/ TopicDropped(a, c) => Idle
             /\ SaveEdit(a, c) \/ CallFails(a, c) => Idle
  BY DEF AddQuestion, AskDelete, TopicRead, TopicCreated, Counted, LastOne,
     ConfirmDropTopic, TopicDropped, SaveEdit, CallFails
<1>2. ASSUME NEW a \in Admins
      PROVE  /\ \A t \in Topics : SelectTopic(a, t) => Idle
             /\ \A i \in Slots, text \in Texts : TypeOption(a, i, text) => Idle
             /\ \A text \in Texts : PickAnswer(a, text) => Idle
             /\ \A id \in Ids : OpenEdit(a, id) => Idle
             /\ ConfirmDelete(a) \/ AskDropTopic(a) \/ CloseDialog(a) => Idle
  BY DEF SelectTopic, TypeOption, PickAnswer, OpenEdit, ConfirmDelete, AskDropTopic,
     CloseDialog
<1>3. ASSUME NEW a \in Admins
      PROVE  /\ \A i \in Slots, text \in Texts : RetypeOption(a, i, text) => Idle
             /\ \A letter \in Letters : PickLetter(a, letter) => Idle
  BY DEF RetypeOption, PickLetter, ChangeDraft
<1> HIDE DEF Idle
<1>4. \/ Idle
      \/ \E a \in Admins : Leave(a)
      \/ \E a \in Admins, c \in Calls :
           QuestionAdded(a, c) \/ QuestionDeleted(a, c) \/ EditSaved(a, c)
  BY <1>1, <1>2, <1>3 DEF Next
<1> QED
  BY <1>4 DEF Idle

\* A question that was deleted does not come back, neither by an edit that was
\* open meanwhile nor by a handler that adds one.
THEOREM DeletedStaysGone == Spec => DeletedStaysDeleted
<1>1. IInv /\ [Next]_vars => [\A id \in Ids : bank[id] = Gone => bank'[id] = Gone]_vars
  <2> SUFFICES ASSUME IInv, Next, NEW id \in Ids, bank[id] = Gone
               PROVE  bank'[id] = Gone
    OBVIOUS
  <2>1. bank \in [Ids -> Questions \union {Unborn, Gone}]
    BY DEF IInv, TypeOK
  <2>2. CASE UNCHANGED bank \/ \E a \in Admins : Leave(a)
    BY <2>2 DEF Leave
  <2>3. ASSUME NEW a \in Admins, NEW c \in Calls, QuestionAdded(a, c)
        PROVE  bank'[id] = Gone
    <3>1. PICK x \in CallSet : x = calls[a][c]
      BY CallType DEF IInv
    <3>2. Adding(x)
      BY <2>3, <3>1 DEF QuestionAdded, Adding
    <3>3. bank[x.id] = Unborn
      BY <3>1, <3>2 DEF IInv, CallsKnow, CallKnows
    <3>4. x.id # id
      BY <3>3, MarkersAssumption
    <3> QED
      BY <2>1, <2>3, <3>1, <3>4 DEF QuestionAdded
  <2>4. ASSUME NEW a \in Admins, NEW c \in Calls, QuestionDeleted(a, c)
        PROVE  bank'[id] = Gone
    BY <2>1, <2>4 DEF QuestionDeleted
  <2>5. ASSUME NEW a \in Admins, NEW c \in Calls, EditSaved(a, c)
        PROVE  bank'[id] = Gone
    <3>1. calls[a][c].id # id
      BY <2>5 DEF EditSaved, Stored
    <3> QED
      BY <2>1, <2>5, <3>1 DEF EditSaved
  <2> QED
    BY <2>2, <2>3, <2>4, <2>5, StepKinds
<1> QED
  BY <1>1, Inductive, PTL DEF Spec, DeletedStaysDeleted

\* A saved edit closes the page only if its own dialog was closed before
\* (Navigator.pop after the await of "Kaydet").
THEOREM PageNeedsGoneDialog == Spec => PageClosedNeedsGoneDialog
<1>1. IInv /\ [Next]_vars =>
        [\A a \in Admins : a \in left' \ left =>
           \/ calls'[a] = calls[a]
           \/ \E c \in Calls : /\ calls[a][c].op = "update" /\ ~calls[a][c].open
                               /\ calls'[a][c] = NoCall]_vars
  <2> DEFINE Excused(b) ==
        \/ calls'[b] = calls[b]
        \/ \E c \in Calls : /\ calls[b][c].op = "update" /\ ~calls[b][c].open
                            /\ calls'[b][c] = NoCall
  <2> SUFFICES ASSUME IInv, Next, NEW b \in Admins, b \in left' \ left
               PROVE  Excused(b)
    OBVIOUS
  <2>1. CASE \/ UNCHANGED left
             \/ \E a \in Admins, c \in Calls : QuestionAdded(a, c) \/ QuestionDeleted(a, c)
    BY <2>1 DEF QuestionAdded, QuestionDeleted
  <2>2. ASSUME NEW a \in Admins, Leave(a)
        PROVE  Excused(b)
    BY <2>2 DEF Leave
  <2>3. ASSUME NEW a \in Admins, NEW c \in Calls, EditSaved(a, c)
        PROVE  Excused(b)
    <3>1. PICK ended : ended = [calls EXCEPT ![a][c] = NoCall]
      OBVIOUS
    <3>2. b = a /\ dialogs[a] = <<>> /\ calls' = AfterPop(ended, a)
      BY <2>3, <3>1 DEF EditSaved, PopAfterSave, Dispose
    <3>3. calls[a][c].op = "update" /\ ~calls[a][c].open
      <4>1. calls[a][c].op = "update"
        BY <2>3 DEF EditSaved
      <4>2. Len(dialogs[a]) = 0
        BY <3>2
      <4>3. ~Behind(calls[a][c])
        BY <4>2 DEF IInv, OpenEdits
      <4> QED
        BY <4>1, <4>3 DEF Behind
    <3>4. ended \in [Admins -> [Calls -> CallSet]] /\ ended[a][c] = NoCall
      BY <3>1, KindsAreCalls DEF IInv, TypeOK
    <3>5. Heard(ended, a, a, c)
      BY <3>4, PopIsHeard
    <3>6. calls'[a][c] = NoCall
      BY <3>2, <3>4, <3>5 DEF Heard, OnTop
    <3> QED
      BY <3>2, <3>3, <3>6
  <2> QED
    BY <2>1, <2>2, <2>3, StepKinds
<1> QED
  BY <1>1, Inductive, PTL DEF Spec, PageClosedNeedsGoneDialog
=============================================================================
