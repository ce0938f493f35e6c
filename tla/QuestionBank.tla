---------------------------- MODULE QuestionBank ---------------------------
(***************************************************************************)
(* The question manager of AdminDashboard: administrators who add, edit    *)
(* and delete questions and topics of the Firestore collection questions.  *)
(*                                                                         *)
(* Every await is a step: adding a question asks whether the topic exists, *)
(* creates it if not, and adds the question; deleting one counts the       *)
(* questions of its topic, asks for confirmation, and deletes.  Meanwhile  *)
(* the other administrators, and the form of this one, go on.  Deleting a  *)
(* topic deletes its document only: its questions stay stored.             *)
(*                                                                         *)
(* A stored question is its topic, its options and its answer; its wording *)
(* is abstracted away.  An administrator who leaves the page, or its tab,  *)
(* gets a fresh one on coming back: that is another member of Admins.      *)
(***************************************************************************)
EXTENDS Naturals, Sequences, FiniteSets, SequencesExt

CONSTANTS
  Admins,
  Topics,
  Slots,      \* the option fields of a question
  Texts,      \* what can be in an option field
  Empty,      \* an empty field
  Trim,       \* String.trim
  Letters,    \* what the edit dialog offers as answers: 'A' to 'D'
  None,       \* no topic or no answer is selected
  Unborn, Gone, \* in place of a question: not added yet, deleted
  Calls,      \* bound: handlers of one administrator running at a time
  MaxAdded,   \* bound: how often "Soru Ekle" is pressed
  MaxEdited   \* bound: the questions, the first to be added, that are edited

ASSUME TrimAssumption ==
  /\ Empty \in Texts /\ None \notin Texts \union Letters /\ None \notin Topics
  /\ Trim \in [Texts -> Texts] /\ Trim[Empty] = Empty
ASSUME AddedAssumption == MaxAdded \in Nat /\ MaxEdited \in Nat

VARIABLES
  topics,   \* the topic documents that exist
  bank,     \* the questions by number
  form,     \* per administrator: selectedTopic, the options, selectedAnswer
  dialogs,  \* per administrator: the dialogs on screen, the top one last
  calls,    \* per administrator: the handlers that wait for an answer
  left,     \* the administrators who left the page
  asked,    \* history: the question that was on the form when its "Soru
            \*   Ekle" was pressed, in order, and whether its options were
            \*   the same since its answer was picked
  edited,   \* history: the questions that were edited
  dropped   \* history: the topics that were deleted

vars == <<topics, bank, form, dialogs, calls, left, asked, edited, dropped>>

Ids       == 1..MaxAdded
Options   == [Slots -> Texts]
Answers   == Texts \union Letters
Questions == [topic : Topics, options : Options, answer : Answers]
ASSUME MarkersAssumption ==
  Unborn # Gone /\ Unborn \notin Questions /\ Gone \notin Questions
Forms     == [topic : Topics \union {None}, options : Options,
              answer : Texts \union {None},
              kept : BOOLEAN]  \* history: no option changed since the pick

\* A handler, by the await it has reached.
NoCall == [op |-> "none"]
CallSet ==
  {NoCall}
    \union [op : {"get", "set", "add"}, id : Ids, question : Questions]
    \union [op : {"count", "confirm", "delete"}, id : Ids, topic : Topics,
            stale : BOOLEAN]
    \union [op : {"drop"}, topic : Topics \union {None}]
    \union [op : {"update"}, id : Ids, question : Questions, open : BOOLEAN]

DialogSet ==
  [kind : {"delete"}, call : Calls]
    \union [kind : {"topic"}]
    \union [kind : {"edit"}, id : Ids, question : Questions]

Stored(id) == bank[id] \notin {Unborn, Gone}
QuestionsOf(t) == {id \in Ids : Stored(id) /\ bank[id].topic = t}

\* The answers the form offers: the options are trimmed for the choice, and
\* stored as they were typed.
Selectable(options) == {Trim[options[i]] : i \in Slots} \ {Empty}
Blank == [i \in Slots |-> Empty]
EmptyForm == [topic |-> None, options |-> Blank, answer |-> None,
              kept |-> FALSE]

-----------------------------------------------------------------------------
Init ==
  /\ topics = {}
  /\ bank = [id \in Ids |-> Unborn]
  /\ form = [a \in Admins |-> EmptyForm]
  /\ dialogs = [a \in Admins |-> <<>>]
  /\ calls = [a \in Admins |-> [c \in Calls |-> NoCall]]
  /\ left = {}
  /\ asked = <<>>
  /\ edited = {}
  /\ dropped = {}

\* The page of a is open and no dialog covers it; a dialog is on top.
Uncovered(a) == a \notin left /\ dialogs[a] = <<>>
OnTop(a, kind) == a \notin left /\ dialogs[a] # <<>> /\ Last(dialogs[a]).kind = kind

\* The page goes, and its form with it.
Dispose(a) ==
  /\ left' = left \union {a}
  /\ form' = [form EXCEPT ![a] = EmptyForm]

Leave(a) ==
  /\ Uncovered(a)
  /\ Dispose(a)
  /\ UNCHANGED <<topics, bank, dialogs, calls, asked, edited, dropped>>

\* The handlers of a, given as part of cs, once the top dialog of a is closed:
\* a delete dialog answers its handler with no, and the handlers that save an
\* edit note that its dialog is gone.
AfterPop(cs, a) ==
  [cs EXCEPT ![a] = [d \in Calls |->
     IF OnTop(a, "delete") /\ Last(dialogs[a]).call = d THEN NoCall
     ELSE IF OnTop(a, "edit") /\ cs[a][d].op = "update"
     THEN [cs[a][d] EXCEPT !.open = FALSE]
     ELSE cs[a][d]]]

\* "İptal", or a tap beside the dialog.
CloseDialog(a) ==
  /\ a \notin left /\ dialogs[a] # <<>>
  /\ calls' = AfterPop(calls, a)
  /\ dialogs' = [dialogs EXCEPT ![a] = Front(@)]
  /\ UNCHANGED <<topics, bank, form, left, asked, edited, dropped>>

(* The form *)

\* The dropdown offers the topics of the last read of its FutureBuilder, one of
\* which another administrator may have deleted since.
SelectTopic(a, t) ==
  /\ Uncovered(a) /\ t \in topics \union dropped
  /\ form' = [form EXCEPT ![a].topic = t]
  /\ UNCHANGED <<topics, bank, dialogs, calls, left, asked, edited, dropped>>

TypeOption(a, i, text) ==
  /\ Uncovered(a)
  /\ form' = [form EXCEPT ![a].options[i] = text, ![a].kept = FALSE]
  /\ UNCHANGED <<topics, bank, dialogs, calls, left, asked, edited, dropped>>

PickAnswer(a, text) ==
  /\ Uncovered(a) /\ text \in Selectable(form[a].options)
  /\ form' = [form EXCEPT ![a].answer = text, ![a].kept = TRUE]
  /\ UNCHANGED <<topics, bank, dialogs, calls, left, asked, edited, dropped>>

(* Adding a question *)

\* Faulty variant: a question without an answer is accepted.
AddUnanswered(a, c, t) ==
  /\ Uncovered(a) /\ calls[a][c] = NoCall
  /\ Len(asked) < MaxAdded
  /\ form[a].topic \in {t, None}
  /\ LET question == [topic |-> t, options |-> form[a].options,
                      answer |-> form[a].answer]
     IN /\ asked' = Append(asked, [question |-> question,
                                      kept |-> form[a].kept])
        /\ calls' = [calls EXCEPT ![a][c] =
             [op |-> "get", id |-> Len(asked) + 1, question |-> question]]
  /\ UNCHANGED <<topics, bank, form, dialogs, edited, dropped, left>>

\* "Soru Ekle" up to its first await: the question is taken from the form, its
\* topic is the selected one or else the text of the new topic field.
\* selectedAnswer is not compared with the options.
AddQuestion(a, c, t) ==
  /\ Uncovered(a) /\ calls[a][c] = NoCall
  /\ Len(asked) < MaxAdded
  /\ form[a].topic \in {t, None}
  /\ form[a].answer # None
  /\ LET question == [topic |-> t, options |-> form[a].options,
                      answer |-> form[a].answer]
     IN /\ asked' = Append(asked, [question |-> question,
                                      kept |-> form[a].kept])
        /\ calls' = [calls EXCEPT ![a][c] =
             [op |-> "get", id |-> Len(asked) + 1, question |-> question]]
  /\ UNCHANGED <<topics, bank, form, dialogs, edited, dropped, left>>

\* Faulty variant: whether the topic exists is not asked.
TopicAssumed(a, c) ==
  /\ calls[a][c].op = "get"
  /\ calls' = [calls EXCEPT ![a][c].op = "add"]
  /\ UNCHANGED <<topics, bank, form, dialogs, left, asked, edited, dropped>>

\* topicDoc.get() returns.
TopicRead(a, c) ==
  /\ calls[a][c].op = "get"
  /\ calls' = [calls EXCEPT ![a][c].op =
                 IF calls[a][c].question.topic \in topics THEN "add" ELSE "set"]
  /\ UNCHANGED <<topics, bank, form, dialogs, left, asked, edited, dropped>>

\* topicDoc.set() creates the topic.
TopicCreated(a, c) ==
  /\ calls[a][c].op = "set"
  /\ topics' = topics \union {calls[a][c].question.topic}
  /\ calls' = [calls EXCEPT ![a][c].op = "add"]
  /\ UNCHANGED <<bank, form, dialogs, left, asked, edited, dropped>>

\* Faulty variant: the fields are read when the topic has been asked for.
QuestionReadLate(a, c) ==
  /\ calls[a][c].op = "add"
  /\ bank' = [bank EXCEPT ![calls[a][c].id] =
                [calls[a][c].question EXCEPT !.options = form[a].options]]
  /\ form' = [form EXCEPT ![a].options = Blank, ![a].kept = FALSE]
  /\ calls' = [calls EXCEPT ![a][c] = NoCall]
  /\ UNCHANGED <<topics, dialogs, left, asked, edited, dropped>>

\* The question is stored; the text fields are cleared, whatever they hold by
\* now, and selectedAnswer stays.
QuestionAdded(a, c) ==
  /\ calls[a][c].op = "add"
  /\ bank' = [bank EXCEPT ![calls[a][c].id] = calls[a][c].question]
  /\ form' = [form EXCEPT ![a].options = Blank, ![a].kept = FALSE]
  /\ calls' = [calls EXCEPT ![a][c] = NoCall]
  /\ UNCHANGED <<topics, dialogs, left, asked, edited, dropped>>

(* Deleting a question *)

\* The delete icon of a question in the list of the selected topic: its
\* handler begins to count.
AskDelete(a, c, id) ==
  /\ Uncovered(a) /\ calls[a][c] = NoCall
  /\ Stored(id) /\ bank[id].topic = form[a].topic
  /\ calls' = [calls EXCEPT ![a][c] = [op |-> "count", id |-> id,
       topic |-> bank[id].topic, stale |-> FALSE]]
  /\ UNCHANGED <<topics, bank, form, dialogs, left, asked, edited, dropped>>

\* Faulty variant: the dialog comes before the count is looked at.
CountIgnored(a, c) ==
  /\ calls[a][c].op = "count"
  /\ a \notin left
  /\ calls' = [calls EXCEPT ![a][c].op = "confirm", ![a][c].stale = FALSE]
  /\ dialogs' = [dialogs EXCEPT ![a] = Append(@, [kind |-> "delete", call |-> c])]
  /\ UNCHANGED <<topics, bank, form, left, asked, edited, dropped>>

\* The count of the questions of the topic returns and is not one.
Counted(a, c) ==
  /\ calls[a][c].op = "count"
  /\ a \notin left
  /\ Cardinality(QuestionsOf(calls[a][c].topic)) # 1
  /\ calls' = [calls EXCEPT ![a][c].op = "confirm", ![a][c].stale = FALSE]
  /\ dialogs' = [dialogs EXCEPT ![a] = Append(@, [kind |-> "delete", call |-> c])]
  /\ UNCHANGED <<topics, bank, form, left, asked, edited, dropped>>

\* The count is one: "Son kalan soruyu silemezsiniz."
LastOne(a, c) ==
  /\ calls[a][c].op = "count"
  /\ Cardinality(QuestionsOf(calls[a][c].topic)) = 1
  /\ calls' = [calls EXCEPT ![a][c] = NoCall]
  /\ UNCHANGED <<topics, bank, form, dialogs, left, asked, edited, dropped>>

\* "Sil" in the delete dialog on top.
ConfirmDelete(a) ==
  /\ OnTop(a, "delete")
  /\ calls' = [calls EXCEPT ![a][Last(dialogs[a]).call].op = "delete"]
  /\ dialogs' = [dialogs EXCEPT ![a] = Front(@)]
  /\ UNCHANGED <<topics, bank, form, left, asked, edited, dropped>>

\* The question is deleted.  The handlers that counted it have a stale count.
QuestionDeleted(a, c) ==
  /\ calls[a][c].op = "delete"
  /\ LET id == calls[a][c].id
     IN /\ bank' = [bank EXCEPT ![id] = Gone]
        /\ calls' = [b \in Admins |-> [d \in Calls |->
             IF b = a /\ d = c THEN NoCall
             ELSE IF /\ calls[b][d].op \in {"confirm", "delete"}
                     /\ calls[b][d].topic = calls[a][c].topic /\ Stored(id)
             THEN [calls[b][d] EXCEPT !.stale = TRUE]
             ELSE calls[b][d]]]
  /\ UNCHANGED <<topics, form, dialogs, left, asked, edited, dropped>>

(* Deleting a topic *)

\* "Konu Başlığını Sil".
AskDropTopic(a) ==
  /\ Uncovered(a) /\ form[a].topic # None
  /\ dialogs' = [dialogs EXCEPT ![a] = Append(@, [kind |-> "topic"])]
  /\ UNCHANGED <<topics, bank, form, calls, left, asked, edited, dropped>>

\* Another handler may have set the selected topic to null by now: then the
\* document that is deleted is none.
ConfirmDropTopic(a, c) ==
  /\ OnTop(a, "topic")
  /\ calls[a][c] = NoCall
  /\ calls' = [calls EXCEPT ![a][c] = [op |-> "drop", topic |-> form[a].topic]]
  /\ dialogs' = [dialogs EXCEPT ![a] = Front(@)]
  /\ UNCHANGED <<topics, bank, form, left, asked, edited, dropped>>

\* The topic document is deleted, not its questions; the form forgets its
\* topic, whichever is selected by now.
TopicDropped(a, c) ==
  /\ calls[a][c].op = "drop"
  /\ topics' = topics \ {calls[a][c].topic}
  /\ dropped' = dropped \union ({calls[a][c].topic} \intersect Topics)
  /\ form' = [form EXCEPT ![a].topic = None]
  /\ calls' = [calls EXCEPT ![a][c] = NoCall]
  /\ UNCHANGED <<bank, dialogs, left, asked, edited>>

(* Editing a question *)

\* The edit icon: the dialog is filled with what the list shows.
OpenEdit(a, id) ==
  /\ Uncovered(a) /\ id <= MaxEdited
  /\ Stored(id) /\ bank[id].topic = form[a].topic
  /\ dialogs' = [dialogs EXCEPT ![a] =
       Append(@, [kind |-> "edit", id |-> id, question |-> bank[id]])]
  /\ UNCHANGED <<topics, bank, form, calls, left, asked, edited, dropped>>

\* An option is retyped, or a letter is picked as the answer.
ChangeDraft(a, question) ==
  /\ OnTop(a, "edit")
  /\ dialogs' = [dialogs EXCEPT ![a] =
       Append(Front(@), [Last(@) EXCEPT !.question = question])]
  /\ UNCHANGED <<topics, bank, form, calls, left, asked, edited, dropped>>

RetypeOption(a, i, text) ==
  /\ OnTop(a, "edit")
  /\ ChangeDraft(a, [Last(dialogs[a]).question EXCEPT !.options[i] = text])

PickLetter(a, letter) ==
  /\ OnTop(a, "edit")
  /\ ChangeDraft(a, [Last(dialogs[a]).question EXCEPT !.answer = letter])

\* "Kaydet": the trimmed options are sent with the answer as it is.
SaveEdit(a, c) ==
  /\ OnTop(a, "edit")
  /\ calls[a][c] = NoCall
  /\ LET draft == Last(dialogs[a]).question
     IN calls' = [calls EXCEPT ![a][c] =
          [op |-> "update", id |-> Last(dialogs[a]).id, open |-> TRUE,
           question |-> [draft EXCEPT !.options =
                           [i \in Slots |-> Trim[draft.options[i]]]]]]
  /\ UNCHANGED <<topics, bank, form, dialogs, left, asked, edited, dropped>>

\* Faulty variant: the page is closed with the dialog.
PopTwice(a, c) ==
  /\ calls' = AfterPop([calls EXCEPT ![a][c] = NoCall], a)
  /\ dialogs' = [dialogs EXCEPT ![a] = <<>>]
  /\ Dispose(a)

\* Navigator.pop(context) after the await of "Kaydet" closes what is on top by
\* now, and without a dialog the page.  A context whose dialog is gone finds the
\* Navigator only until the dialog has faded.
PopAfterSave(a, c) ==
  LET ended == [calls EXCEPT ![a][c] = NoCall]
  IN \/ /\ calls' = AfterPop(ended, a)
        /\ IF dialogs[a] = <<>>
           THEN Dispose(a) /\ UNCHANGED dialogs
           ELSE /\ dialogs' = [dialogs EXCEPT ![a] = Front(@)]
                /\ UNCHANGED <<form, left>>
     \/ /\ ~calls[a][c].open
        /\ calls' = ended
        /\ UNCHANGED <<form, dialogs, left>>

\* Faulty variant: set() in place of update().
EditSet(a, c) ==
  /\ calls[a][c].op = "update"
  /\ bank' = [bank EXCEPT ![calls[a][c].id] = calls[a][c].question]
  /\ edited' = edited \union {calls[a][c].id}
  /\ PopAfterSave(a, c)
  /\ UNCHANGED <<topics, asked, dropped>>

\* update() changes the question.
EditSaved(a, c) ==
  /\ calls[a][c].op = "update"
  /\ Stored(calls[a][c].id)
  /\ bank' = [bank EXCEPT ![calls[a][c].id] = calls[a][c].question]
  /\ edited' = edited \union {calls[a][c].id}
  /\ PopAfterSave(a, c)
  /\ UNCHANGED <<topics, asked, dropped>>

\* A call fails (no connection, refused, update of a question that is gone):
\* its handler ends there, and what it did before stays done.
CallFails(a, c) ==
  /\ calls[a][c].op \notin {"none", "confirm"}
  /\ calls' = [calls EXCEPT ![a][c] = NoCall]
  /\ UNCHANGED <<topics, bank, form, dialogs, left, asked, edited, dropped>>

Next ==
  \E a \in Admins :
    \/ \E t \in Topics : SelectTopic(a, t)
    \/ \E i \in Slots, text \in Texts : TypeOption(a, i, text)
    \/ \E text \in Texts : PickAnswer(a, text)
    \/ \E c \in Calls, t \in Topics : AddQuestion(a, c, t)
    \/ \E c \in Calls, id \in Ids : AskDelete(a, c, id)
    \/ \E c \in Calls :
         \/ TopicRead(a, c)
         \/ TopicCreated(a, c)
         \/ QuestionAdded(a, c)
         \/ Counted(a, c)
         \/ LastOne(a, c)
         \/ QuestionDeleted(a, c)
         \/ ConfirmDropTopic(a, c)
         \/ TopicDropped(a, c)
         \/ SaveEdit(a, c)
         \/ EditSaved(a, c)
         \/ CallFails(a, c)
    \/ Leave(a)
    \/ ConfirmDelete(a)
    \/ AskDropTopic(a)
    \/ \E id \in Ids : OpenEdit(a, id)
    \/ \E i \in Slots, text \in Texts : RetypeOption(a, i, text)
    \/ \E letter \in Letters : PickLetter(a, letter)
    \/ CloseDialog(a)

Spec == Init /\ [][Next]_vars

-----------------------------------------------------------------------------
(***************************************************************************)
(* Properties                                                              *)
(***************************************************************************)

\* Type correctness.
TypeOK ==
  /\ topics \subseteq Topics
  /\ bank \in [Ids -> Questions \union {Unborn, Gone}]
  /\ form \in [Admins -> Forms]
  /\ dialogs \in [Admins -> Seq(DialogSet)]
  /\ calls \in [Admins -> [Calls -> CallSet]]
  /\ asked \in Seq([question : Questions, kept : BOOLEAN])
  /\ edited \subseteq Ids
  /\ left \subseteq Admins
  /\ dropped \subseteq Topics

\* A stored question belongs to a topic that the users' topic lists show, or
\* that was deleted some time: a call that fails half way, or another handler,
\* never leaves a question under a topic that was not created.  The questions
\* of a topic that an administrator deleted are stored on where nobody finds
\* them; they are exempt.
QuestionsHaveTopic ==
  \A id \in Ids : Stored(id) => bank[id].topic \in topics \union dropped

\* A handler that counted, and is about to delete the last question of its
\* topic, has a stale count: while its dialog was open another question went.
LastOneNeedsStaleCount ==
  \A a \in Admins, c \in Calls :
    LET call == calls[a][c]
    IN call.op \in {"confirm", "delete"} /\ Stored(call.id)
         => QuestionsOf(bank[call.id].topic) # {call.id} \/ call.stale

\* What is stored is what was on the form when "Soru Ekle" was pressed,
\* whatever was typed, deleted or edited while the handler waited.
StoredAsAsked ==
  \A id \in Ids : Stored(id) /\ id \notin edited => bank[id] = asked[id].question

\* The answer was picked from the options as they are stored, and not edited.
AnswerPicked(id) == Stored(id) /\ id \notin edited /\ asked[id].kept

\* No option of the question begins or ends with a blank.
NoBlanks(id) == \A i \in Slots : Trim[bank[id].options[i]] = bank[id].options[i]

\* A user can pick the answer of a stored question: it is exactly one of its
\* options, if it was picked after they were typed, the form was not cleared in
\* between, and none of them begins or ends with a blank.  Nothing the waiting
\* handlers do separates the two.
PickedAnswerIsOption ==
  \A id \in Ids : AnswerPicked(id) /\ NoBlanks(id) =>
    \E i \in Slots : bank[id].options[i] = bank[id].answer

\* An edit that is saved closes the page itself only if its dialog was closed
\* before the answer came, by the user or by a second "Kaydet".
PageClosedNeedsGoneDialog ==
  [][\A a \in Admins : a \in left' \ left =>
       \/ calls'[a] = calls[a]
       \/ \E c \in Calls : /\ calls[a][c].op = "update" /\ ~calls[a][c].open
                           /\ calls'[a][c] = NoCall]_vars

\* A question that was deleted does not come back when an edit that was open
\* meanwhile is saved.
DeletedStaysDeleted ==
  [][\A id \in Ids : bank[id] = Gone => bank'[id] = Gone]_vars
=============================================================================
