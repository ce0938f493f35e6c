---------------------------- MODULE CustomTest ----------------------------
(***************************************************************************)
(* CustomTestScreen: the user chooses topics and a number of questions and *)
(* starts a test of his own.                                               *)
(*                                                                         *)
(* _startCustomTest walks the list selectedTopics with a Dart iterator and *)
(* waits for the questions of each topic; the chips that change the list   *)
(* stay usable meanwhile.  The iterator remembers the length the list had  *)
(* at first and throws when it finds another one: the handler ends there   *)
(* and isLoading stays true.  The number of questions is read when the     *)
(* walk is over.                                                           *)
(*                                                                         *)
(* Questions are counted, not named: what a test is made of is the list of *)
(* the topics read for it.  The duration of the test is left out.          *)
(***************************************************************************)
EXTENDS Naturals, SequencesExt

CONSTANTS
  Topics,        \* the topics of the question bank
  Counts,        \* the numbers of questions on offer: 10, 20, 30
  FirstCount,    \* the one a fresh page has: 10
  MaxQuestions,  \* bound: questions stored for a topic
  NoWalk,        \* no _startCustomTest is between its awaits
  NoTest         \* no test was started

ASSUME CountsAssumption == Counts \subseteq Nat \ {0} /\ FirstCount \in Counts
ASSUME MaxQuestionsAssumption == MaxQuestions \in Nat

VARIABLES
  top,       \* the route shown: "home", "custom" or "test"
  selected,  \* selectedTopics, in the order they were tapped
  count,     \* selectedQuestionCount
  loading,   \* isLoading
  walk,      \* the loop over selectedTopics, or NoWalk
  test,      \* what the TestScreen that is shown was pushed with, or NoTest
  meddled,   \* history: a chip was tapped while loading, since the last start
  failed     \* history: a read failed, since the last start

vars == <<top, selected, count, loading, walk, test, meddled, failed>>

TopicLists == {s \in Seq(Topics) : IsInjective(s)}

\* The state of the loop: the length its iterator expects, the topics read so
\* far, the last of them still waited for, and the questions found.  History:
\* the topics chosen at the start, and those deselected since.
Walks == [length : Nat, read : Seq(Topics), found : Nat,
          chosen : TopicLists, dropped : SUBSET Topics]

Tests == [read : {s \in Seq(Topics) : Len(s) >= 2}, size : Nat \ {0},
          chosen : TopicLists, dropped : SUBSET Topics]

ASSUME NoWalkAssumption == NoWalk \notin Walks
ASSUME NoTestAssumption == NoTest \notin Tests

-----------------------------------------------------------------------------
Init ==
  /\ top = "home"
  /\ selected = <<>>
  /\ count = FirstCount
  /\ loading = FALSE
  /\ walk = NoWalk
  /\ test = NoTest
  /\ meddled = FALSE
  /\ failed = FALSE

\* The state of the page is disposed; the next page has a fresh one.
Dispose ==
  /\ top' = "home"
  /\ selected' = <<>>
  /\ count' = FirstCount
  /\ loading' = FALSE
  /\ walk' = NoWalk
  /\ test' = NoTest
  /\ meddled' = FALSE
  /\ failed' = FALSE

\* The page is opened from the drawer.
OpenPage ==
  /\ top = "home"
  /\ top' = "custom"
  /\ UNCHANGED <<selected, count, loading, walk, test, meddled, failed>>

\* The back arrow.  A walk under way reads on, but the setState it comes to
\* throws on a page that is gone, so nothing is pushed.
LeavePage == top = "custom" /\ Dispose

\* A chip is selected: its topic goes to the end of the list.
SelectTopic(t) ==
  /\ top = "custom"
  /\ ~Contains(selected, t)
  /\ selected' = Append(selected, t)
  /\ meddled' = (meddled \/ loading)
  /\ UNCHANGED <<top, count, loading, walk, test, failed>>

\* A chip is deselected: selectedTopics.remove.
DeselectTopic(i) ==
  /\ top = "custom"
  /\ selected' = RemoveAt(selected, i)
  /\ meddled' = (meddled \/ loading)
  /\ walk' = IF walk = NoWalk THEN NoWalk
             ELSE [walk EXCEPT !.dropped = @ \union {selected[i]}]
  /\ UNCHANGED <<top, count, loading, test, failed>>

ChooseCount(n) ==
  /\ top = "custom"
  /\ count' = n
  /\ UNCHANGED <<top, selected, loading, walk, test, meddled, failed>>

\* "Lütfen en az 2 konu seçin."
EnoughTopics == Len(selected) >= 2

\* "Testi Başlat", a button that is disabled while loading: the loop begins
\* and asks for the questions of its first topic.
StartCustomTest ==
  /\ top = "custom" /\ ~loading
  /\ EnoughTopics
  /\ loading' = TRUE
  /\ walk' = [length |-> Len(selected), read |-> <<selected[1]>>, found |-> 0,
              chosen |-> selected, dropped |-> {}]
  /\ meddled' = FALSE
  /\ failed' = FALSE
  /\ UNCHANGED <<top, selected, count, test>>

\* Faulty variant of ListChanged: the loop counts an index up instead.
ListNeverChanged == FALSE

\* ListIterator.moveNext finds another length than at first and throws.
ListChanged == Len(selected) # walk.length

\* The loop is over: moveNext has come to the end of the list as it is now.
NoTopicLeft == Len(walk.read) >= Len(selected)

\* Faulty variant of NothingFound: the early return leaves isLoading alone.
NothingFoundStillLoading(found) ==
  /\ found = 0
  /\ UNCHANGED <<top, loading, test>>

\* "Seçilen konularda soru bulunamadı.": nothing is pushed.
NothingFound(found) ==
  /\ found = 0
  /\ loading' = FALSE
  /\ UNCHANGED <<top, test>>

\* Faulty variant of PushTest: isLoading is not reset before the push.
PushTestStillLoading(found) ==
  /\ found > 0
  /\ top' = "test"
  /\ test' = [read |-> walk.read, size |-> IF count < found THEN count ELSE found,
              chosen |-> walk.chosen, dropped |-> walk.dropped]
  /\ UNCHANGED loading

\* The questions are shuffled, the first selectedQuestionCount are taken and
\* TestScreen is pushed with them.
PushTest(found) ==
  /\ found > 0
  /\ loading' = FALSE
  /\ top' = "test"
  /\ test' = [read |-> walk.read, size |-> IF count < found THEN count ELSE found,
              chosen |-> walk.chosen, dropped |-> walk.dropped]

\* The questions of a topic arrive, n of them, and the loop goes on: it throws,
\* asks for the next topic, or is over.
Throws ==
  /\ ListChanged
  /\ walk' = NoWalk
  /\ UNCHANGED <<top, loading, test>>

ReadNext(n) ==
  /\ ~ListChanged /\ ~NoTopicLeft
  /\ walk' = [walk EXCEPT !.read = Append(@, selected[Len(@) + 1]),
                          !.found = @ + n]
  /\ UNCHANGED <<top, loading, test>>

Finish(n) ==
  /\ ~ListChanged /\ NoTopicLeft
  /\ walk' = NoWalk
  /\ NothingFound(walk.found + n) \/ PushTest(walk.found + n)

TopicRead(n) ==
  /\ walk # NoWalk
  /\ Throws \/ ReadNext(n) \/ Finish(n)
  /\ UNCHANGED <<selected, count, meddled, failed>>

\* The questions of a topic cannot be read: nothing catches the exception.
ReadFails ==
  /\ walk # NoWalk
  /\ walk' = NoWalk
  /\ failed' = TRUE
  /\ UNCHANGED <<top, selected, count, loading, test, meddled>>

\* Back from the TestScreen; the page below was kept.
BackFromTest ==
  /\ top = "test"
  /\ top' = "custom"
  /\ test' = NoTest
  /\ UNCHANGED <<selected, count, loading, walk, meddled, failed>>

\* "Ana Menü" of the results of the test removes every page.
MainMenu == top = "test" /\ Dispose

Next ==
  \/ OpenPage
  \/ LeavePage
  \/ \E t \in Topics : SelectTopic(t)
  \/ \E i \in 1..Len(selected) : DeselectTopic(i)
  \/ \E n \in Counts : ChooseCount(n)
  \/ StartCustomTest
  \/ \E n \in 0..MaxQuestions : TopicRead(n)
  \/ ReadFails
  \/ BackFromTest
  \/ MainMenu

Spec == Init /\ [][Next]_vars

\* Firestore answers every read, from its cache when it has to.
FairSpec == Spec /\ WF_vars(\/ \E n \in 0..MaxQuestions : TopicRead(n)
                            \/ ReadFails)

-----------------------------------------------------------------------------
(***************************************************************************)
(* Properties                                                              *)
(***************************************************************************)

\* Type correctness; a test has at least one question, and at least two
\* topics were read for it.
TypeOK ==
  /\ top \in {"home", "custom", "test"}
  /\ selected \in TopicLists
  /\ count \in Counts
  /\ loading \in BOOLEAN
  /\ walk \in Walks \union {NoWalk}
  /\ test \in Tests \union {NoTest}
  /\ meddled \in BOOLEAN
  /\ failed \in BOOLEAN

\* The button of the page can only stay disabled for ever because a chip was
\* tapped while the test was loading or because a read failed: selecting,
\* starting, leaving and coming back in any order do not do it.
StuckNeedsCause == loading /\ walk = NoWalk => meddled \/ failed

\* A chip tapped while a test loads either ends the loading or has no effect
\* on it, with one exception: when a topic was deselected meanwhile, and then
\* as many selected, the test is made of other topics than the ones chosen,
\* maybe of one topic read twice, although the page asks for at least two
\* (customTestPage.dart:232).
OtherTopicsNeedSwap ==
  test # NoTest /\ test.read # test.chosen =>
    test.dropped \cap ToSet(test.chosen) # {}

\* A start comes to an end by itself: the page is usable again, unless a chip
\* was tapped meanwhile or a read failed.
LoadingEnds == loading ~> ~loading \/ meddled \/ failed
=============================================================================
