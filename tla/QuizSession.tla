---------------------------- MODULE QuizSession ----------------------------
(***************************************************************************)
(* Taking a test: the home page that starts it, TestScreen with its timer, *)
(* ResultScreen, and the navigator stack they are pushed on.               *)
(*                                                                         *)
(* Starting a test waits for its questions, so two tests can be loading at *)
(* once and a TestScreen is pushed on whatever is on top by then.  A       *)
(* TestScreen stays mounted, and its timer keeps running, while a          *)
(* ResultScreen or another TestScreen covers it.  ResultScreen shares the  *)
(* answer map of its TestScreen and saves a result in build, so it saves   *)
(* again on every rebuild.                                                 *)
(*                                                                         *)
(* A route that is popped or removed leaves the navigator's list at once,  *)
(* but its page stays mounted until a transition has ended: the popped     *)
(* page's own, or that of the page that replaced it.  Transitions need     *)
(* frames and timers do not, so that any number of ticks fits in (the app  *)
(* may be in the background).  Until dispose cancels it, the timer of a    *)
(* test that was left can run out and push a ResultScreen, and a page that *)
(* is still mounted is built again with the others.                        *)
(*                                                                         *)
(* A saved result is the answer sheet it was computed from: the score is a *)
(* function of it.  What becomes of the saved results is ResultStore.      *)
(***************************************************************************)
EXTENDS Naturals, Sequences, SequencesExt

CONSTANTS
  Sessions,    \* the tests that are started, each once
  Questions,   \* the questions of a test
  Options,     \* the options of a question
  Unanswered,  \* no option chosen yet
  Duration,    \* the ticks a timer counts down
  MaxRecords,  \* bound: records per test before the user stops making more
  MaxExiting   \* bound: removed ResultScreens mounted at the same time

ASSUME DurationAssumption ==
  Duration \in Nat /\ MaxRecords \in Nat /\ MaxExiting \in Nat
ASSUME UnansweredAssumption == Unanswered \notin Options

VARIABLES
  stack,      \* the navigator: routes, the bottom one first
  phase,      \* per test: "unused", "loading" (its questions), "stranded" (the
              \*   same, by a home page that was removed), "open", "leaving"
              \*   (its TestScreen was removed and is still mounted), "closed"
  exiting,    \* per test: its ResultScreens that were removed and are still
              \*   mounted
  answers,    \* per test: _selectedAnswers, shared with its ResultScreens
  running,    \* per test: is its Timer active?
  remaining,  \* per test: _remainingTime
  records,    \* per test: what saveTestResult was called with, oldest first
  timedOut    \* history, per test: its timer has run out

vars == <<stack, phase, exiting, answers, running, remaining, records,
          timedOut>>

Home      == <<"home">>
Test(s)   == <<"test", s>>
Result(s) == <<"result", s>>
Routes    == {Home} \union {Test(s) : s \in Sessions}
                    \union {Result(s) : s \in Sessions}

Sheets   == [Questions -> Options \union {Unanswered}]
Blank    == [q \in Questions |-> Unanswered]
Complete(sheet) == \A q \in Questions : sheet[q] # Unanswered

Phases   == {"unused", "loading", "stranded", "open", "leaving", "closed"}

Top      == stack[Len(stack)]
OnStack(route) == \E i \in 1..Len(stack) : stack[i] = route
ResultsOf(s) == {i \in 1..Len(stack) : stack[i] = Result(s)}

\* How many ResultScreens of a test are mounted.
Mounted(s) == Cardinality(ResultsOf(s)) + exiting[s]

\* The removed ones of all tests, numbered within each.
LeavingResults == UNION {{s} \X (1..exiting[s]) : s \in Sessions}

-----------------------------------------------------------------------------
Init ==
  /\ stack = <<Home>>
  /\ phase = [s \in Sessions |-> "unused"]
  /\ exiting = [s \in Sessions |-> 0]
  /\ answers = [s \in Sessions |-> Blank]
  /\ running = [s \in Sessions |-> FALSE]
  /\ remaining = [s \in Sessions |-> 0]
  /\ records = [s \in Sessions |-> <<>>]
  /\ timedOut = [s \in Sessions |-> FALSE]

\* "Testi Başlat" in the options sheet: the sheet is popped and _startTest
\* begins to wait for the questions; the home page stays usable.
StartTest(s) ==
  /\ Top = Home
  /\ phase[s] = "unused"
  /\ phase' = [phase EXCEPT ![s] = "loading"]
  /\ UNCHANGED <<stack, exiting, answers, running, remaining, records, timedOut>>

\* The questions arrive and TestScreen is pushed on whatever is on top.  The
\* timer settings are read only now, so they are whatever the sheet holds by
\* then.  initState starts the timer.  A removed home page that is still mounted
\* pushes too.
QuestionsArrive(s, timed) ==
  /\ phase[s] \in {"loading", "stranded"}
  /\ phase' = [phase EXCEPT ![s] = "open"]
  /\ stack' = Append(stack, Test(s))
  /\ running' = [running EXCEPT ![s] = timed]
  /\ remaining' = [remaining EXCEPT ![s] = IF timed THEN Duration ELSE 0]
  /\ UNCHANGED <<exiting, answers, records, timedOut>>

\* No questions online or stored: a message, and nothing is pushed.
NoQuestions(s) ==
  /\ phase[s] \in {"loading", "stranded"}
  /\ phase' = [phase EXCEPT ![s] = "closed"]
  /\ UNCHANGED <<stack, exiting, answers, running, remaining, records, timedOut>>

\* An option of the visible test is tapped; a later tap replaces the choice.
ChooseOption(s, q, o) ==
  /\ Top = Test(s)
  /\ answers' = [answers EXCEPT ![s][q] = o]
  /\ UNCHANGED <<stack, phase, exiting, running, remaining, records, timedOut>>

\* Faulty variants of NavigateToResultScreen: pushReplacement under a timer
\* that is not cancelled; a ResultScreen that saves nothing.
ReplaceByResultScreen(s) ==
  /\ stack' = Append(Front(stack), Result(s))
  /\ records' = [records EXCEPT ![s] = Append(@, answers[s])]

NavigateWithoutSaving(s) ==
  /\ stack' = Append(stack, Result(s))
  /\ UNCHANGED records

\* _navigateToResultScreen: ResultScreen is pushed and built, which saves.
NavigateToResultScreen(s) ==
  /\ stack' = Append(stack, Result(s))
  /\ records' = [records EXCEPT ![s] = Append(@, answers[s])]

\* Faulty variant: the button is enabled from the start.
FinishTestAnyTime(s) ==
  /\ Top = Test(s)
  /\ Len(records[s]) < MaxRecords
  /\ NavigateToResultScreen(s)
  /\ UNCHANGED <<phase, exiting, answers, running, remaining, timedOut>>

\* "Testi Bitir", enabled once every question has an answer.  It does not
\* stop the timer and does not replace the TestScreen.
FinishTest(s) ==
  /\ Top = Test(s)
  /\ Complete(answers[s])
  /\ Len(records[s]) < MaxRecords
  /\ NavigateToResultScreen(s)
  /\ UNCHANGED <<phase, exiting, answers, running, remaining, timedOut>>

\* Faulty variant: the countdown does not stop at zero.
TickPastZero(s) ==
  /\ running[s]
  /\ remaining' = [remaining EXCEPT ![s] = @ - 1]
  /\ UNCHANGED <<stack, phase, exiting, answers, running, records, timedOut>>

\* A second passes for a running timer, whatever covers its screen, and also
\* while the screen of a test that was left is still mounted.
Tick(s) ==
  /\ running[s] /\ remaining[s] > 0
  /\ remaining' = [remaining EXCEPT ![s] = @ - 1]
  /\ UNCHANGED <<stack, phase, exiting, answers, running, records, timedOut>>

\* Faulty variant: the timer is not cancelled when it fires.
TimeOutNoCancel(s) ==
  /\ running[s] /\ remaining[s] = 0
  /\ timedOut' = [timedOut EXCEPT ![s] = TRUE]
  /\ NavigateToResultScreen(s)
  /\ UNCHANGED <<phase, exiting, answers, running, remaining>>

\* The timer fires with no time left: it is cancelled and the results are
\* pushed on top of whatever is shown, the page the user left for included.
TimeOut(s) ==
  /\ running[s] /\ remaining[s] = 0
  /\ running' = [running EXCEPT ![s] = FALSE]
  /\ timedOut' = [timedOut EXCEPT ![s] = TRUE]
  /\ NavigateToResultScreen(s)
  /\ UNCHANGED <<phase, exiting, answers, remaining>>

\* The screen turns, the keyboard opens, the theme changes: every mounted
\* ResultScreen, covered or not, is built again and saves again.
RebuildResults ==
  /\ \E s \in Sessions : Mounted(s) > 0
  /\ \A s \in Sessions : Mounted(s) > 0 => Len(records[s]) < MaxRecords
  /\ records' = [s \in Sessions |->
                   records[s] \o [i \in 1..Mounted(s) |-> answers[s]]]
  /\ UNCHANGED <<stack, phase, exiting, answers, running, remaining, timedOut>>

\* The system back button on a ResultScreen: its TestScreen, or whatever else
\* lies below it, is shown again.
BackFromResult(s) ==
  /\ Top = Result(s)
  /\ stack' = Front(stack)
  /\ exiting' = [exiting EXCEPT ![s] = @ + 1]
  /\ Cardinality(LeavingResults') <= MaxExiting
  /\ UNCHANGED <<phase, answers, running, remaining, records, timedOut>>

\* Back from a TestScreen; its timer goes on until dispose.
BackFromTest(s) ==
  /\ Top = Test(s)
  /\ stack' = Front(stack)
  /\ phase' = [phase EXCEPT ![s] = "leaving"]
  /\ UNCHANGED <<exiting, answers, running, remaining, records, timedOut>>

\* "Ana Menü": pushAndRemoveUntil leaves a new home page only.  The removed
\* pages stay mounted until the new one has come in: the TestScreens with their
\* timers, the ResultScreens, and the home page that waits for questions.
MainMenu ==
  /\ \E s \in Sessions : Top = Result(s)
  /\ stack' = <<Home>>
  /\ phase' = [s \in Sessions |->
                 CASE phase[s] = "open"    -> "leaving"
                   [] phase[s] = "loading" -> "stranded"
                   [] OTHER                -> phase[s]]
  /\ exiting' = [s \in Sessions |-> Mounted(s)]
  /\ Cardinality(LeavingResults') <= MaxExiting
  /\ UNCHANGED <<answers, running, remaining, records, timedOut>>

\* Faulty variant: dispose leaves the timer running.
DisposeTestNoCancel(s) ==
  /\ phase[s] \in {"leaving", "stranded"}
  /\ phase' = [phase EXCEPT ![s] = "closed"]
  /\ UNCHANGED <<stack, exiting, answers, running, remaining, records, timedOut>>

\* A transition has ended.  The TestScreen is disposed, which cancels its timer,
\* or the home page is, which will push no test any more.
DisposeTest(s) ==
  /\ phase[s] \in {"leaving", "stranded"}
  /\ phase' = [phase EXCEPT ![s] = "closed"]
  /\ running' = [running EXCEPT ![s] = FALSE]
  /\ UNCHANGED <<stack, exiting, answers, remaining, records, timedOut>>

\* A transition has ended: a ResultScreen is unmounted.
DisposeResult(s) ==
  /\ exiting[s] > 0
  /\ exiting' = [exiting EXCEPT ![s] = @ - 1]
  /\ UNCHANGED <<stack, phase, answers, running, remaining, records, timedOut>>

Next ==
  \/ \E s \in Sessions :
       \/ StartTest(s)
       \/ \E timed \in BOOLEAN : QuestionsArrive(s, timed)
       \/ NoQuestions(s)
       \/ \E q \in Questions, o \in Options : ChooseOption(s, q, o)
       \/ FinishTest(s)
       \/ Tick(s)
       \/ TimeOut(s)
       \/ BackFromResult(s)
       \/ BackFromTest(s)
       \/ DisposeTest(s)
       \/ DisposeResult(s)
  \/ RebuildResults
  \/ MainMenu

Spec == Init /\ [][Next]_vars

-----------------------------------------------------------------------------
(***************************************************************************)
(* Properties                                                              *)
(***************************************************************************)

\* Type correctness.
TypeOK ==
  /\ stack \in Seq(Routes)
  /\ phase \in [Sessions -> Phases]
  /\ exiting \in [Sessions -> Nat]
  /\ answers \in [Sessions -> Sheets]
  /\ running \in [Sessions -> BOOLEAN]
  /\ remaining \in [Sessions -> Nat]
  /\ records \in [Sessions -> Seq(Sheets)]
  /\ timedOut \in [Sessions -> BOOLEAN]

\* A TestScreen is on the stack exactly while its test is open, once, and a
\* ResultScreen lies above the TestScreen whose answers it shares: going back
\* from results never shows a test that was disposed.  A ResultScreen without
\* its TestScreen is one that the timer pushed after its test was left.
ResultAboveItsTest ==
  /\ \A s \in Sessions : phase[s] = "open" <=> OnStack(Test(s))
  /\ \A i, j \in 1..Len(stack) : \A s \in Sessions :
       /\ stack[i] = Test(s) /\ stack[j] = Test(s) => i = j
       /\ stack[i] = Test(s) /\ stack[j] = Result(s) => i < j
       /\ stack[j] = Result(s) =>
            \/ OnStack(Test(s))
            \/ timedOut[s] /\ phase[s] \in {"leaving", "closed"}

\* A timer only runs for a screen that is mounted and fires once; at most two
\* ResultScreens of one test are ever stacked, one by the button and one by the
\* timer, and above a test that was left at most the one by the timer.
AtMostTwoResults ==
  \A s \in Sessions :
    /\ running[s] => phase[s] \in {"open", "leaving"} /\ ~timedOut[s]
    /\ Cardinality(ResultsOf(s)) <=
         IF timedOut[s] /\ phase[s] = "open" THEN 2 ELSE 1

\* What a ResultScreen on top shows is what was last saved for its test, even
\* after the user went back, changed answers and finished again.
ShownIsRecorded ==
  \A s \in Sessions :
    Top = Result(s) => records[s] # <<>> /\ Last(records[s]) = answers[s]

\* An incomplete answer sheet is only ever recorded by a timer that ran out.
PartialOnlyByTimeOut ==
  \A s \in Sessions : \A i \in 1..Len(records[s]) :
    ~Complete(records[s][i]) => timedOut[s]

\* Where a test is in the life that QuizPromise gives it: it is over once none
\* of its screens is shown or mounted.
Status(s) ==
  CASE phase[s] \in {"unused", "loading", "stranded"} -> "new"
    [] phase[s] = "open"                              -> "open"
    [] phase[s] = "closed" /\ Mounted(s) = 0          -> "over"
    [] OTHER                                          -> "left"

Promise == INSTANCE QuizPromise WITH
             Answers <- Sheets,
             sheet <- answers,
             status <- [s \in Sessions |-> Status(s)]

\* Every behaviour of the screens, timers and routes is one of the promise.
ImplementsPromise == Promise!Spec
=============================================================================
