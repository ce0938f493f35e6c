---------------------------- MODULE QuizHistory ---------------------------
(***************************************************************************)
(* The tests of QuizSession together with the store of their results: what *)
(* a ResultScreen saves when it is built goes to ResultStore, whose        *)
(* history page is one more page above the home page.                      *)
(*                                                                         *)
(* A test that was started before the history page was opened is pushed    *)
(* above that page and above its dialogs, and runs, ends and saves its     *)
(* result there, maybe while the platform is still removing the results    *)
(* the user cleared.  A restart ends the tests and keeps what was stored.  *)
(***************************************************************************)
EXTENDS QuizSession, ResultStore

CONSTANT
  Timed       \* bound: the tests that may be started with a timer

VARIABLES
  latest,     \* history, per test: the number of the last result it saved, 0 if
              \*   none, or once the test is closed and no ResultScreen of it
              \*   is on the stack
  overlapped, \* history, per test: that result was saved during a clear
  undone      \* history: a save or deletion overlapped a clear, or the process
              \*   ended with writes in flight

ASSUME SessionsAssumption == IsFiniteSet(Sessions)

historyVars == <<latest, overlapped, undone>>
allVars     == <<vars, storeVars, historyVars>>

ResultRoutes == {i \in 1..Len(stack) : \E s \in Sessions : stack[i] = Result(s)}

\* Faulty variant of HistoryOnTop: what covers the page lets taps through.
HistoryBelow == TRUE

\* The history page, or a dialog of it, is not covered by a test: like every
\* page of the drawer it lies directly on the home page.
HistoryOnTop == stack = <<Home>>

QuizInit ==
  /\ Init
  /\ StoreInit
  /\ latest = [s \in Sessions |-> 0]
  /\ overlapped = [s \in Sessions |-> FALSE]
  /\ undone = FALSE

\* What was saved for a test is of no interest once the test is closed and no
\* results of it are shown.
ForgetClosed ==
  LET Gone(s) == phase'[s] = "closed" /\ ResultsOf(s)' = {}
  IN  /\ latest' = [s \in Sessions |-> IF Gone(s) THEN 0 ELSE latest[s]]
      /\ overlapped' = [s \in Sessions |-> ~Gone(s) /\ overlapped[s]]

\* Steps of the tests that save nothing; tests are started from the home page
\* only.
TestStep ==
  /\ \E s \in Sessions :
       \/ page = "closed" /\ StartTest(s)
       \/ \E timed \in BOOLEAN :
            (timed => s \in Timed) /\ QuestionsArrive(s, timed)
       \/ NoQuestions(s)
       \/ \E q \in Questions, o \in Options : ChooseOption(s, q, o)
       \/ Tick(s)
       \/ BackFromResult(s)
       \/ BackFromTest(s)
       \/ DisposeTest(s)
       \/ DisposeResult(s)
  /\ ForgetClosed
  /\ UNCHANGED <<storeVars, undone>>

\* A ResultScreen is pushed, by the button or by the timer, and saves.
Pushed(s) ==
  /\ SaveTestResult
  /\ latest' = [latest EXCEPT ![s] = saved + 1]
  /\ overlapped' = [overlapped EXCEPT ![s] = ClearPending]
  /\ undone' = (undone \/ ClearPending)

\* The bound on results leaves room for every timer that can still fire.
Room(n) ==
  saved + n + Cardinality({s \in Timed : ~timedOut[s]}) <= MaxResults

FinishAndSave(s) == Room(1) /\ FinishTest(s) /\ Pushed(s)

TimeOutAndSave(s) == TimeOut(s) /\ Pushed(s)

\* Every mounted ResultScreen is built again: each adds a result to the list and
\* writes the list, those of the stack from its bottom to its top.  The ones on
\* their way out may come before, between or after them.
RebuildAndSave ==
  LET out == Cardinality(LeavingResults)
      n == Cardinality(ResultRoutes) + out
      WithNew(k) == memory \o [i \in 1..k |-> saved + i]
      Highest(s) == CHOOSE i \in ResultsOf(s) : \A j \in ResultsOf(s) : j <= i
      Upto(i) == {j \in ResultRoutes : j <= i}
  IN /\ RebuildResults
     /\ Room(n) /\ Len(writes) + n <= MaxWrites
     /\ saved' = saved + n
     /\ memory' = WithNew(n)
     /\ cache' = WithNew(n)
     /\ writes' = writes \o [k \in 1..n |-> WithNew(k)]
     /\ inSync' = ~ClearPending
     /\ \E before \in 0..out :
          latest' = [s \in Sessions |->
                       IF ResultsOf(s) = {} THEN latest[s]
                       ELSE saved + before + Cardinality(Upto(Highest(s)))]
     /\ overlapped' = [s \in Sessions |->
                         IF ResultsOf(s) = {} THEN overlapped[s]
                         ELSE ClearPending]
     /\ undone' = (undone \/ ClearPending)
     /\ UNCHANGED <<disk, page, dialog, removed, target>>

\* "Ana Menü" removes the history page and its dialog with all others.
MainMenuAll ==
  /\ MainMenu
  /\ page' = "closed"
  /\ dialog' = 0
  /\ target' = 0
  /\ ForgetClosed
  /\ UNCHANGED <<memory, cache, disk, writes, saved, removed, inSync, undone>>

\* The history page is opened and used, when nothing covers it.
HistoryStep ==
  /\ HistoryOnTop
  /\ \/ LoadTestResults
     \/ CloseHistory
     \/ \E i \in 1..Len(memory) : AskDelete(i)
     \/ CancelDelete
     \/ DeleteOutOfRange
     \/ ClearTestResults
  /\ UNCHANGED <<vars, historyVars>>

DeleteOne ==
  /\ HistoryOnTop
  /\ DeleteTestResultAt
  /\ undone' = (undone \/ ClearPending)
  /\ UNCHANGED <<vars, latest, overlapped>>

\* The platform completes a write, whatever is shown.
FlushStep == Flush /\ UNCHANGED <<vars, historyVars>>

\* The process ends and starts again: the tests under way are gone.
RestartAll ==
  /\ Restart
  /\ stack' = <<Home>>
  /\ phase' = [s \in Sessions |->
                 IF phase[s] = "unused" THEN "unused" ELSE "closed"]
  /\ exiting' = [s \in Sessions |-> 0]
  /\ running' = [s \in Sessions |-> FALSE]
  /\ undone' = (undone \/ writes # <<>>)
  /\ ForgetClosed
  /\ UNCHANGED <<answers, remaining, records, timedOut>>

QuizNext ==
  \/ TestStep
  \/ \E s \in Sessions : FinishAndSave(s) \/ TimeOutAndSave(s)
  \/ RebuildAndSave
  \/ MainMenuAll
  \/ HistoryStep
  \/ DeleteOne
  \/ FlushStep
  \/ RestartAll

QuizSafeSpec == QuizInit /\ [][QuizNext]_allVars

\* Timers keep firing and the platform answers.
QuizSpec ==
  /\ QuizSafeSpec
  /\ \A s \in Sessions :
       WF_allVars((Tick(s) /\ UNCHANGED <<storeVars, historyVars>>)
                  \/ TimeOutAndSave(s))
  /\ WF_allVars(FlushStep)

-----------------------------------------------------------------------------
(***************************************************************************)
(* Properties                                                              *)
(***************************************************************************)

\* The result that a ResultScreen shows is in the list of the process and in
\* the preferences as long as it is shown, so that the history page will list
\* it, unless it was saved while a clear was under way.
ShownIsKept ==
  \A s \in Sessions : Top = Result(s) /\ ~overlapped[s] =>
    /\ latest[s] \in ToSet(memory)
    /\ latest[s] \in ToSet(Contents(cache))

\* What the user deleted, one result or all, does not come back, however tests
\* that end above the history page, loads and restarts follow: only a save or a
\* deletion during a clear, or the end of the process with writes in flight,
\* brings it back.
DeletedStaysDeleted ==
  ~undone => removed \cap ToSet(Contents(cache)) = {}

\* A timed test that is left alone ends with its result on the disk, without
\* anything the user does, also when clears and deletions are under way: only
\* leaving the test, or the end of the process, prevents it.
TimedTestIsStored ==
  \A s \in Sessions :
    running[s] ~> \/ latest[s] \in ToSet(Contents(disk))
                  \/ phase[s] \in {"leaving", "closed"}
=============================================================================
