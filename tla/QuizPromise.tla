---------------------------- MODULE QuizPromise ----------------------------
(***************************************************************************)
(* What taking a test promises, without timers, screens or routes: a test  *)
(* is opened once and left once.  Its answers change only while it is      *)
(* open.  What is added to the history of a test are copies of its answers *)
(* as they are at that moment; a record is never changed, and none is made *)
(* before the test is opened or after the last of its screens is gone.     *)
(* Between leaving a test and that moment records are still made: by a     *)
(* timer that fires on the way out, and by results that are built again.   *)
(***************************************************************************)
EXTENDS Sequences, SequencesExt

CONSTANTS
  Sessions,  \* the tests that are taken
  Answers    \* the answer sheets a record can hold

VARIABLES
  status,    \* per test: "new", "open", "left" or "over"
  sheet,     \* per test: its answers
  records    \* per test: the records made of it, oldest first

pvars == <<status, sheet, records>>

Statuses == {"new", "open", "left", "over"}

Init ==
  /\ status = [s \in Sessions |-> "new"]
  /\ sheet \in [Sessions -> Answers]
  /\ records = [s \in Sessions |-> <<>>]

Stays(s)    == status'[s] = status[s]
SameSheet(s) == sheet'[s] = sheet[s]
SameRecords(s) == records'[s] = records[s]

\* The only changes of status: forward, and to "over" from anywhere.
Advance(s) ==
  \/ status'[s] = "over"
  \/ status[s] = "new" /\ status'[s] = "open" /\ records[s] = <<>>
  \/ status[s] = "open" /\ status'[s] = "left"

\* What may happen to one test; several may be left, or saved, in one step.
Idle(s)   == Stays(s) /\ SameSheet(s) /\ SameRecords(s)
Move(s)   == Advance(s) /\ SameSheet(s) /\ SameRecords(s)
Answer(s) == status[s] = "open" /\ Stays(s) /\ SameRecords(s)
Record(s) == /\ status[s] \in {"open", "left"} /\ Stays(s) /\ SameSheet(s)
             /\ IsStrictPrefix(records[s], records'[s])
             /\ \A i \in (Len(records[s]) + 1)..Len(records'[s]) :
                  records'[s][i] = sheet[s]

Next ==
  /\ status' \in [Sessions -> Statuses]
  /\ sheet' \in [Sessions -> Answers]
  /\ records' \in [Sessions -> Seq(Answers)]
  /\ \A s \in Sessions : Idle(s) \/ Move(s) \/ Answer(s) \/ Record(s)

Spec == Init /\ [][Next]_pvars
=============================================================================
