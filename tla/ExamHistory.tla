---------------------------- MODULE ExamHistory ---------------------------
(***************************************************************************)
(* SinavGecmisiPage on top of the practice exam: the page that lists the   *)
(* answers of one's own result, opened from the topics of the exam.        *)
(*                                                                         *)
(* It is given the exam the page below it has loaded and reads the result  *)
(* by itself, again on every rebuild, so that the two may be of different  *)
(* times.  While it is shown the page below is not touched, but the        *)
(* finishTest calls of earlier pages, the other devices and the admin go   *)
(* on.                                                                     *)
(***************************************************************************)
EXTENDS PracticeExam

VARIABLE
  history  \* per device: the history page and the entry it shows

historyVars == <<vars, history>>

Histories == [stage : {"closed", "reading", "shown"},
              entry : Entries \union {Nothing}]

NoHistory == [stage |-> "closed", entry |-> Nothing]

\* Faulty variant of OwnEntry: only the server is asked.
OwnEntryOnServer(d) == results[Owner[d]]

\* What d reads of its user's result: the device's own queued writes come
\* before what the server has stored.
OwnEntry(d) ==
  IF outbox[d] # <<>> THEN jobs[d][outbox[d][Len(outbox[d])]].entry
                      ELSE results[Owner[d]]

HistoryInit == Init /\ history = [d \in Devices |-> NoHistory]

\* The history button of the page that shows the topics, or that they expired.
OpenHistory(d) ==
  /\ at[d] \in {"topics", "expired"}
  /\ history[d].stage = "closed"
  /\ history' = [history EXCEPT ![d].stage = "reading"]
  /\ UNCHANGED vars

\* The result arrives, after the page was pushed or built again.  A read that
\* fails changes nothing: the page keeps what it shows.
HistoryRead(d) ==
  /\ history[d].stage # "closed"
  /\ history' = [history EXCEPT ![d] =
                   [stage |-> "shown", entry |-> OwnEntry(d)]]
  /\ UNCHANGED vars

CloseHistory(d) ==
  /\ history[d].stage # "closed"
  /\ history' = [history EXCEPT ![d] = NoHistory]
  /\ UNCHANGED vars

\* The process ends, with its pages.
KillHistory(d) ==
  /\ Kill(d)
  /\ history' = [history EXCEPT ![d] = NoHistory]

\* A step of the exam below: no user touches a page that is covered.
Below ==
  /\ Next
  /\ \A d \in Devices : history[d].stage # "closed" => at'[d] = at[d]
  /\ UNCHANGED history

HistoryNext ==
  \/ Below
  \/ \E d \in Devices :
       OpenHistory(d) \/ HistoryRead(d) \/ CloseHistory(d) \/ KillHistory(d)

\* Firestore stores what it has queued, whatever the devices show.
HistorySpec ==
  /\ HistoryInit /\ [][HistoryNext]_historyVars
  /\ \A d \in Devices : WF_historyVars(StoreResult(d) /\ UNCHANGED history)

-----------------------------------------------------------------------------
(***************************************************************************)
(* Properties                                                              *)
(***************************************************************************)

\* Type correctness; a history page lies on a page that shows its exam.
HistoryTypeOK ==
  /\ history \in [Devices -> Histories]
  /\ \A d \in Devices : history[d].stage # "closed" =>
       at[d] \in {"topics", "expired"} /\ seen[d] # 0

\* The two pages tell the same story.  A user whom the topics tell "Bu testi
\* daha önce çözdünüz." is never told "Henüz geçmiş kayıt yok.", and answers
\* are listed for a user who may still start only if the result was stored or
\* queued after the topics were read.
HistoryAgreesWithLock ==
  \A d \in Devices : history[d].stage = "shown" =>
    /\ taken[d] => history[d].entry # Nothing
    /\ history[d].entry # Nothing => taken[d] \/ changed[d] \/ outbox[d] # <<>>
=============================================================================
