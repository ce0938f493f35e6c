---------------------------- MODULE PracticeExam ---------------------------
(***************************************************************************)
(* The practice exam: DenemeSinaviPage on the users' devices, the admin    *)
(* form that starts and removes the exam, and the Firestore documents they *)
(* share: practice_exams/active_exam and its subcollection results.        *)
(*                                                                         *)
(* Every await of the page is a step of its own: loading reads the exam    *)
(* and then the user's own result; finishTest waits for the user's name,   *)
(* for the result to be stored and for the leaderboard.  finishTest is     *)
(* re-entrant until the last of these sets hasUserTakenExam, and it keeps  *)
(* running after its page is gone.  Neither starting nor removing an exam  *)
(* touches the results.                                                    *)
(*                                                                         *)
(* Exams are numbered in the order they are started.  A score is           *)
(* represented by the answer sheet it was counted from.                    *)
(***************************************************************************)
EXTENDS Naturals, Sequences

CONSTANTS
  Users,
  Devices,
  Owner,       \* the user signed in on each device
  Jobs,        \* bound: finishTest calls of one device running at a time
  Questions,
  Options,
  Unanswered,  \* no option chosen yet
  Nothing,     \* a document that does not exist
  MaxExams     \* bound: how many exams the admin starts

ASSUME OwnerAssumption == Owner \in [Devices -> Users]
ASSUME ExamsAssumption == MaxExams \in Nat
ASSUME UnansweredAssumption == Unanswered \notin Options

Sheets  == [Questions -> Options \union {Unanswered}]
Blank   == [q \in Questions |-> Unanswered]
Complete(sheet) == \A q \in Questions : sheet[q] # Unanswered

\* A result document; version is not in the document, it is the exam that the
\* page graded the sheet against.
Entries == [version : Nat, scored : Sheets, answers : Sheets]
ASSUME NothingAssumption == Nothing \notin Entries

VARIABLES
  exam,      \* active_exam: the number of the exam, 0 when there is none
  published, \* how many exams were started
  ended,     \* the exams whose end_time has passed
  results,   \* the subcollection results: per user an entry or Nothing
  at,        \* per device: where its page is
  seen,      \* per device: examData, the exam the page loaded, 0 for null
  taken,     \* per device: hasUserTakenExam
  answers,   \* per device: selectedAnswers
  scored,    \* per device: the answers that score was computed from
  jobs,      \* per device: its running finishTest calls
  outbox,    \* per device: set() calls Firestore has queued, oldest first
  handedIn,  \* history: the <<user, exam, sheet>> triples of finishTest calls
  changed    \* history, per device: has the owner's entry changed since the
             \*   page read it?

vars == <<exam, published, ended, results, at, seen, taken, answers, scored,
          jobs, outbox, handedIn, changed>>

serverVars == <<exam, published, ended>>
pageVars   == <<at, seen, taken, answers, scored>>

Places == {"closed", "readExam", "readOwn", "stuck", "noExam", "topics",
           "expired", "answering"}

Idle   == [stage |-> "idle", mounted |-> FALSE, entry |-> Nothing]
JobSet == [stage : {"idle", "name", "sent", "stored"}, mounted : BOOLEAN,
           entry : Entries \union {Nothing}]

\* The entry that the mounted page of d would store now.
CurrentEntry(d) ==
  [version |-> seen[d], scored |-> scored[d], answers |-> answers[d]]

\* The running calls of d once their page is gone: what it held is frozen.
Orphaned(d) ==
  [j \in Jobs |->
     IF jobs[d][j].stage = "name" /\ jobs[d][j].mounted
     THEN [stage |-> "name", mounted |-> FALSE, entry |-> CurrentEntry(d)]
     ELSE [jobs[d][j] EXCEPT !.mounted = FALSE]]

\* Firestore answers reads from the server and the device's queued writes.
OwnResultExists(d) == results[Owner[d]] # Nothing \/ outbox[d] # <<>>

-----------------------------------------------------------------------------
Init ==
  /\ exam = 0
  /\ published = 0
  /\ ended = {}
  /\ results = [u \in Users |-> Nothing]
  /\ at = [d \in Devices |-> "closed"]
  /\ seen = [d \in Devices |-> 0]
  /\ taken = [d \in Devices |-> FALSE]
  /\ answers = [d \in Devices |-> Blank]
  /\ scored = [d \in Devices |-> Blank]
  /\ jobs = [d \in Devices |-> [j \in Jobs |-> Idle]]
  /\ outbox = [d \in Devices |-> <<>>]
  /\ handedIn = {}
  /\ changed = [d \in Devices |-> FALSE]

(* The admin and the clock *)

\* "Sınavı Başlat": active_exam is replaced, the results are left as they are.
StartExam ==
  /\ published < MaxExams
  /\ published' = published + 1
  /\ exam' = published + 1
  /\ UNCHANGED <<ended, results, pageVars, jobs, outbox, handedIn, changed>>

\* Faulty variant: the results are deleted with the exam.
RemoveExamAndResults ==
  /\ exam # 0
  /\ exam' = 0
  /\ results' = [u \in Users |-> Nothing]
  /\ UNCHANGED <<published, ended, pageVars, jobs, outbox, handedIn, changed>>

\* "Sınavı Kaldır": deleting a document does not delete its subcollections.
RemoveExam ==
  /\ exam # 0
  /\ exam' = 0
  /\ UNCHANGED <<published, ended, results, pageVars, jobs, outbox, handedIn,
                 changed>>

\* end_time passes, 24 hours after the start of each exam.
ExamEnds(v) ==
  /\ v \in 1..published /\ v \notin ended
  /\ \A w \in 1..published : w < v => w \in ended
  /\ ended' = ended \union {v}
  /\ UNCHANGED <<exam, published, results, pageVars, jobs, outbox, handedIn,
                 changed>>

(* Loading the page *)

\* The state of the page of d is disposed or created anew.
ResetPage(d, place) ==
  /\ at' = [at EXCEPT ![d] = place]
  /\ seen' = [seen EXCEPT ![d] = 0]
  /\ taken' = [taken EXCEPT ![d] = FALSE]
  /\ answers' = [answers EXCEPT ![d] = Blank]
  /\ scored' = [scored EXCEPT ![d] = Blank]
  /\ changed' = [changed EXCEPT ![d] = FALSE]

\* The page is opened and runs loadExam.
OpenPage(d) ==
  /\ at[d] = "closed"
  /\ ResetPage(d, "readExam")
  /\ UNCHANGED <<serverVars, results, jobs, outbox, handedIn>>

\* fetchActiveExam: a missing or ended exam reads as none.
ReadExam(d) ==
  /\ at[d] = "readExam"
  /\ at' = [at EXCEPT ![d] = "readOwn"]
  /\ seen' = [seen EXCEPT ![d] = IF exam \in ended THEN 0 ELSE exam]
  /\ UNCHANGED <<serverVars, results, taken, answers, scored, jobs, outbox,
                 handedIn, changed>>

\* Faulty variants of ReadOwnResult: a call that has sent nothing yet counts
\* as a result; only the device's own queue is looked at.
ReadOwnCalls(d) ==
  /\ at[d] = "readOwn"
  /\ at' = [at EXCEPT ![d] = IF seen[d] = 0 THEN "noExam" ELSE "topics"]
  /\ taken' = [taken EXCEPT ![d] = \E j \in Jobs : jobs[d][j].stage # "idle"]
  /\ changed' = [changed EXCEPT ![d] = FALSE]
  /\ UNCHANGED <<serverVars, results, seen, answers, scored, jobs, outbox,
                 handedIn>>

ReadOwnQueue(d) ==
  /\ at[d] = "readOwn"
  /\ at' = [at EXCEPT ![d] = IF seen[d] = 0 THEN "noExam" ELSE "topics"]
  /\ taken' = [taken EXCEPT ![d] = outbox[d] # <<>>]
  /\ changed' = [changed EXCEPT ![d] = FALSE]
  /\ UNCHANGED <<serverVars, results, seen, answers, scored, jobs, outbox,
                 handedIn>>

\* The leaderboard and then the user's own result are read; setState shows
\* the exam or the "no active exam" page.
ReadOwnResult(d) ==
  /\ at[d] = "readOwn"
  /\ at' = [at EXCEPT ![d] = IF seen[d] = 0 THEN "noExam" ELSE "topics"]
  /\ taken' = [taken EXCEPT ![d] = OwnResultExists(d)]
  /\ changed' = [changed EXCEPT ![d] = FALSE]
  /\ UNCHANGED <<serverVars, results, seen, answers, scored, jobs, outbox,
                 handedIn>>

\* A read throws: loadExam catches nothing, isLoading stays true.
LoadFails(d) ==
  /\ at[d] \in {"readExam", "readOwn"}
  /\ at' = [at EXCEPT ![d] = "stuck"]
  /\ UNCHANGED <<serverVars, results, seen, taken, answers, scored, jobs,
                 outbox, handedIn, changed>>

\* Back, or the redirection of the "no active exam" page after 3 seconds.
LeavePage(d) ==
  /\ at[d] # "closed"
  /\ ResetPage(d, "closed")
  /\ jobs' = [jobs EXCEPT ![d] = Orphaned(d)]
  /\ UNCHANGED <<serverVars, results, outbox, handedIn>>

\* The process of the device is killed.  Queued Firestore writes survive.
Kill(d) ==
  /\ ResetPage(d, "closed")
  /\ jobs' = [jobs EXCEPT ![d] =
                [j \in Jobs |-> IF @[j].stage = "sent"
                                THEN [@[j] EXCEPT !.mounted = FALSE]
                                ELSE Idle]]
  /\ UNCHANGED <<serverVars, results, outbox, handedIn>>

(* Taking the exam *)

\* The page compares end_time with the clock only when it is built: this
\* rebuild replaces the topics by the "süresi doldu" message.
ShowExpired(d) ==
  /\ at[d] = "topics" /\ seen[d] \in ended
  /\ at' = [at EXCEPT ![d] = "expired"]
  /\ UNCHANGED <<serverVars, results, seen, taken, answers, scored, jobs,
                 outbox, handedIn, changed>>

\* A topic is tapped; a user who has a result gets a message instead.
SelectTopic(d) ==
  /\ at[d] = "topics" /\ ~taken[d]
  /\ at' = [at EXCEPT ![d] = "answering"]
  /\ answers' = [answers EXCEPT ![d] = Blank]
  /\ scored' = [scored EXCEPT ![d] = Blank]
  /\ UNCHANGED <<serverVars, results, seen, taken, jobs, outbox, handedIn,
                 changed>>

\* An option is tapped, before, between or after taps on "Testi Bitir".
ChooseOption(d, q, o) ==
  /\ at[d] = "answering"
  /\ answers' = [answers EXCEPT ![d][q] = o]
  /\ UNCHANGED <<serverVars, results, at, seen, taken, scored, jobs, outbox,
                 handedIn, changed>>

(* finishTest *)

\* Faulty variant: the button is enabled before every question is answered.
FinishTestAnyTime(d, j) ==
  /\ at[d] = "answering" /\ ~taken[d]
  /\ jobs[d][j].stage = "idle"
  /\ scored' = [scored EXCEPT ![d] = answers[d]]
  /\ jobs' = [jobs EXCEPT ![d][j] =
                [stage |-> "name", mounted |-> TRUE, entry |-> Nothing]]
  /\ handedIn' = handedIn \union {<<Owner[d], seen[d], answers[d]>>}
  /\ UNCHANGED <<serverVars, results, at, seen, taken, answers, outbox,
                 changed>>

\* "Testi Bitir" up to the first await: the score is counted.  end_time and
\* the exam that is active by now are not looked at.
FinishTest(d, j) ==
  /\ at[d] = "answering" /\ ~taken[d]
  /\ Complete(answers[d])
  /\ jobs[d][j].stage = "idle"
  /\ scored' = [scored EXCEPT ![d] = answers[d]]
  /\ jobs' = [jobs EXCEPT ![d][j] =
                [stage |-> "name", mounted |-> TRUE, entry |-> Nothing]]
  /\ handedIn' = handedIn \union {<<Owner[d], seen[d], answers[d]>>}
  /\ UNCHANGED <<serverVars, results, at, seen, taken, answers, outbox,
                 changed>>

\* getUserFullName returns; set() is called with the score and the answers
\* the page holds by now, and Firestore queues it.
SendResult(d, j) ==
  /\ jobs[d][j].stage = "name"
  /\ jobs' = [jobs EXCEPT ![d][j].stage = "sent",
                          ![d][j].entry = IF jobs[d][j].mounted
                                          THEN CurrentEntry(d) ELSE @]
  /\ outbox' = [outbox EXCEPT ![d] = Append(@, j)]
  /\ UNCHANGED <<serverVars, results, pageVars, handedIn, changed>>

\* Faulty variant: the result of a page that is gone is thrown away.
StoreResultIfMounted(d) ==
  /\ outbox[d] # <<>>
  /\ LET j == Head(outbox[d])
     IN /\ results' = IF jobs[d][j].mounted
                     THEN [results EXCEPT ![Owner[d]] = jobs[d][j].entry]
                     ELSE results
        /\ jobs' = [jobs EXCEPT ![d][j].stage = "stored",
                                ![d][j].entry = Nothing]
  /\ outbox' = [outbox EXCEPT ![d] = Tail(@)]
  /\ changed' = [e \in Devices |-> changed[e] \/ Owner[e] = Owner[d]]
  /\ UNCHANGED <<serverVars, pageVars, handedIn>>

\* The server stores the oldest queued write, replacing any earlier result.
StoreResult(d) ==
  /\ outbox[d] # <<>>
  /\ LET j == Head(outbox[d])
     IN /\ results' = [results EXCEPT ![Owner[d]] = jobs[d][j].entry]
        /\ jobs' = [jobs EXCEPT ![d][j].stage = "stored",
                                ![d][j].entry = Nothing]
  /\ outbox' = [outbox EXCEPT ![d] = Tail(@)]
  /\ changed' = [e \in Devices |-> changed[e] \/ Owner[e] = Owner[d]]
  /\ UNCHANGED <<serverVars, pageVars, handedIn>>

\* The leaderboard arrives: hasUserTakenExam is set and the page is replaced
\* by a new one, which orphans the other calls of the old page.
ShowResult(d, j) ==
  /\ jobs[d][j].stage = "stored" /\ jobs[d][j].mounted
  /\ jobs' = [jobs EXCEPT ![d] = [Orphaned(d) EXCEPT ![j] = Idle]]
  /\ ResetPage(d, "readExam")
  /\ UNCHANGED <<serverVars, results, outbox, handedIn>>

\* The call ends without reaching its page: the name or the leaderboard could
\* not be read, or setState finds the page gone.
AbandonCall(d, j) ==
  /\ jobs[d][j].stage \in {"name", "stored"}
  /\ jobs' = [jobs EXCEPT ![d][j] = Idle]
  /\ UNCHANGED <<serverVars, results, pageVars, outbox, handedIn, changed>>

Next ==
  \/ StartExam
  \/ RemoveExam
  \/ \E v \in 1..published : ExamEnds(v)
  \/ \E d \in Devices :
       \/ OpenPage(d)
       \/ ReadExam(d)
       \/ ReadOwnResult(d)
       \/ LoadFails(d)
       \/ LeavePage(d)
       \/ Kill(d)
       \/ ShowExpired(d)
       \/ SelectTopic(d)
       \/ \E q \in Questions, o \in Options : ChooseOption(d, q, o)
       \/ \E j \in Jobs : FinishTest(d, j)
       \/ \E j \in Jobs : SendResult(d, j)
       \/ StoreResult(d)
       \/ \E j \in Jobs : ShowResult(d, j)
       \/ \E j \in Jobs : AbandonCall(d, j)

Spec == Init /\ [][Next]_vars

\* Firestore stores what it has queued.  Reads may fail, and nothing obliges a
\* user or the admin to act.
FairSpec == Spec /\ \A d \in Devices : WF_vars(StoreResult(d))

-----------------------------------------------------------------------------
(***************************************************************************)
(* Properties                                                              *)
(***************************************************************************)

\* Type correctness.
TypeOK ==
  /\ exam \in Nat /\ published \in Nat /\ ended \subseteq Nat
  /\ results \in [Users -> Entries \union {Nothing}]
  /\ at \in [Devices -> Places]
  /\ seen \in [Devices -> Nat]
  /\ taken \in [Devices -> BOOLEAN]
  /\ answers \in [Devices -> Sheets]
  /\ scored \in [Devices -> Sheets]
  /\ jobs \in [Devices -> [Jobs -> JobSet]]
  /\ outbox \in [Devices -> Seq(Jobs)]
  /\ handedIn \subseteq Users \X Nat \X Sheets
  /\ changed \in [Devices -> BOOLEAN]

\* No partial sheet ever reaches the board, and the score of an entry was
\* counted from a sheet its user handed in for that very exam, however many
\* finishTest calls of however many pages and devices overlapped.
EntryWasHandedIn ==
  \A u \in Users : results[u] # Nothing =>
    /\ Complete(results[u].answers) /\ Complete(results[u].scored)
    /\ <<u, results[u].version, results[u].scored>> \in handedIn

\* A page that locks the user out does so because a result is stored, or
\* queued on the same device.
TakenIsBacked ==
  \A d \in Devices : at[d] # "closed" /\ taken[d] => OwnResultExists(d)

\* A page that lets a user in who has a result by now had read the results
\* before that result was stored: only a stale page can overwrite an entry.
RetakeNeedsStalePage ==
  \A d \in Devices :
    /\ at[d] \in {"topics", "answering"}
    /\ ~taken[d]
    /\ results[Owner[d]] # Nothing
    => changed[d]

\* Each queued write belongs to a call that waits for it, in no other stage:
\* no result is sent twice or dropped while its call believes it is on its way.
OutboxMatchesCalls ==
  \A d \in Devices :
    /\ \A i \in 1..Len(outbox[d]) : jobs[d][outbox[d][i]].stage = "sent"
    /\ \A i, k \in 1..Len(outbox[d]) : outbox[d][i] = outbox[d][k] => i = k
    /\ \A j \in Jobs : jobs[d][j].stage = "sent" =>
         \E i \in 1..Len(outbox[d]) : outbox[d][i] = j

\* Once set() was called the user gets a result, whatever happens to the page
\* or the process.
SentResultIsStored ==
  \A d \in Devices, j \in Jobs :
    jobs[d][j].stage = "sent" ~> results[Owner[d]] # Nothing

\* The result documents implement the promise of ResultsBoard.
Board == INSTANCE ResultsBoard WITH board <- results

\* Every step of admin, devices and server is a step of the promise or leaves
\* the results alone.
ImplementsBoard == Board!Spec

\* What the page says and the code does not keep: "Bu testi daha önce
\* çözdünüz." (denemeSinaviPage.dart:347) is shown to users who handed in a
\* sheet for the exam they see.
LockedOutMeansTaken ==
  \A d \in Devices : at[d] = "topics" /\ taken[d] =>
    \E t \in handedIn : t[1] = Owner[d] /\ t[2] = seen[d]
=============================================================================
