------------------------- MODULE ExamHistory_proof -------------------------
(***************************************************************************)
(* Proofs about PracticeExam and, built on them, about ExamHistory, for    *)
(* any users, devices, finishTest calls, questions, options and number of  *)
(* exams: the safety invariants of the runs, and that the detailed exam    *)
(* implements the abstract ResultsBoard.                                   *)
(*                                                                         *)
(* The exam alone comes first.  Below its history page it goes on as       *)
(* before, so that its inductive invariant is also one of the composition. *)
(***************************************************************************)
EXTENDS ExamHistory, SequenceTheorems, TLAPS

-----------------------------------------------------------------------------
(***************************************************************************)
(* The exam alone: its inductive invariant                                 *)
(***************************************************************************)

\* An entry that may be stored for the user of d: complete, and scored from a
\* sheet that was handed in.
Backed(d, e) ==
  /\ e \in Entries
  /\ Complete(e.answers) /\ Complete(e.scored)
  /\ <<Owner[d], e.version, e.scored>> \in handedIn

\* A call that waits for the user's name holds, or will take from its page, an
\* entry that may be stored; a call that was sent holds one.
CallsBacked ==
  \A d \in Devices, j \in Jobs :
    /\ jobs[d][j].stage = "name" /\ jobs[d][j].mounted =>
         at[d] = "answering" /\ Backed(d, CurrentEntry(d))
    /\ \/ jobs[d][j].stage = "name" /\ ~jobs[d][j].mounted
       \/ jobs[d][j].stage = "sent"
       => Backed(d, jobs[d][j].entry)

IInv ==
  /\ TypeOK
  /\ CallsBacked
  /\ OutboxMatchesCalls
  /\ EntryWasHandedIn
  /\ TakenIsBacked
  /\ RetakeNeedsStalePage

-----------------------------------------------------------------------------
(* Lemmas *)

\* What a page holds is an entry.
LEMMA CurrentEntryType ==
  ASSUME TypeOK, NEW d \in Devices
  PROVE  /\ CurrentEntry(d) \in Entries
         /\ CurrentEntry(d).version = seen[d]
         /\ CurrentEntry(d).scored = scored[d]
         /\ CurrentEntry(d).answers = answers[d]
BY DEF CurrentEntry, Entries, TypeOK

\* A stored entry is never the missing document.
LEMMA BackedIsSomething ==
  ASSUME NEW d \in Devices, NEW e, Backed(d, e)
  PROVE  e # Nothing
BY NothingAssumption DEF Backed

\* The calls of a page that is gone keep their stages and what they will store.
LEMMA OrphanedCalls ==
  ASSUME TypeOK, CallsBacked, NEW d \in Devices
  PROVE  /\ Orphaned(d) \in [Jobs -> JobSet]
         /\ \A j \in Jobs :
              /\ Orphaned(d)[j].stage = jobs[d][j].stage
              /\ ~Orphaned(d)[j].mounted
              /\ jobs[d][j].stage \in {"name", "sent"} =>
                   Backed(d, Orphaned(d)[j].entry)
<1>1. /\ CurrentEntry(d) \in Entries
      /\ \A j \in Jobs : jobs[d][j] \in JobSet
  BY CurrentEntryType DEF TypeOK
<1>2. ASSUME NEW j \in Jobs
      PROVE  /\ Orphaned(d)[j] \in JobSet
             /\ Orphaned(d)[j].stage = jobs[d][j].stage
             /\ ~Orphaned(d)[j].mounted
             /\ jobs[d][j].stage \in {"name", "sent"} =>
                  Backed(d, Orphaned(d)[j].entry)
  <2>1. CASE jobs[d][j].stage = "name" /\ jobs[d][j].mounted
    <3>1. Orphaned(d)[j] =
            [stage |-> "name", mounted |-> FALSE, entry |-> CurrentEntry(d)]
      BY <2>1 DEF Orphaned
    <3>2. Backed(d, CurrentEntry(d))
      BY <2>1 DEF CallsBacked
    <3> QED
      BY <3>1, <3>2, <2>1, <1>1 DEF JobSet
  <2>2. CASE ~(jobs[d][j].stage = "name" /\ jobs[d][j].mounted)
    <3>1. Orphaned(d)[j] = [jobs[d][j] EXCEPT !.mounted = FALSE]
      BY <2>2 DEF Orphaned
    <3>2. /\ Orphaned(d)[j] \in JobSet
          /\ Orphaned(d)[j].stage = jobs[d][j].stage
          /\ Orphaned(d)[j].entry = jobs[d][j].entry
          /\ ~Orphaned(d)[j].mounted
      BY <3>1, <1>1 DEF JobSet
    <3> QED
      BY <3>2, <2>2 DEF CallsBacked
  <2> QED
    BY <2>1, <2>2
<1> QED
  BY <1>2 DEF Orphaned

\* Queue and calls keep matching as long as the same calls are sent.
LEMMA SameCallsSent ==
  ASSUME TypeOK, OutboxMatchesCalls, UNCHANGED outbox,
         \A d \in Devices, j \in Jobs :
           jobs'[d][j].stage = "sent" <=> jobs[d][j].stage = "sent"
  PROVE  OutboxMatchesCalls'
<1>1. \A d \in Devices : \A i \in 1..Len(outbox[d]) : outbox[d][i] \in Jobs
  BY DEF TypeOK
<1> QED
  BY <1>1 DEF OutboxMatchesCalls

\* The page invariants keep holding while results and queues stay the same and
\* pages are only left or begin to load.
LEMMA SamePages ==
  ASSUME TakenIsBacked, RetakeNeedsStalePage,
         UNCHANGED <<results, outbox>>,
         \A d \in Devices :
           \/ at'[d] = at[d] /\ taken'[d] = taken[d] /\ changed'[d] = changed[d]
           \/ at'[d] \in {"closed", "readExam"} /\ ~taken'[d]
  PROVE  TakenIsBacked' /\ RetakeNeedsStalePage'
BY DEF TakenIsBacked, RetakeNeedsStalePage, OwnResultExists

\* The stored entries stay handed in while the results stay the same.
LEMMA SameResults ==
  ASSUME EntryWasHandedIn, UNCHANGED results, handedIn \subseteq handedIn'
  PROVE  EntryWasHandedIn'
BY DEF EntryWasHandedIn, Complete

\* Calls that do not change keep what they need while their page stays.
LEMMA SameCalls ==
  ASSUME CallsBacked, UNCHANGED <<seen, answers, scored, jobs>>,
         handedIn \subseteq handedIn',
         \A d \in Devices : at[d] = "answering" => at'[d] = "answering"
  PROVE  CallsBacked'
BY DEF CallsBacked, Backed, CurrentEntry, Complete

-----------------------------------------------------------------------------
\* The initial state satisfies the inductive invariant.
LEMMA InitIInv == Init => IInv
<1> SUFFICES ASSUME Init PROVE IInv
  OBVIOUS
<1>1. Blank \in Sheets
  BY DEF Blank, Sheets
<1>2. Idle \in JobSet /\ Idle.stage = "idle"
  BY DEF Idle, JobSet
<1>3. outbox = [d \in Devices |-> <<>>] /\ outbox \in [Devices -> Seq(Jobs)]
  BY EmptySeq DEF Init
<1>4. TypeOK
  BY <1>1, <1>2, <1>3 DEF Init, TypeOK, Places
<1>5. \A d \in Devices, j \in Jobs : jobs[d][j].stage = "idle"
  BY <1>2 DEF Init
<1>6. CallsBacked
  BY <1>5 DEF CallsBacked
<1>7. OutboxMatchesCalls
  BY <1>3, <1>5 DEF OutboxMatchesCalls
<1>8. EntryWasHandedIn /\ TakenIsBacked /\ RetakeNeedsStalePage
  BY DEF Init, EntryWasHandedIn, TakenIsBacked, RetakeNeedsStalePage
<1> QED
  BY <1>4, <1>6, <1>7, <1>8 DEF IInv

-----------------------------------------------------------------------------
\* A page that is disposed or created anew.
LEMMA ResetStep ==
  ASSUME TypeOK, NEW d \in Devices, NEW place \in {"closed", "readExam"},
         ResetPage(d, place)
  PROVE  /\ at' \in [Devices -> Places]
         /\ seen' \in [Devices -> Nat]
         /\ taken' \in [Devices -> BOOLEAN]
         /\ answers' \in [Devices -> Sheets]
         /\ scored' \in [Devices -> Sheets]
         /\ changed' \in [Devices -> BOOLEAN]
         /\ at'[d] = place /\ ~taken'[d]
         /\ \A e \in Devices \ {d} :
              /\ at'[e] = at[e] /\ seen'[e] = seen[e] /\ taken'[e] = taken[e]
              /\ answers'[e] = answers[e] /\ scored'[e] = scored[e]
              /\ changed'[e] = changed[e]
<1>1. Blank \in Sheets
  BY DEF Blank, Sheets
<1> QED
  BY <1>1 DEF ResetPage, TypeOK, Places

\* The steps of the admin and of the clock, and stuttering.
LEMMA AdminStep ==
  ASSUME IInv,
         \/ StartExam
         \/ RemoveExam
         \/ \E v \in 1..published : ExamEnds(v)
         \/ UNCHANGED vars
  PROVE  IInv'
<1> USE DEF IInv
<1>1. UNCHANGED <<results, pageVars, jobs, outbox, handedIn, changed>>
  BY DEF StartExam, RemoveExam, ExamEnds, vars, pageVars
<1>2. exam' \in Nat /\ published' \in Nat /\ ended' \subseteq Nat
  <2>1. CASE StartExam
    BY <2>1 DEF StartExam, TypeOK
  <2>2. CASE RemoveExam
    BY <2>2 DEF RemoveExam, TypeOK
  <2>3. CASE \E v \in 1..published : ExamEnds(v)
    BY <2>3 DEF ExamEnds, TypeOK
  <2>4. CASE UNCHANGED vars
    BY <2>4 DEF vars, TypeOK
  <2> QED
    BY <2>1, <2>2, <2>3, <2>4
<1>7. TypeOK'
  BY <1>1, <1>2 DEF pageVars, TypeOK
<1>3. CallsBacked'
  BY <1>1, SameCalls DEF pageVars
<1>4. OutboxMatchesCalls'
  BY <1>1, SameCallsSent
<1>5. EntryWasHandedIn'
  BY <1>1, SameResults
<1>6. TakenIsBacked' /\ RetakeNeedsStalePage'
  BY <1>1 DEF pageVars, TakenIsBacked, RetakeNeedsStalePage, OwnResultExists
<1> QED
  BY <1>3, <1>4, <1>5, <1>6, <1>7

\* The steps of a page before it shows the exam, and the expiry it shows.
LEMMA LoadingStep ==
  ASSUME IInv, NEW d \in Devices,
         ReadExam(d) \/ ReadOwnResult(d) \/ LoadFails(d) \/ ShowExpired(d)
  PROVE  IInv'
<1> USE DEF IInv
<1>1. /\ UNCHANGED <<serverVars, results, answers, scored, jobs, outbox,
                     handedIn>>
      /\ at[d] # "answering"
      /\ \A e \in Devices \ {d} :
           at'[e] = at[e] /\ seen'[e] = seen[e]
           /\ taken'[e] = taken[e] /\ changed'[e] = changed[e]
  BY DEF ReadExam, ReadOwnResult, LoadFails, ShowExpired, TypeOK
<1>2. TypeOK'
  <2>1. /\ at' \in [Devices -> Places] /\ seen' \in [Devices -> Nat]
        /\ taken' \in [Devices -> BOOLEAN] /\ changed' \in [Devices -> BOOLEAN]
    <3>1. CASE ReadExam(d)
      BY <3>1 DEF ReadExam, TypeOK, Places
    <3>2. CASE ReadOwnResult(d)
      BY <3>2 DEF ReadOwnResult, TypeOK, Places, OwnResultExists
    <3>3. CASE LoadFails(d) \/ ShowExpired(d)
      BY <3>3 DEF LoadFails, ShowExpired, TypeOK, Places
    <3> QED
      BY <3>1, <3>2, <3>3
  <2> QED
    BY <2>1, <1>1 DEF TypeOK, serverVars
<1>3. CallsBacked'
  <2> SUFFICES ASSUME NEW e \in Devices, NEW j \in Jobs
               PROVE  /\ jobs[e][j].stage = "name" /\ jobs[e][j].mounted =>
                           at'[e] = "answering" /\ Backed(e, CurrentEntry(e))'
                      /\ \/ jobs[e][j].stage = "name" /\ ~jobs[e][j].mounted
                         \/ jobs[e][j].stage = "sent"
                         => Backed(e, jobs[e][j].entry)'
    BY <1>1 DEF CallsBacked
  <2>1. Backed(e, jobs[e][j].entry)' <=> Backed(e, jobs[e][j].entry)
    BY <1>1 DEF Backed, Complete
  <2>2. CASE e = d
    BY <2>1, <2>2, <1>1 DEF CallsBacked
  <2>3. CASE e # d
    <3>1. CurrentEntry(e)' = CurrentEntry(e) /\ at'[e] = at[e]
      BY <2>3, <1>1 DEF CurrentEntry
    <3>2. Backed(e, CurrentEntry(e))' <=> Backed(e, CurrentEntry(e))
      BY <3>1, <1>1 DEF Backed, Complete
    <3> QED
      BY <3>1, <3>2, <2>1 DEF CallsBacked
  <2> QED
    BY <2>2, <2>3
<1>4. OutboxMatchesCalls'
  BY <1>1, SameCallsSent
<1>5. EntryWasHandedIn'
  BY <1>1, SameResults
<1>6. TakenIsBacked'
  BY <1>1 DEF ReadExam, ReadOwnResult, LoadFails, ShowExpired, TypeOK,
     TakenIsBacked, OwnResultExists
<1>7. RetakeNeedsStalePage'
  BY <1>1 DEF ReadExam, ReadOwnResult, LoadFails, ShowExpired, TypeOK,
     RetakeNeedsStalePage, OwnResultExists
<1> QED
  BY <1>2, <1>3, <1>4, <1>5, <1>6, <1>7

\* The steps that dispose of the page of a device or create it anew; left are
\* the calls of that device when its page is gone.
LEMMA PageStep ==
  ASSUME IInv, NEW d \in Devices, NEW place \in {"closed", "readExam"},
         ResetPage(d, place),
         UNCHANGED <<serverVars, results, outbox, handedIn>>,
         NEW left \in [Jobs -> JobSet],
         jobs' = [jobs EXCEPT ![d] = left],
         \A j \in Jobs :
           /\ left[j].stage = "sent" <=> jobs[d][j].stage = "sent"
           /\ left[j].stage = "name" => ~left[j].mounted
           /\ left[j].stage \in {"name", "sent"} => Backed(d, left[j].entry)
  PROVE  IInv'
<1> USE DEF IInv
<1>1. /\ jobs' \in [Devices -> [Jobs -> JobSet]]
      /\ jobs'[d] = left
      /\ \A e \in Devices \ {d} : jobs'[e] = jobs[e]
  BY DEF TypeOK
<1>2. TypeOK'
  BY <1>1, ResetStep DEF TypeOK, serverVars
<1>3. CallsBacked'
  <2> SUFFICES ASSUME NEW e \in Devices, NEW j \in Jobs
               PROVE  /\ jobs'[e][j].stage = "name" /\ jobs'[e][j].mounted =>
                           at'[e] = "answering" /\ Backed(e, CurrentEntry(e))'
                      /\ \/ jobs'[e][j].stage = "name" /\ ~jobs'[e][j].mounted
                         \/ jobs'[e][j].stage = "sent"
                         => Backed(e, jobs[e][j].entry)'
    BY DEF CallsBacked
  <2>1. CASE e = d
    <3>1. Backed(d, jobs[d][j].entry)' <=> Backed(d, left[j].entry)
      BY <1>1 DEF Backed, Complete
    <3> QED
      BY <3>1, <2>1, <1>1
  <2>2. CASE e # d
    <3>1. jobs'[e] = jobs[e] /\ at'[e] = at[e] /\ CurrentEntry(e)' = CurrentEntry(e)
      BY <2>2, <1>1, ResetStep DEF CurrentEntry
    <3>2. /\ Backed(e, CurrentEntry(e))' <=> Backed(e, CurrentEntry(e))
          /\ Backed(e, jobs[e][j].entry)' <=> Backed(e, jobs[e][j].entry)
      BY <3>1 DEF Backed, Complete
    <3> QED
      BY <3>1, <3>2 DEF CallsBacked
  <2> QED
    BY <2>1, <2>2
<1>4. OutboxMatchesCalls'
  <2>1. \A e \in Devices, j \in Jobs :
          jobs'[e][j].stage = "sent" <=> jobs[e][j].stage = "sent"
    BY <1>1
  <2> QED
    BY <2>1, SameCallsSent
<1>5. EntryWasHandedIn'
  BY SameResults
<1>6. TakenIsBacked' /\ RetakeNeedsStalePage'
  <2>1. \A e \in Devices :
          \/ at'[e] = at[e] /\ taken'[e] = taken[e] /\ changed'[e] = changed[e]
          \/ at'[e] \in {"closed", "readExam"} /\ ~taken'[e]
    BY ResetStep
  <2> QED
    BY <2>1, SamePages
<1> QED
  BY <1>2, <1>3, <1>4, <1>5, <1>6

\* Opening, leaving or replacing a page, and the death of the process.
LEMMA OpenStep ==
  ASSUME IInv, NEW d \in Devices,
         \/ OpenPage(d) \/ LeavePage(d) \/ Kill(d)
         \/ \E j \in Jobs : ShowResult(d, j)
  PROVE  IInv'
<1> USE DEF IInv
<1>1. /\ jobs \in [Devices -> [Jobs -> JobSet]]
      /\ Idle \in JobSet /\ Idle.stage = "idle"
  BY DEF TypeOK, Idle, JobSet
<1>2. CASE OpenPage(d)
  <2>1. /\ jobs' = [jobs EXCEPT ![d] = jobs[d]]
        /\ jobs[d] \in [Jobs -> JobSet]
    BY <1>1, <1>2 DEF OpenPage
  <2>2. \A j \in Jobs :
          /\ jobs[d][j].stage = "name" => ~jobs[d][j].mounted
          /\ jobs[d][j].stage \in {"name", "sent"} => Backed(d, jobs[d][j].entry)
    BY <1>2 DEF OpenPage, CallsBacked
  <2> QED
    BY <2>1, <2>2, <1>2, PageStep DEF OpenPage
<1>3. CASE LeavePage(d)
  <2>1. /\ ResetPage(d, "closed")
        /\ UNCHANGED <<serverVars, results, outbox, handedIn>>
        /\ jobs' = [jobs EXCEPT ![d] = Orphaned(d)]
    BY <1>3 DEF LeavePage
  <2>2. /\ Orphaned(d) \in [Jobs -> JobSet]
        /\ \A j \in Jobs :
             /\ Orphaned(d)[j].stage = "sent" <=> jobs[d][j].stage = "sent"
             /\ Orphaned(d)[j].stage = "name" => ~Orphaned(d)[j].mounted
             /\ Orphaned(d)[j].stage \in {"name", "sent"} =>
                  Backed(d, Orphaned(d)[j].entry)
    BY OrphanedCalls
  <2> QED
    BY <2>1, <2>2, PageStep
<1>4. CASE Kill(d)
  <2> DEFINE left == [j \in Jobs |-> IF jobs[d][j].stage = "sent"
                                     THEN [jobs[d][j] EXCEPT !.mounted = FALSE]
                                     ELSE Idle]
  <2>1. /\ ResetPage(d, "closed")
        /\ UNCHANGED <<serverVars, results, outbox, handedIn>>
        /\ jobs' = [jobs EXCEPT ![d] = left]
    BY <1>4, <1>1 DEF Kill
  <2>2. ASSUME NEW j \in Jobs
        PROVE  /\ left[j] \in JobSet
               /\ left[j].stage = "sent" <=> jobs[d][j].stage = "sent"
               /\ left[j].stage # "name"
               /\ left[j].stage = "sent" => left[j].entry = jobs[d][j].entry
    BY <1>1 DEF JobSet
  <2>3. left \in [Jobs -> JobSet]
    BY <2>2
  <2> HIDE DEF left
  <2>4. \A j \in Jobs :
          /\ left[j].stage = "sent" <=> jobs[d][j].stage = "sent"
          /\ left[j].stage = "name" => ~left[j].mounted
          /\ left[j].stage \in {"name", "sent"} => Backed(d, left[j].entry)
    BY <2>2 DEF CallsBacked
  <2> QED
    BY <2>1, <2>3, <2>4, PageStep
<1>5. CASE \E j \in Jobs : ShowResult(d, j)
  <2>1. PICK k \in Jobs : ShowResult(d, k)
    BY <1>5
  <2> DEFINE left == [Orphaned(d) EXCEPT ![k] = Idle]
  <2>2. /\ ResetPage(d, "readExam")
        /\ UNCHANGED <<serverVars, results, outbox, handedIn>>
        /\ jobs' = [jobs EXCEPT ![d] = left]
        /\ jobs[d][k].stage = "stored"
    BY <2>1 DEF ShowResult
  <2>3. /\ left \in [Jobs -> JobSet]
        /\ left[k] = Idle
        /\ \A j \in Jobs \ {k} : left[j] = Orphaned(d)[j]
    BY <1>1, OrphanedCalls
  <2> HIDE DEF left
  <2>4. \A j \in Jobs :
          /\ left[j].stage = "sent" <=> jobs[d][j].stage = "sent"
          /\ left[j].stage = "name" => ~left[j].mounted
          /\ left[j].stage \in {"name", "sent"} => Backed(d, left[j].entry)
    BY <1>1, <2>2, <2>3, OrphanedCalls
  <2> QED
    BY <2>2, <2>3, <2>4, PageStep
<1> QED
  BY <1>2, <1>3, <1>4, <1>5

\* A topic is selected or an option is chosen.
LEMMA AnswerStep ==
  ASSUME IInv, NEW d \in Devices,
         \/ SelectTopic(d)
         \/ \E q \in Questions, o \in Options : ChooseOption(d, q, o)
  PROVE  IInv'
<1> USE DEF IInv
<1>1. /\ UNCHANGED <<serverVars, results, seen, taken, jobs, outbox, handedIn,
                     changed>>
      /\ at'[d] = "answering"
      /\ \A e \in Devices \ {d} :
           at'[e] = at[e] /\ answers'[e] = answers[e] /\ scored'[e] = scored[e]
  BY DEF SelectTopic, ChooseOption, TypeOK
<1>2. TypeOK'
  <2>1. /\ at' \in [Devices -> Places] /\ answers' \in [Devices -> Sheets]
        /\ scored' \in [Devices -> Sheets]
    <3>1. CASE SelectTopic(d)
      BY <3>1 DEF SelectTopic, TypeOK, Places, Blank, Sheets
    <3>2. CASE \E q \in Questions, o \in Options : ChooseOption(d, q, o)
      BY <3>2 DEF ChooseOption, TypeOK, Sheets
    <3> QED
      BY <3>1, <3>2
  <2> QED
    BY <2>1, <1>1 DEF TypeOK, serverVars
<1>3. CallsBacked'
  <2> SUFFICES ASSUME NEW e \in Devices, NEW j \in Jobs
               PROVE  /\ jobs[e][j].stage = "name" /\ jobs[e][j].mounted =>
                           at'[e] = "answering" /\ Backed(e, CurrentEntry(e))'
                      /\ \/ jobs[e][j].stage = "name" /\ ~jobs[e][j].mounted
                         \/ jobs[e][j].stage = "sent"
                         => Backed(e, jobs[e][j].entry)'
    BY <1>1 DEF CallsBacked
  <2>1. Backed(e, jobs[e][j].entry)' <=> Backed(e, jobs[e][j].entry)
    BY <1>1 DEF Backed, Complete
  <2>2. CASE e = d
    <3>1. CASE SelectTopic(d)
      BY <3>1, <2>1, <2>2, <1>1 DEF SelectTopic, CallsBacked
    <3>2. CASE \E q \in Questions, o \in Options : ChooseOption(d, q, o)
      <4>1. PICK q \in Questions, o \in Options : ChooseOption(d, q, o)
        BY <3>2
      <4>2. answers'[d] = [answers[d] EXCEPT ![q] = o] /\ scored' = scored
        BY <4>1 DEF ChooseOption, TypeOK
      <4>3. Complete(answers[d]) => Complete(answers'[d])
        BY <4>2, UnansweredAssumption DEF Complete, TypeOK, Sheets
      <4>4. /\ CurrentEntry(d)' \in Entries
            /\ CurrentEntry(d)'.version = CurrentEntry(d).version
            /\ CurrentEntry(d)'.scored = CurrentEntry(d).scored
            /\ CurrentEntry(d)'.answers = answers'[d]
            /\ CurrentEntry(d).answers = answers[d]
        <5>1. /\ seen'[d] \in Nat /\ scored'[d] \in Sheets
              /\ answers'[d] \in Sheets
          BY <1>2 DEF TypeOK
        <5> QED
          BY <5>1, <4>2, <1>1 DEF CurrentEntry, Entries
      <4>5. Backed(d, CurrentEntry(d)) => Backed(d, CurrentEntry(d))'
        BY <4>3, <4>4, <1>1 DEF Backed, Complete
      <4> QED
        BY <4>5, <2>1, <2>2, <1>1 DEF CallsBacked
    <3> QED
      BY <3>1, <3>2
  <2>3. CASE e # d
    <3>1. CurrentEntry(e)' = CurrentEntry(e) /\ at'[e] = at[e]
      BY <2>3, <1>1 DEF CurrentEntry
    <3>2. Backed(e, CurrentEntry(e))' <=> Backed(e, CurrentEntry(e))
      BY <3>1, <1>1 DEF Backed, Complete
    <3> QED
      BY <3>1, <3>2, <2>1 DEF CallsBacked
  <2> QED
    BY <2>2, <2>3
<1>4. OutboxMatchesCalls'
  BY <1>1, SameCallsSent
<1>5. EntryWasHandedIn'
  BY <1>1, SameResults
<1>6. TakenIsBacked' /\ RetakeNeedsStalePage'
  <2>1. /\ at[d] \in {"topics", "answering"}
        /\ at[d] = "topics" => ~taken[d]
    BY DEF SelectTopic, ChooseOption
  <2>2. TakenIsBacked'
    BY <2>1, <1>1 DEF TakenIsBacked, OwnResultExists
  <2>3. RetakeNeedsStalePage'
    BY <2>1, <1>1 DEF RetakeNeedsStalePage
  <2> QED
    BY <2>2, <2>3
<1> QED
  BY <1>2, <1>3, <1>4, <1>5, <1>6

\* "Testi Bitir" up to its first await.
LEMMA FinishStep ==
  ASSUME IInv, NEW d \in Devices, NEW j \in Jobs, FinishTest(d, j)
  PROVE  IInv'
<1> USE DEF IInv
<1>1. /\ UNCHANGED <<serverVars, results, at, seen, taken, answers, outbox,
                     changed>>
      /\ at[d] = "answering" /\ ~taken[d] /\ Complete(answers[d])
      /\ jobs[d][j].stage = "idle"
      /\ handedIn' = handedIn \union {<<Owner[d], seen[d], answers[d]>>}
      /\ scored' = [scored EXCEPT ![d] = answers[d]]
  BY DEF FinishTest
<1>2. /\ Owner[d] \in Users /\ seen[d] \in Nat /\ answers[d] \in Sheets
      /\ scored'[d] = answers[d]
      /\ \A e \in Devices \ {d} : scored'[e] = scored[e]
      /\ scored' \in [Devices -> Sheets]
  BY <1>1, OwnerAssumption DEF TypeOK
<1>3. /\ jobs' \in [Devices -> [Jobs -> JobSet]]
      /\ jobs'[d][j].stage = "name" /\ jobs'[d][j].mounted
      /\ \A e \in Devices, k \in Jobs :
           e # d \/ k # j => jobs'[e][k] = jobs[e][k]
  BY DEF FinishTest, TypeOK, JobSet
<1>4. TypeOK'
  BY <1>1, <1>2, <1>3 DEF TypeOK, serverVars
<1>5. CallsBacked'
  <2>1. Backed(d, CurrentEntry(d))'
    <3>1. /\ CurrentEntry(d)' \in Entries
          /\ CurrentEntry(d)'.version = seen[d]
          /\ CurrentEntry(d)'.scored = answers[d]
          /\ CurrentEntry(d)'.answers = answers[d]
      BY <1>1, <1>2 DEF CurrentEntry, Entries
    <3> QED
      BY <3>1, <1>1 DEF Backed, Complete
  <2>2. \A e \in Devices : \A x : Backed(e, x) => Backed(e, x)'
    BY <1>1 DEF Backed, Complete
  <2>3. \A e \in Devices \ {d} : CurrentEntry(e)' = CurrentEntry(e)
    BY <1>1, <1>2 DEF CurrentEntry
  <2> SUFFICES ASSUME NEW e \in Devices, NEW k \in Jobs
               PROVE  /\ jobs'[e][k].stage = "name" /\ jobs'[e][k].mounted =>
                           at'[e] = "answering" /\ Backed(e, CurrentEntry(e))'
                      /\ \/ jobs'[e][k].stage = "name" /\ ~jobs'[e][k].mounted
                         \/ jobs'[e][k].stage = "sent"
                         => Backed(e, jobs[e][k].entry)'
    BY DEF CallsBacked
  <2>4. CASE e = d /\ k = j
    BY <2>1, <2>4, <1>1, <1>3
  <2>5. CASE e # d \/ k # j
    <3>1. jobs'[e][k] = jobs[e][k] /\ at'[e] = at[e]
      BY <2>5, <1>1, <1>3
    <3>2. Backed(e, CurrentEntry(e)) => Backed(e, CurrentEntry(e))'
      BY <2>1, <2>2, <2>3
    <3>3. Backed(e, jobs[e][k].entry) => Backed(e, jobs[e][k].entry)'
      BY <2>2, <3>1
    <3> QED
      BY <3>1, <3>2, <3>3 DEF CallsBacked
  <2> QED
    BY <2>4, <2>5
<1>6. OutboxMatchesCalls'
  <2>1. \A e \in Devices, k \in Jobs :
          jobs'[e][k].stage = "sent" <=> jobs[e][k].stage = "sent"
    BY <1>1, <1>3
  <2> QED
    BY <2>1, <1>1, SameCallsSent
<1>7. EntryWasHandedIn'
  BY <1>1, SameResults
<1>8. TakenIsBacked' /\ RetakeNeedsStalePage'
  BY <1>1 DEF TakenIsBacked, RetakeNeedsStalePage, OwnResultExists
<1> QED
  BY <1>4, <1>5, <1>6, <1>7, <1>8

\* The call of set().
LEMMA SendStep ==
  ASSUME IInv, NEW d \in Devices, NEW j \in Jobs, SendResult(d, j)
  PROVE  IInv'
<1> USE DEF IInv
<1> DEFINE sent == IF jobs[d][j].mounted THEN CurrentEntry(d)
                                         ELSE jobs[d][j].entry
<1>1. /\ UNCHANGED <<serverVars, results, pageVars, handedIn, changed>>
      /\ jobs[d][j].stage = "name"
      /\ outbox' = [outbox EXCEPT ![d] = Append(outbox[d], j)]
  BY DEF SendResult
<1>2. Backed(d, sent)
  BY <1>1 DEF CallsBacked
<1>3. /\ jobs' \in [Devices -> [Jobs -> JobSet]]
      /\ jobs'[d][j].stage = "sent" /\ jobs'[d][j].entry = sent
      /\ \A e \in Devices, k \in Jobs :
           e # d \/ k # j => jobs'[e][k] = jobs[e][k]
  <2>1. jobs[d][j] \in JobSet /\ sent \in Entries
    BY <1>2 DEF TypeOK, Backed
  <2> DEFINE job == [jobs[d][j] EXCEPT !.stage = "sent", !.entry = sent]
  <2>2. job \in JobSet /\ job.stage = "sent" /\ job.entry = sent
    BY <2>1 DEF JobSet
  <2>3. jobs' = [jobs EXCEPT ![d][j] = job]
    BY <2>1 DEF SendResult, TypeOK, JobSet
  <2> HIDE DEF job, sent
  <2> QED
    BY <2>2, <2>3 DEF TypeOK
<1>4. /\ outbox' \in [Devices -> Seq(Jobs)]
      /\ outbox[d] \in Seq(Jobs)
      /\ outbox'[d] = Append(outbox[d], j)
      /\ outbox'[d] # <<>>
      /\ \A e \in Devices \ {d} : outbox'[e] = outbox[e]
  <2>1. outbox[d] \in Seq(Jobs)
    BY DEF TypeOK
  <2>2. Append(outbox[d], j) \in Seq(Jobs) /\ Append(outbox[d], j) # <<>>
    BY <2>1, AppendProperties
  <2> QED
    BY <2>1, <2>2, <1>1 DEF TypeOK
<1> HIDE DEF sent
<1>5. TypeOK'
  BY <1>1, <1>3, <1>4 DEF TypeOK, serverVars, pageVars
<1>6. CallsBacked'
  <2> SUFFICES ASSUME NEW e \in Devices, NEW k \in Jobs
               PROVE  /\ jobs'[e][k].stage = "name" /\ jobs'[e][k].mounted =>
                           at'[e] = "answering" /\ Backed(e, CurrentEntry(e))'
                      /\ \/ jobs'[e][k].stage = "name" /\ ~jobs'[e][k].mounted
                         \/ jobs'[e][k].stage = "sent"
                         => Backed(e, jobs[e][k].entry)'
    BY DEF CallsBacked
  <2>1. \A x : Backed(e, x) => Backed(e, x)'
    BY <1>1 DEF Backed, Complete
  <2>2. CASE e = d /\ k = j
    BY <2>1, <2>2, <1>2, <1>3
  <2>3. CASE e # d \/ k # j
    <3>1. jobs'[e][k] = jobs[e][k] /\ at'[e] = at[e]
          /\ CurrentEntry(e)' = CurrentEntry(e)
      BY <2>3, <1>1, <1>3 DEF pageVars, CurrentEntry
    <3>2. Backed(e, CurrentEntry(e)) => Backed(e, CurrentEntry(e))'
      BY <2>1, <3>1
    <3>3. Backed(e, jobs[e][k].entry) => Backed(e, jobs[e][k].entry)'
      BY <2>1, <3>1
    <3> QED
      BY <3>1, <3>2, <3>3 DEF CallsBacked
  <2> QED
    BY <2>2, <2>3
<1>7. OutboxMatchesCalls'
  <2> SUFFICES ASSUME NEW e \in Devices
               PROVE  /\ \A i \in 1..Len(outbox'[e]) :
                           jobs'[e][outbox'[e][i]].stage = "sent"
                      /\ \A i, k \in 1..Len(outbox'[e]) :
                           outbox'[e][i] = outbox'[e][k] => i = k
                      /\ \A k \in Jobs : jobs'[e][k].stage = "sent" =>
                           \E i \in 1..Len(outbox'[e]) : outbox'[e][i] = k
    BY DEF OutboxMatchesCalls
  <2>1. CASE e # d
    <3>1. /\ outbox'[e] = outbox[e]
          /\ \A k \in Jobs : jobs'[e][k] = jobs[e][k]
          /\ \A i \in 1..Len(outbox[e]) : outbox[e][i] \in Jobs
      BY <2>1, <1>3, <1>4 DEF TypeOK
    <3> QED
      BY <3>1 DEF OutboxMatchesCalls
  <2>2. CASE e = d
    <3> DEFINE q == outbox[d]
    <3>1. /\ q \in Seq(Jobs) /\ Len(q) \in Nat
          /\ Len(outbox'[d]) = Len(q) + 1
          /\ \A i \in 1..Len(q) : outbox'[d][i] = q[i] /\ q[i] \in Jobs
          /\ outbox'[d][Len(q) + 1] = j
      BY <1>4
    <3>2. /\ \A i \in 1..Len(q) : jobs[d][q[i]].stage = "sent"
          /\ \A i, k \in 1..Len(q) : q[i] = q[k] => i = k
          /\ \A k \in Jobs : jobs[d][k].stage = "sent" =>
               \E i \in 1..Len(q) : q[i] = k
      BY DEF OutboxMatchesCalls
    <3> HIDE DEF q
    <3>3. \A i \in 1..Len(q) : q[i] # j
      BY <3>2, <1>1
    <3>4. \A i \in 1..Len(outbox'[d]) : jobs'[d][outbox'[d][i]].stage = "sent"
      BY <3>1, <3>2, <3>3, <1>3
    <3>5. \A i, k \in 1..Len(outbox'[d]) : outbox'[d][i] = outbox'[d][k] => i = k
      BY <3>1, <3>2, <3>3
    <3>6. \A k \in Jobs : jobs'[d][k].stage = "sent" =>
            \E i \in 1..Len(outbox'[d]) : outbox'[d][i] = k
      BY <3>1, <3>2, <1>3
    <3> QED
      BY <2>2, <3>4, <3>5, <3>6
  <2> QED
    BY <2>1, <2>2
<1>8. EntryWasHandedIn'
  BY <1>1, SameResults
<1>9. TakenIsBacked' /\ RetakeNeedsStalePage'
  BY <1>1, <1>4 DEF pageVars, TakenIsBacked, RetakeNeedsStalePage,
     OwnResultExists
<1> QED
  BY <1>5, <1>6, <1>7, <1>8, <1>9

\* What the arrival of the oldest queued write does; j is its call.
LEMMA ArrivalStep ==
  ASSUME IInv, NEW d \in Devices, StoreResult(d)
  PROVE  \E j \in Jobs :
           /\ jobs[d][j].stage = "sent"
           /\ Backed(d, jobs[d][j].entry)
           /\ results' = [results EXCEPT ![Owner[d]] = jobs[d][j].entry]
           /\ jobs' \in [Devices -> [Jobs -> JobSet]]
           /\ jobs'[d][j].stage = "stored"
           /\ \A e \in Devices, k \in Jobs :
                e # d \/ k # j => jobs'[e][k] = jobs[e][k]
           /\ outbox' \in [Devices -> Seq(Jobs)]
           /\ \A e \in Devices \ {d} : outbox'[e] = outbox[e]
           /\ Len(outbox[d]) \in Nat \ {0}
           /\ outbox[d][1] = j
           /\ Len(outbox'[d]) = Len(outbox[d]) - 1
           /\ \A i \in 1..Len(outbox'[d]) : outbox'[d][i] = outbox[d][i + 1]
<1> USE DEF IInv
<1> DEFINE j == Head(outbox[d])
<1>1. /\ outbox[d] \in Seq(Jobs) /\ outbox[d] # <<>>
      /\ outbox' = [outbox EXCEPT ![d] = Tail(outbox[d])]
      /\ results' = [results EXCEPT ![Owner[d]] = jobs[d][j].entry]
  BY DEF StoreResult, TypeOK
<1>2. /\ j \in Jobs /\ outbox[d][1] = j
      /\ Len(outbox[d]) \in Nat \ {0}
      /\ Tail(outbox[d]) \in Seq(Jobs)
      /\ Len(Tail(outbox[d])) = Len(outbox[d]) - 1
      /\ \A i \in 1..Len(Tail(outbox[d])) : Tail(outbox[d])[i] = outbox[d][i + 1]
  BY <1>1, HeadTailProperties, LenProperties
<1>3. jobs[d][j].stage = "sent"
  BY <1>2 DEF OutboxMatchesCalls
<1>4. Backed(d, jobs[d][j].entry)
  BY <1>2, <1>3 DEF CallsBacked
<1>5. /\ jobs' \in [Devices -> [Jobs -> JobSet]]
      /\ jobs'[d][j].stage = "stored"
      /\ \A e \in Devices, k \in Jobs :
           e # d \/ k # j => jobs'[e][k] = jobs[e][k]
  <2> DEFINE job == [jobs[d][j] EXCEPT !.stage = "stored", !.entry = Nothing]
  <2>1. jobs[d][j] \in JobSet
    BY <1>2 DEF TypeOK
  <2>2. job \in JobSet /\ job.stage = "stored"
    BY <2>1 DEF JobSet
  <2>3. jobs' = [jobs EXCEPT ![d][j] = job]
    BY <1>2, <2>1 DEF StoreResult, TypeOK, JobSet
  <2> HIDE DEF job, j
  <2> QED
    BY <1>2, <2>2, <2>3 DEF TypeOK
<1>6. /\ outbox' \in [Devices -> Seq(Jobs)]
      /\ outbox'[d] = Tail(outbox[d])
      /\ \A e \in Devices \ {d} : outbox'[e] = outbox[e]
  BY <1>1, <1>2 DEF TypeOK
<1> HIDE DEF j
<1> QED
  BY <1>1, <1>2, <1>3, <1>4, <1>5, <1>6

\* A queued result reaches the server.
LEMMA StoreStep ==
  ASSUME IInv, NEW d \in Devices, StoreResult(d)
  PROVE  IInv'
<1> USE DEF IInv
<1>1. /\ UNCHANGED <<serverVars, pageVars, handedIn>>
      /\ changed' = [e \in Devices |-> changed[e] \/ Owner[e] = Owner[d]]
      /\ Owner[d] \in Users
  BY OwnerAssumption DEF StoreResult
<1>2. PICK j \in Jobs :
        /\ jobs[d][j].stage = "sent"
        /\ Backed(d, jobs[d][j].entry)
        /\ results' = [results EXCEPT ![Owner[d]] = jobs[d][j].entry]
        /\ jobs' \in [Devices -> [Jobs -> JobSet]]
        /\ jobs'[d][j].stage = "stored"
        /\ \A e \in Devices, k \in Jobs :
             e # d \/ k # j => jobs'[e][k] = jobs[e][k]
        /\ outbox' \in [Devices -> Seq(Jobs)]
        /\ \A e \in Devices \ {d} : outbox'[e] = outbox[e]
        /\ Len(outbox[d]) \in Nat \ {0}
        /\ outbox[d][1] = j
        /\ Len(outbox'[d]) = Len(outbox[d]) - 1
        /\ \A i \in 1..Len(outbox'[d]) : outbox'[d][i] = outbox[d][i + 1]
  BY ArrivalStep
<1>3. /\ jobs[d][j].entry \in Entries /\ jobs[d][j].entry # Nothing
      /\ results' \in [Users -> Entries \union {Nothing}]
      /\ results'[Owner[d]] = jobs[d][j].entry
      /\ \A u \in Users \ {Owner[d]} : results'[u] = results[u]
  BY <1>1, <1>2, BackedIsSomething DEF Backed, TypeOK
<1>4. TypeOK'
  <2>1. changed' \in [Devices -> BOOLEAN]
    BY <1>1 DEF TypeOK
  <2> QED
    BY <2>1, <1>1, <1>2, <1>3 DEF TypeOK, serverVars, pageVars
<1>5. CallsBacked'
  <2> SUFFICES ASSUME NEW e \in Devices, NEW k \in Jobs
               PROVE  /\ jobs'[e][k].stage = "name" /\ jobs'[e][k].mounted =>
                           at'[e] = "answering" /\ Backed(e, CurrentEntry(e))'
                      /\ \/ jobs'[e][k].stage = "name" /\ ~jobs'[e][k].mounted
                         \/ jobs'[e][k].stage = "sent"
                         => Backed(e, jobs[e][k].entry)'
    BY DEF CallsBacked
  <2>1. \A x : Backed(e, x) => Backed(e, x)'
    BY <1>1 DEF Backed, Complete
  <2>2. CASE e = d /\ k = j
    BY <2>2, <1>2
  <2>3. CASE e # d \/ k # j
    <3>1. jobs'[e][k] = jobs[e][k] /\ at'[e] = at[e]
          /\ CurrentEntry(e)' = CurrentEntry(e)
      BY <2>3, <1>1, <1>2 DEF pageVars, CurrentEntry
    <3>2. Backed(e, CurrentEntry(e)) => Backed(e, CurrentEntry(e))'
      BY <2>1, <3>1
    <3>3. Backed(e, jobs[e][k].entry) => Backed(e, jobs[e][k].entry)'
      BY <2>1, <3>1
    <3> QED
      BY <3>1, <3>2, <3>3 DEF CallsBacked
  <2> QED
    BY <2>2, <2>3
<1>6. OutboxMatchesCalls'
  <2> SUFFICES ASSUME NEW e \in Devices
               PROVE  /\ \A i \in 1..Len(outbox'[e]) :
                           jobs'[e][outbox'[e][i]].stage = "sent"
                      /\ \A i, k \in 1..Len(outbox'[e]) :
                           outbox'[e][i] = outbox'[e][k] => i = k
                      /\ \A k \in Jobs : jobs'[e][k].stage = "sent" =>
                           \E i \in 1..Len(outbox'[e]) : outbox'[e][i] = k
    BY DEF OutboxMatchesCalls
  <2>1. CASE e # d
    <3>1. /\ outbox'[e] = outbox[e]
          /\ \A k \in Jobs : jobs'[e][k] = jobs[e][k]
          /\ \A i \in 1..Len(outbox[e]) : outbox[e][i] \in Jobs
      BY <2>1, <1>2 DEF TypeOK
    <3> QED
      BY <3>1 DEF OutboxMatchesCalls
  <2>2. CASE e = d
    <3> DEFINE q == outbox[d]
               r == outbox'[d]
    <3>1. /\ Len(q) \in Nat \ {0} /\ q[1] = j /\ Len(r) = Len(q) - 1
          /\ \A i \in 1..Len(r) : r[i] = q[i + 1]
          /\ \A i \in 1..Len(q) : q[i] \in Jobs
          /\ \A i \in 1..Len(q) : jobs[d][q[i]].stage = "sent"
          /\ \A i, k \in 1..Len(q) : q[i] = q[k] => i = k
          /\ \A k \in Jobs : jobs[d][k].stage = "sent" =>
               \E i \in 1..Len(q) : q[i] = k
      <4>1. /\ Len(q) \in Nat \ {0} /\ q[1] = j /\ Len(r) = Len(q) - 1
            /\ \A i \in 1..Len(r) : r[i] = q[i + 1]
        BY <1>2
      <4>2. \A i \in 1..Len(q) : q[i] \in Jobs
        BY DEF TypeOK
      <4>3. /\ \A i \in 1..Len(q) : jobs[d][q[i]].stage = "sent"
            /\ \A i, k \in 1..Len(q) : q[i] = q[k] => i = k
            /\ \A k \in Jobs : jobs[d][k].stage = "sent" =>
                 \E i \in 1..Len(q) : q[i] = k
        BY DEF OutboxMatchesCalls
      <4> QED
        BY <4>1, <4>2, <4>3
    <3> HIDE DEF q, r
    <3>2. ASSUME NEW i \in 1..Len(r)
          PROVE  i + 1 \in 1..Len(q) /\ r[i] = q[i + 1] /\ r[i] # j /\ r[i] \in Jobs
      <4>1. i + 1 \in 1..Len(q) /\ i + 1 # 1 /\ 1 \in 1..Len(q)
        BY <3>1
      <4> QED
        BY <4>1, <3>1
    <3>3. ASSUME NEW i \in 1..Len(r)
          PROVE  jobs'[d][r[i]].stage = "sent"
      <4>1. jobs'[d][r[i]] = jobs[d][r[i]]
        BY <3>2, <1>2
      <4>2. jobs[d][q[i + 1]].stage = "sent" /\ r[i] = q[i + 1]
        BY <3>1, <3>2
      <4> QED
        BY <4>1, <4>2
    <3>4. \A i, k \in 1..Len(r) : r[i] = r[k] => i = k
      BY <3>1, <3>2
    <3>5. ASSUME NEW k \in Jobs, jobs'[d][k].stage = "sent"
          PROVE  \E i \in 1..Len(r) : r[i] = k
      <4>1. k # j /\ jobs[d][k].stage = "sent"
        BY <3>5, <1>2
      <4>2. PICK i \in 1..Len(q) : q[i] = k
        BY <4>1, <3>1
      <4>3. i # 1
        BY <4>1, <4>2, <3>1
      <4>4. i - 1 \in 1..Len(r) /\ r[i - 1] = k
        BY <4>2, <4>3, <3>1
      <4> QED
        BY <4>4
    <3> QED
      BY <2>2, <3>3, <3>4, <3>5 DEF r
  <2> QED
    BY <2>1, <2>2
<1>7. EntryWasHandedIn'
  <2> SUFFICES ASSUME NEW u \in Users, results'[u] # Nothing
               PROVE  /\ Complete(results'[u].answers)
                      /\ Complete(results'[u].scored)
                      /\ <<u, results'[u].version, results'[u].scored>> \in handedIn'
    BY DEF EntryWasHandedIn, Complete
  <2>1. CASE u = Owner[d]
    BY <2>1, <1>1, <1>2, <1>3 DEF Backed
  <2>2. CASE u # Owner[d]
    BY <2>2, <1>1, <1>3 DEF EntryWasHandedIn
  <2> QED
    BY <2>1, <2>2
<1>8. TakenIsBacked'
  <2> SUFFICES ASSUME NEW e \in Devices, at[e] # "closed", taken[e]
               PROVE  results'[Owner[e]] # Nothing \/ outbox'[e] # <<>>
    BY <1>1 DEF TakenIsBacked, OwnResultExists, pageVars
  <2>1. results[Owner[e]] # Nothing \/ outbox[e] # <<>>
    BY DEF TakenIsBacked, OwnResultExists
  <2>2. Owner[e] \in Users
    BY OwnerAssumption
  <2> QED
    BY <2>1, <2>2, <1>2, <1>3
<1>9. RetakeNeedsStalePage'
  <2> SUFFICES ASSUME NEW e \in Devices, at[e] \in {"topics", "answering"},
                      ~taken[e], results'[Owner[e]] # Nothing
               PROVE  changed'[e]
    BY <1>1 DEF RetakeNeedsStalePage, pageVars
  <2>1. Owner[e] \in Users
    BY OwnerAssumption
  <2> QED
    BY <2>1, <1>1, <1>3 DEF RetakeNeedsStalePage
<1> QED
  BY <1>4, <1>5, <1>6, <1>7, <1>8, <1>9

\* A call ends without reaching its page.
LEMMA AbandonStep ==
  ASSUME IInv, NEW d \in Devices, NEW j \in Jobs, AbandonCall(d, j)
  PROVE  IInv'
<1> USE DEF IInv
<1>1. /\ UNCHANGED <<serverVars, results, pageVars, outbox, handedIn, changed>>
      /\ jobs[d][j].stage # "sent"
      /\ Idle \in JobSet /\ Idle.stage = "idle"
  BY DEF AbandonCall, Idle, JobSet
<1>2. /\ jobs' \in [Devices -> [Jobs -> JobSet]]
      /\ jobs'[d][j].stage = "idle"
      /\ \A e \in Devices, k \in Jobs :
           e # d \/ k # j => jobs'[e][k] = jobs[e][k]
  BY <1>1 DEF AbandonCall, TypeOK
<1>3. TypeOK'
  BY <1>1, <1>2 DEF TypeOK, serverVars, pageVars
<1>4. CallsBacked'
  BY <1>1, <1>2 DEF CallsBacked, Backed, CurrentEntry, Complete, pageVars
<1>5. OutboxMatchesCalls'
  <2>1. \A e \in Devices, k \in Jobs :
          jobs'[e][k].stage = "sent" <=> jobs[e][k].stage = "sent"
    BY <1>1, <1>2
  <2> QED
    BY <2>1, <1>1, SameCallsSent
<1>6. EntryWasHandedIn'
  BY <1>1, SameResults
<1>7. TakenIsBacked' /\ RetakeNeedsStalePage'
  BY <1>1 DEF TakenIsBacked, RetakeNeedsStalePage, OwnResultExists, pageVars
<1> QED
  BY <1>3, <1>4, <1>5, <1>6, <1>7

\* Every step keeps the invariant.
LEMMA NextIInv == IInv /\ [Next]_vars => IInv'
BY AdminStep, LoadingStep, OpenStep, AnswerStep, FinishStep, SendStep,
   StoreStep, AbandonStep DEF Next

\* The inductive invariant holds in every reachable state.
THEOREM Inductive == Spec => []IInv
<1> QED
  BY InitIInv, NextIInv, PTL DEF Spec

-----------------------------------------------------------------------------
(***************************************************************************)
(* The results                                                             *)
(***************************************************************************)

\* Every variable keeps its type.
THEOREM TypeCorrect == Spec => []TypeOK
<1>1. IInv => TypeOK
  BY DEF IInv
<1> QED
  BY <1>1, Inductive, PTL

\* Every stored entry is complete and was scored from a sheet its user handed
\* in for that exam, whatever finishTest calls overlapped.
THEOREM EntriesHandedIn == Spec => []EntryWasHandedIn
<1>1. IInv => EntryWasHandedIn
  BY DEF IInv
<1> QED
  BY <1>1, Inductive, PTL

\* The queue of Firestore and the calls that wait for it match.
THEOREM QueueMatches == Spec => []OutboxMatchesCalls
<1>1. IInv => OutboxMatchesCalls
  BY DEF IInv
<1> QED
  BY <1>1, Inductive, PTL

\* hasUserTakenExam is only ever set because of a result.
THEOREM LockIsBacked == Spec => []TakenIsBacked
<1>1. IInv => TakenIsBacked
  BY DEF IInv
<1> QED
  BY <1>1, Inductive, PTL

\* Only a page that read the results too early lets its user in again.
THEOREM OnlyStalePagesRetake == Spec => []RetakeNeedsStalePage
<1>1. IInv => RetakeNeedsStalePage
  BY DEF IInv
<1> QED
  BY <1>1, Inductive, PTL

\* A step that is neither the end of a test nor the arrival of a result leaves
\* the results and the sheets handed in alone.
LEMMA OtherSteps ==
  ASSUME [Next]_vars,
         ~ \E d \in Devices, j \in Jobs : FinishTest(d, j),
         ~ \E d \in Devices : StoreResult(d)
  PROVE  UNCHANGED <<results, handedIn>>
<1>1. CASE StartExam \/ RemoveExam \/ \E v \in 1..published : ExamEnds(v)
  BY <1>1 DEF StartExam, RemoveExam, ExamEnds
<1>2. CASE \E d \in Devices :
             \/ OpenPage(d) \/ ReadExam(d) \/ ReadOwnResult(d) \/ LoadFails(d)
             \/ LeavePage(d) \/ Kill(d) \/ ShowExpired(d) \/ SelectTopic(d)
  BY <1>2 DEF OpenPage, ReadExam, ReadOwnResult, LoadFails, LeavePage, Kill,
     ShowExpired, SelectTopic
<1>3. CASE \E d \in Devices, q \in Questions, o \in Options :
             ChooseOption(d, q, o)
  BY <1>3 DEF ChooseOption
<1>4. CASE \E d \in Devices, j \in Jobs :
             SendResult(d, j) \/ ShowResult(d, j) \/ AbandonCall(d, j)
  BY <1>4 DEF SendResult, ShowResult, AbandonCall
<1>5. CASE UNCHANGED vars
  BY <1>5 DEF vars
<1> QED
  BY <1>1, <1>2, <1>3, <1>4, <1>5 DEF Next

\* Each step maps to a step of the board or to a stuttering one.
LEMMA BoardStep ==
  ASSUME IInv, IInv', [Next]_vars
  PROVE  [Board!Next]_(Board!bvars)
<1> USE DEF IInv
<1>1. results' \in [Users -> Entries \union {Nothing}]
  BY DEF TypeOK
<1>2. CASE \E d \in Devices, j \in Jobs : FinishTest(d, j)
  <2>1. PICK d \in Devices, j \in Jobs : FinishTest(d, j)
    BY <1>2
  <2>2. Owner[d] \in Users /\ UNCHANGED results
        /\ handedIn' = handedIn \union {<<Owner[d], seen[d], answers[d]>>}
    BY <2>1, OwnerAssumption DEF FinishTest
  <2>3. Board!HandIn(Owner[d])
    BY <2>2 DEF Board!HandIn
  <2> QED
    BY <1>1, <2>2, <2>3 DEF Board!Next
<1>3. CASE \E d \in Devices : StoreResult(d)
  <2>1. PICK d \in Devices : StoreResult(d)
    BY <1>3
  <2>2. PICK j \in Jobs :
          /\ Backed(d, jobs[d][j].entry)
          /\ results' = [results EXCEPT ![Owner[d]] = jobs[d][j].entry]
    BY <2>1, ArrivalStep
  <2>3. /\ Owner[d] \in Users
        /\ results'[Owner[d]] = jobs[d][j].entry
        /\ \A u \in Users \ {Owner[d]} : results'[u] = results[u]
    BY <2>2, OwnerAssumption DEF TypeOK
  <2>4. UNCHANGED handedIn
    BY <2>1 DEF StoreResult
  <2>5. Board!Enter(Owner[d])
    BY <2>2, <2>3, <2>4 DEF Board!Enter, Backed
  <2> QED
    BY <1>1, <2>3, <2>5 DEF Board!Next
<1>4. CASE /\ ~ \E d \in Devices, j \in Jobs : FinishTest(d, j)
           /\ ~ \E d \in Devices : StoreResult(d)
  BY <1>4, OtherSteps DEF Board!bvars
<1> QED
  BY <1>2, <1>3, <1>4

\* The practice exam implements the results board: an entry is kept for good,
\* and is only ever replaced by one its user handed in.
THEOREM RefinesBoard == Spec => ImplementsBoard
<1>1. Init => Board!Init
  BY DEF Init, Board!Init
<1>2. IInv /\ IInv' /\ [Next]_vars => [Board!Next]_(Board!bvars)
  BY BoardStep
<1> QED
  BY <1>1, <1>2, Inductive, PTL DEF Spec, ImplementsBoard, Board!Spec
-----------------------------------------------------------------------------
(***************************************************************************)
(* The exam and its history page                                           *)
(***************************************************************************)


\* A page that shows topics, or that they expired, has an exam; one that lets
\* a user in who has a result by now was overtaken by it, also when its exam
\* expired meanwhile.
PagesShowExam ==
  \A d \in Devices :
    /\ at[d] \in {"topics", "expired"} => seen[d] # 0
    /\ at[d] = "expired" /\ ~taken[d] /\ results[Owner[d]] # Nothing => changed[d]

HInv ==
  /\ IInv
  /\ PagesShowExam
  /\ HistoryTypeOK
  /\ HistoryAgreesWithLock

-----------------------------------------------------------------------------
(* Lemmas *)

\* What a device reads of its user's result is a result if one is queued.
LEMMA OwnEntryType ==
  ASSUME IInv, NEW d \in Devices
  PROVE  /\ OwnEntry(d) \in Entries \union {Nothing}
         /\ outbox[d] # <<>> => OwnEntry(d) # Nothing
         /\ outbox[d] = <<>> => OwnEntry(d) = results[Owner[d]]
<1>1. /\ results \in [Users -> Entries \union {Nothing}] /\ Owner[d] \in Users
      /\ outbox[d] \in Seq(Jobs) /\ jobs[d] \in [Jobs -> JobSet]
  BY OwnerAssumption DEF IInv, TypeOK
<1>2. CASE outbox[d] = <<>>
  BY <1>1, <1>2 DEF OwnEntry
<1>3. CASE outbox[d] # <<>>
  <2> DEFINE j == outbox[d][Len(outbox[d])]
  <2>1. Len(outbox[d]) \in 1..Len(outbox[d]) /\ j \in Jobs
    BY <1>1, <1>3
  <2>2. jobs[d][j].stage = "sent"
    BY <2>1 DEF IInv, OutboxMatchesCalls
  <2>3. jobs[d][j].entry \in Entries
    BY <2>1, <2>2 DEF IInv, CallsBacked, Backed
  <2>4. OwnEntry(d) = jobs[d][j].entry
    BY <1>3 DEF OwnEntry
  <2> QED
    BY <2>3, <2>4, <1>3, NothingAssumption
<1> QED
  BY <1>2, <1>3

\* What a step of the exam does to the page of d: one that stays at its topics
\* keeps what it read, and knows when a result of its user was stored.
PageKeeps(d) ==
  /\ taken'[d] = taken[d] /\ seen'[d] = seen[d]
  /\ changed[d] => changed'[d]

PageStepOf(d) ==
  /\ at[d] \in {"topics", "expired"} /\ at'[d] = at[d] =>
       /\ PageKeeps(d)
       /\ outbox[d] # <<>> => outbox'[d] # <<>> \/ changed'[d]
  /\ at'[d] = "expired" => at[d] \in {"topics", "expired"} /\ PageKeeps(d)
  /\ at'[d] = "topics" => (at[d] = "topics" /\ PageKeeps(d)) \/ seen'[d] # 0
  /\ results'[Owner[d]] # Nothing => results[Owner[d]] # Nothing \/ changed'[d]

\* A step that leaves the page of d as it is.
LEMMA PageUntouched ==
  ASSUME NEW d, at'[d] = at[d], taken'[d] = taken[d], seen'[d] = seen[d],
         changed'[d] = changed[d], results' = results, outbox'[d] = outbox[d]
  PROVE  PageStepOf(d)
BY DEF PageStepOf, PageKeeps

\* A step after which the page of d is elsewhere.
LEMMA PageElsewhere ==
  ASSUME NEW d, at'[d] \notin {"topics", "expired"}, results' = results
  PROVE  PageStepOf(d)
BY DEF PageStepOf

\* Pages that are opened, left or replaced.
LEMMA ResetPageOf ==
  ASSUME TypeOK, NEW d \in Devices, NEW e \in Devices,
         NEW place \in {"closed", "readExam"}, ResetPage(e, place),
         UNCHANGED <<results, outbox>>
  PROVE  PageStepOf(d)
<1>1. CASE d = e
  BY <1>1, PageElsewhere DEF ResetPage, TypeOK
<1>2. CASE d # e
  BY <1>2, PageUntouched DEF ResetPage, TypeOK
<1> QED
  BY <1>1, <1>2

\* Loading pages.
LEMMA LoadingPageOf ==
  ASSUME TypeOK, NEW d \in Devices, NEW e \in Devices,
         ReadExam(e) \/ ReadOwnResult(e) \/ LoadFails(e)
  PROVE  PageStepOf(d)
<1>1. CASE d # e
  BY <1>1, PageUntouched DEF ReadExam, ReadOwnResult, LoadFails, TypeOK
<1>2. CASE d = e /\ (ReadExam(e) \/ LoadFails(e))
  BY <1>2, PageElsewhere DEF ReadExam, LoadFails, TypeOK
<1>3. CASE d = e /\ ReadOwnResult(e)
  <2>1. /\ at[d] = "readOwn" /\ results' = results /\ seen' = seen
        /\ at'[d] = IF seen[d] = 0 THEN "noExam" ELSE "topics"
    BY <1>3 DEF ReadOwnResult, TypeOK
  <2> QED
    BY <2>1 DEF PageStepOf
<1> QED
  BY <1>1, <1>2, <1>3

\* Pages in use.
LEMMA UsedPageOf ==
  ASSUME TypeOK, NEW d \in Devices, NEW e \in Devices,
         \/ ShowExpired(e) \/ SelectTopic(e)
         \/ \E q \in Questions, o \in Options : ChooseOption(e, q, o)
         \/ \E j \in Jobs : FinishTest(e, j)
  PROVE  PageStepOf(d)
<1>1. CASE ShowExpired(e)
  <2>1. /\ at' = [at EXCEPT ![e] = "expired"] /\ at[e] = "topics"
        /\ UNCHANGED <<results, seen, taken, outbox, changed>>
    BY <1>1 DEF ShowExpired
  <2>2. CASE d = e
    BY <2>1, <2>2 DEF PageStepOf, PageKeeps, TypeOK
  <2>3. CASE d # e
    BY <2>1, <2>3, PageUntouched DEF TypeOK
  <2> QED
    BY <2>2, <2>3
<1>2. CASE SelectTopic(e)
  <2>1. CASE d = e
    BY <1>2, <2>1, PageElsewhere DEF SelectTopic, TypeOK
  <2>2. CASE d # e
    BY <1>2, <2>2, PageUntouched DEF SelectTopic, TypeOK
  <2> QED
    BY <2>1, <2>2
<1>3. CASE \E q \in Questions, o \in Options : ChooseOption(e, q, o)
  BY <1>3, PageUntouched DEF ChooseOption
<1>4. CASE \E j \in Jobs : FinishTest(e, j)
  BY <1>4, PageUntouched DEF FinishTest
<1> QED
  BY <1>1, <1>2, <1>3, <1>4

\* The queue: a write that is sent makes it longer, one that is stored is
\* noticed by the pages of its user.
LEMMA QueueStepOf ==
  ASSUME TypeOK, NEW d \in Devices, NEW e \in Devices,
         StoreResult(e) \/ \E j \in Jobs : SendResult(e, j)
  PROVE  PageStepOf(d)
<1>1. CASE \E j \in Jobs : SendResult(e, j)
  <2>1. PICK j \in Jobs : SendResult(e, j)
    BY <1>1
  <2>2. /\ UNCHANGED <<at, taken, seen, changed, results>>
        /\ outbox' = [outbox EXCEPT ![e] = Append(@, j)]
    BY <2>1 DEF SendResult, pageVars
  <2>3. Append(outbox[e], j) # <<>>
    <3>1. outbox[e] \in Seq(Jobs)
      BY DEF TypeOK
    <3> QED
      BY <3>1, <2>1, AppendProperties
  <2>4. outbox[d] # <<>> => outbox'[d] # <<>>
    BY <2>2, <2>3 DEF TypeOK
  <2> QED
    BY <2>2, <2>4 DEF PageStepOf, PageKeeps
<1>2. CASE StoreResult(e)
  <2>1. /\ UNCHANGED <<at, taken, seen>>
        /\ outbox' = [outbox EXCEPT ![e] = Tail(@)]
        /\ changed' = [f \in Devices |-> changed[f] \/ Owner[f] = Owner[e]]
    BY <1>2 DEF StoreResult, pageVars
  <2>2. \E x : results' = [results EXCEPT ![Owner[e]] = x]
    BY <1>2 DEF StoreResult
  <2>3. Owner[d] \in Users
    BY OwnerAssumption
  <2>4. changed'[d] = (changed[d] \/ Owner[d] = Owner[e])
    BY <2>1
  <2>5. PageKeeps(d)
    BY <2>1, <2>4 DEF PageKeeps
  <2>6. results'[Owner[d]] # Nothing => results[Owner[d]] # Nothing \/ changed'[d]
    BY <2>2, <2>3, <2>4 DEF TypeOK
  <2>7. outbox[d] # <<>> => outbox'[d] # <<>> \/ changed'[d]
    BY <2>1, <2>4 DEF TypeOK
  <2> QED
    BY <2>1, <2>5, <2>6, <2>7 DEF PageStepOf
<1> QED
  BY <1>1, <1>2

LEMMA AnyStepOf ==
  ASSUME TypeOK, Next, NEW d \in Devices
  PROVE  PageStepOf(d)
<1>1. CASE StartExam \/ RemoveExam \/ \E v \in 1..published : ExamEnds(v)
  BY <1>1, PageUntouched DEF StartExam, RemoveExam, ExamEnds, pageVars
<1>2. ASSUME NEW e \in Devices,
             \/ OpenPage(e) \/ LeavePage(e) \/ Kill(e)
             \/ \E j \in Jobs : ShowResult(e, j)
      PROVE  PageStepOf(d)
  BY <1>2, ResetPageOf DEF OpenPage, LeavePage, Kill, ShowResult
<1>3. ASSUME NEW e \in Devices, \E j \in Jobs : AbandonCall(e, j)
      PROVE  PageStepOf(d)
  BY <1>3, PageUntouched DEF AbandonCall, pageVars
<1> QED
  BY <1>1, <1>2, <1>3, LoadingPageOf, UsedPageOf, QueueStepOf DEF Next

\* The page invariant is kept by every step of the exam.
LEMMA PagesStep ==
  ASSUME IInv, PagesShowExam, Next
  PROVE  PagesShowExam'
<1> SUFFICES ASSUME NEW d \in Devices
             PROVE  /\ at'[d] \in {"topics", "expired"} => seen'[d] # 0
                    /\ at'[d] = "expired" /\ ~taken'[d]
                         /\ results'[Owner[d]] # Nothing => changed'[d]
  BY DEF PagesShowExam
<1>1. PageStepOf(d)
  BY AnyStepOf DEF IInv
<1>2. at'[d] \in {"topics", "expired"} => seen'[d] # 0
  BY <1>1 DEF PageStepOf, PageKeeps, PagesShowExam
<1>3. ASSUME at'[d] = "expired", ~taken'[d], results'[Owner[d]] # Nothing
      PROVE  changed'[d]
  <2>1. at[d] \in {"topics", "expired"} /\ PageKeeps(d)
    BY <1>1, <1>3 DEF PageStepOf
  <2>2. results[Owner[d]] # Nothing \/ changed'[d]
    BY <1>1, <1>3 DEF PageStepOf
  <2> QED
    BY <2>1, <2>2, <1>3
       DEF PageKeeps, PagesShowExam, IInv, RetakeNeedsStalePage
<1> QED
  BY <1>2, <1>3

-----------------------------------------------------------------------------
(* The steps of the composition *)

\* The composition does nothing to the exam that the exam alone does not.
LEMMA HistoryNextIsNext == [HistoryNext]_historyVars => [Next]_vars
BY DEF HistoryNext, historyVars, Below, OpenHistory, HistoryRead, CloseHistory,
   KillHistory, Next

LEMMA HistoryInitInv == HistoryInit => HInv
<1> SUFFICES ASSUME HistoryInit
             PROVE  HInv
  OBVIOUS
<1>1. IInv
  BY InitIInv DEF HistoryInit
<1>2. PagesShowExam
  BY DEF HistoryInit, Init, PagesShowExam
<1>3. HistoryTypeOK /\ HistoryAgreesWithLock
  BY DEF HistoryInit, NoHistory, Histories, HistoryTypeOK, HistoryAgreesWithLock
<1> QED
  BY <1>1, <1>2, <1>3 DEF HInv

\* While the exam goes on below, a history page lies on the page it was opened
\* from, and the lock of that page and its user's results tell the same story.
LEMMA BelowStep ==
  ASSUME HInv, Below
  PROVE  HistoryTypeOK' /\ HistoryAgreesWithLock'
<1>1. Next /\ history' = history
  BY DEF Below
<1>2. ASSUME NEW d \in Devices, history[d].stage # "closed"
      PROVE  /\ at[d] \in {"topics", "expired"} /\ at'[d] = at[d]
             /\ PageKeeps(d) /\ seen'[d] # 0
             /\ outbox[d] # <<>> => outbox'[d] # <<>> \/ changed'[d]
  <2>1. at[d] \in {"topics", "expired"} /\ seen[d] # 0 /\ at'[d] = at[d]
    BY <1>2 DEF HInv, HistoryTypeOK, Below
  <2>2. PageStepOf(d)
    BY <1>1, AnyStepOf DEF HInv, IInv
  <2> QED
    BY <2>1, <2>2 DEF PageStepOf, PageKeeps
<1>3. HistoryTypeOK'
  BY <1>1, <1>2 DEF HInv, HistoryTypeOK
<1>4. HistoryAgreesWithLock'
  <2> SUFFICES ASSUME NEW d \in Devices, history[d].stage = "shown"
               PROVE  /\ taken'[d] => history[d].entry # Nothing
                      /\ history[d].entry # Nothing =>
                           taken'[d] \/ changed'[d] \/ outbox'[d] # <<>>
    BY <1>1 DEF HistoryAgreesWithLock
  <2>1. /\ taken[d] => history[d].entry # Nothing
        /\ history[d].entry # Nothing =>
             taken[d] \/ changed[d] \/ outbox[d] # <<>>
    BY DEF HInv, HistoryAgreesWithLock
  <2>2. /\ PageKeeps(d)
        /\ outbox[d] # <<>> => outbox'[d] # <<>> \/ changed'[d]
    BY <1>2
  <2> QED
    BY <2>1, <2>2 DEF PageKeeps
<1> QED
  BY <1>3, <1>4

\* The result that a history page gets agrees with the page below it.
LEMMA ReadAgrees ==
  ASSUME HInv, NEW d \in Devices, at[d] \in {"topics", "expired"}
  PROVE  /\ taken[d] => OwnEntry(d) # Nothing
         /\ OwnEntry(d) # Nothing => taken[d] \/ changed[d] \/ outbox[d] # <<>>
<1>1. IInv
  BY DEF HInv
<1>2. /\ outbox[d] # <<>> => OwnEntry(d) # Nothing
      /\ outbox[d] = <<>> => OwnEntry(d) = results[Owner[d]]
  BY <1>1, OwnEntryType
<1>3. taken[d] => results[Owner[d]] # Nothing \/ outbox[d] # <<>>
  BY <1>1 DEF IInv, TakenIsBacked, OwnResultExists
<1>4. ~taken[d] /\ results[Owner[d]] # Nothing => changed[d]
  BY <1>1 DEF HInv, IInv, RetakeNeedsStalePage, PagesShowExam
<1> QED
  BY <1>2, <1>3, <1>4

\* Opening, reading and closing the history page.
LEMMA HistoryPageStep ==
  ASSUME HInv, NEW d \in Devices,
         OpenHistory(d) \/ HistoryRead(d) \/ CloseHistory(d)
  PROVE  HistoryTypeOK' /\ HistoryAgreesWithLock'
<1>1. UNCHANGED vars
  BY DEF OpenHistory, HistoryRead, CloseHistory
<1>2. /\ history \in [Devices -> Histories]
      /\ \A e \in Devices : history[e].stage # "closed" =>
           at[e] \in {"topics", "expired"} /\ seen[e] # 0
  BY DEF HInv, HistoryTypeOK
<1>3. ASSUME NEW h \in Histories, history' = [history EXCEPT ![d] = h],
             h.stage # "closed" => at[d] \in {"topics", "expired"},
             h.stage = "shown" =>
               /\ taken[d] => h.entry # Nothing
               /\ h.entry # Nothing => taken[d] \/ changed[d] \/ outbox[d] # <<>>
      PROVE  HistoryTypeOK' /\ HistoryAgreesWithLock'
  <2>1. h.stage # "closed" => seen[d] # 0
    BY <1>3 DEF HInv, PagesShowExam
  <2>2. HistoryTypeOK'
    BY <1>1, <1>2, <1>3, <2>1 DEF HistoryTypeOK, vars
  <2>3. HistoryAgreesWithLock'
    BY <1>1, <1>2, <1>3 DEF HInv, HistoryAgreesWithLock, vars
  <2> QED
    BY <2>2, <2>3
<1>4. CASE OpenHistory(d)
  <2> DEFINE h == [history[d] EXCEPT !.stage = "reading"]
  <2>1. h \in Histories /\ h.stage = "reading"
    BY <1>2 DEF Histories
  <2>2. history' = [history EXCEPT ![d] = h] /\ at[d] \in {"topics", "expired"}
    BY <1>4 DEF OpenHistory
  <2> HIDE DEF h
  <2> QED
    BY <2>1, <2>2, <1>3
<1>5. CASE HistoryRead(d)
  <2> DEFINE h == [stage |-> "shown", entry |-> OwnEntry(d)]
  <2>1. at[d] \in {"topics", "expired"}
    BY <1>2, <1>5 DEF HistoryRead
  <2>2. OwnEntry(d) \in Entries \union {Nothing}
    BY OwnEntryType DEF HInv
  <2>3. h \in Histories /\ h.entry = OwnEntry(d)
    BY <2>2 DEF Histories
  <2>4. history' = [history EXCEPT ![d] = h]
    BY <1>5 DEF HistoryRead
  <2> HIDE DEF h
  <2> QED
    BY <2>1, <2>3, <2>4, <1>3, ReadAgrees
<1>6. CASE CloseHistory(d)
  <2>1. NoHistory \in Histories /\ NoHistory.stage = "closed"
    BY DEF NoHistory, Histories
  <2> QED
    BY <2>1, <1>3, <1>6 DEF CloseHistory
<1> QED
  BY <1>4, <1>5, <1>6

\* The end of the process of d leaves the other devices alone.
LEMMA KillStep ==
  ASSUME HInv, NEW d \in Devices, KillHistory(d)
  PROVE  HistoryTypeOK' /\ HistoryAgreesWithLock'
<1>1. /\ ResetPage(d, "closed") /\ UNCHANGED <<results, outbox>>
      /\ history' = [history EXCEPT ![d] = NoHistory]
  BY DEF KillHistory, Kill
<1>2. history \in [Devices -> Histories] /\ NoHistory \in Histories
  BY DEF HInv, HistoryTypeOK, NoHistory, Histories
<1>3. \A e \in Devices : e # d =>
        /\ at'[e] = at[e] /\ seen'[e] = seen[e] /\ taken'[e] = taken[e]
        /\ changed'[e] = changed[e] /\ history'[e] = history[e]
  BY <1>1, <1>2 DEF ResetPage, HInv, IInv, TypeOK
<1>4. history'[d].stage = "closed"
  BY <1>1, <1>2 DEF NoHistory
<1>5. HistoryTypeOK'
  BY <1>1, <1>2, <1>3, <1>4 DEF HInv, HistoryTypeOK
<1>6. HistoryAgreesWithLock'
  BY <1>1, <1>3, <1>4 DEF HInv, HistoryAgreesWithLock
<1> QED
  BY <1>5, <1>6

LEMMA HistoryNextInv == HInv /\ [HistoryNext]_historyVars => HInv'
<1> SUFFICES ASSUME HInv, [HistoryNext]_historyVars
             PROVE  HInv'
  OBVIOUS
<1>1. [Next]_vars /\ IInv'
  BY HistoryNextIsNext, NextIInv DEF HInv
<1>2. PagesShowExam'
  <2>1. CASE Next
    BY <2>1, PagesStep DEF HInv
  <2>2. CASE UNCHANGED vars
    BY <2>2 DEF HInv, PagesShowExam, vars
  <2> QED
    BY <1>1, <2>1, <2>2
<1>3. HistoryTypeOK' /\ HistoryAgreesWithLock'
  <2>1. CASE UNCHANGED historyVars
    BY <2>1 DEF HInv, HistoryTypeOK, HistoryAgreesWithLock, historyVars, vars
  <2> QED
    BY <2>1, BelowStep, HistoryPageStep, KillStep DEF HistoryNext
<1> QED
  BY <1>1, <1>2, <1>3 DEF HInv

-----------------------------------------------------------------------------
(* Theorems *)

\* The invariant holds at every step of the exam and its history page.
THEOREM HistoryInductive == HistorySpec => []HInv
BY HistoryInitInv, HistoryNextInv, PTL DEF HistorySpec

\* A history page lies on a page that shows its exam, and shows entries.
THEOREM HistoryTypeCorrect == HistorySpec => []HistoryTypeOK
<1>1. HInv => HistoryTypeOK
  BY DEF HInv
<1> QED
  BY <1>1, HistoryInductive, PTL

\* SinavGecmisiPage and the lock of the page below it, which read the same
\* document at different times, do not contradict each other.
THEOREM HistoryAndLockAgree == HistorySpec => []HistoryAgreesWithLock
<1>1. HInv => HistoryAgreesWithLock
  BY DEF HInv
<1> QED
  BY <1>1, HistoryInductive, PTL

\* Opening history pages adds no behaviour to the exam, so that what is proved
\* of the exam holds below them.
THEOREM HistoryKeepsExam == HistorySpec => Spec
<1>1. HistoryInit => Init
  BY DEF HistoryInit
<1> QED
  BY <1>1, HistoryNextIsNext, PTL DEF HistorySpec, Spec
=============================================================================
