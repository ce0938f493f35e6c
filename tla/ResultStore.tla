---------------------------- MODULE ResultStore ----------------------------
(***************************************************************************)
(* TestResultsService and the history page that reads it.                  *)
(*                                                                         *)
(* The service keeps every solved test in a static list (memory) and, on   *)
(* every change, writes the WHOLE list under one SharedPreferences key.    *)
(* SharedPreferences itself is a write-behind cache: set and remove update *)
(* an in-process copy at once (cache) and send the value to the platform,  *)
(* which stores it later, in order (writes, then disk).  main() has        *)
(* awaited getInstance before any page exists, so every later "await       *)
(* getInstance()" resumes in the same event: saving, loading and deleting  *)
(* are single steps.  The one call that waits for the platform before it   *)
(* touches memory is clearTestResults.                                     *)
(*                                                                         *)
(* A result is the number of the solved test it belongs to; its questions, *)
(* answers, score and date are abstracted away.                            *)
(***************************************************************************)
EXTENDS Naturals, SequencesExt

CONSTANTS
  MaxResults,  \* bound: how many tests are solved
  MaxWrites,   \* bound: how many preference writes may be in flight
  Absent       \* the value of a preference key that is not set

ASSUME BoundsAssumption == MaxResults \in Nat /\ MaxWrites \in Nat
ASSUME AbsentAssumption == Absent \notin Seq(Nat)

VARIABLES
  memory,   \* _testResults; the list the history page shows is this same list
  cache,    \* SharedPreferences' in-process copy of the key 'testResults'
  disk,     \* what the platform has stored under that key
  writes,   \* set / remove calls the platform has not completed, oldest first
  page,     \* is the history page open?
  dialog,   \* the delete dialog: the captured index, 0 when it is closed
  saved,    \* history: how many tests were solved so far
  removed,  \* history: the results the user asked to delete
  target,   \* history: the result that was long-pressed, 0 once memory was
            \*   cleared under the open dialog
  inSync    \* history: this process has read or written the stored list and
            \*   nothing overlapped a pending clearTestResults since

storeVars == <<memory, cache, disk, writes, page, dialog, saved, removed,
               target, inSync>>

Results == Nat \ {0}
Stored  == Seq(Results) \union {Absent}

Contents(v) == IF v = Absent THEN <<>> ELSE v

HasRemove(ws) == \E i \in 1..Len(ws) : ws[i] = Absent

\* A clearTestResults call is waiting for the platform to remove the key.
ClearPending == HasRemove(writes)

-----------------------------------------------------------------------------
StoreInit ==
  /\ memory = <<>>
  /\ cache = Absent
  /\ disk = Absent
  /\ writes = <<>>
  /\ page = "closed"
  /\ dialog = 0
  /\ saved = 0
  /\ removed = {}
  /\ target = 0
  /\ inSync = FALSE

\* prefs.setString / prefs.remove: visible in the process at once, stored later.
SetPreference(v) ==
  /\ Len(writes) < MaxWrites
  /\ cache' = v
  /\ writes' = Append(writes, v)

\* Faulty variants of SaveTestResult: the newest result is put first; the list
\* is changed but not written.
SaveTestResultFirst ==
  /\ saved < MaxResults
  /\ saved' = saved + 1
  /\ memory' = <<saved + 1>> \o memory
  /\ SetPreference(memory')
  /\ inSync' = ~ClearPending
  /\ UNCHANGED <<disk, page, dialog, removed, target>>

SaveTestResultInMemory ==
  /\ saved < MaxResults
  /\ saved' = saved + 1
  /\ memory' = Append(memory, saved + 1)
  /\ inSync' = ~ClearPending
  /\ UNCHANGED <<cache, disk, writes, page, dialog, removed, target>>

\* saveTestResult, called by a ResultScreen that is built.  A test that was
\* still loading when the user left for the history page is pushed above it,
\* so a save may come at any time.
SaveTestResult ==
  /\ saved < MaxResults
  /\ saved' = saved + 1
  /\ memory' = Append(memory, saved + 1)
  /\ SetPreference(memory')
  /\ inSync' = ~ClearPending
  /\ UNCHANGED <<disk, page, dialog, removed, target>>

\* Faulty variants of LoadTestResults: addAll without clear; clear without
\* addAll.
LoadTestResultsTwice ==
  /\ page = "closed"
  /\ page' = "shown"
  /\ memory' = memory \o Contents(cache)
  /\ inSync' = (cache = Absent \/ ~ClearPending)
  /\ UNCHANGED <<cache, disk, writes, dialog, saved, removed, target>>

LoadTestResultsEmpty ==
  /\ page = "closed"
  /\ page' = "shown"
  /\ memory' = <<>>
  /\ inSync' = (cache = Absent \/ ~ClearPending)
  /\ UNCHANGED <<cache, disk, writes, dialog, saved, removed, target>>

\* The history page opens: initState calls loadTestResults.  A missing key
\* leaves the list as it is.
LoadTestResults ==
  /\ page = "closed"
  /\ page' = "shown"
  /\ memory' = IF cache = Absent THEN memory ELSE cache
  /\ inSync' = (cache = Absent \/ ~ClearPending)
  /\ UNCHANGED <<cache, disk, writes, dialog, saved, removed, target>>

\* The back arrow of the history page.
CloseHistory ==
  /\ page = "shown" /\ dialog = 0
  /\ page' = "closed"
  /\ UNCHANGED <<memory, cache, disk, writes, dialog, saved, removed, target,
                 inSync>>

\* A card is long-pressed: the confirmation dialog captures its index.
AskDelete(i) ==
  /\ page = "shown" /\ dialog = 0
  /\ dialog' = i
  /\ target' = memory[i]
  /\ UNCHANGED <<memory, cache, disk, writes, page, saved, removed, inSync>>

CancelDelete ==
  /\ dialog # 0
  /\ dialog' = 0
  /\ target' = 0
  /\ UNCHANGED <<memory, cache, disk, writes, page, saved, removed, inSync>>

\* Faulty variant: the shortened list is not written back.
DeleteTestResultInMemory ==
  /\ dialog # 0 /\ dialog <= Len(memory)
  /\ memory' = RemoveAt(memory, dialog)
  /\ dialog' = 0
  /\ target' = 0
  /\ removed' = removed \union ({target} \ {0})
  /\ inSync' = ~ClearPending
  /\ UNCHANGED <<cache, disk, writes, page, saved>>

\* deleteTestResultAt with an index that is still in the list.  What the user
\* asked to delete is the result that was pressed, whatever the index names now.
DeleteTestResultAt ==
  /\ dialog # 0 /\ dialog <= Len(memory)
  /\ memory' = RemoveAt(memory, dialog)
  /\ SetPreference(memory')
  /\ dialog' = 0
  /\ target' = 0
  /\ removed' = removed \union ({target} \ {0})
  /\ inSync' = ~ClearPending
  /\ UNCHANGED <<disk, page, saved>>

\* deleteTestResultAt with an index the list no longer has does nothing.
DeleteOutOfRange ==
  /\ dialog > Len(memory)
  /\ dialog' = 0
  /\ target' = 0
  /\ UNCHANGED <<memory, cache, disk, writes, page, saved, removed, inSync>>

\* clearTestResults up to its await: the key is gone from the process, the
\* list is not cleared yet.
ClearTestResults ==
  /\ page = "shown" /\ dialog = 0
  /\ SetPreference(Absent)
  /\ removed' = 1..saved
  /\ inSync' = TRUE
  /\ UNCHANGED <<memory, disk, page, dialog, saved, target>>

\* The platform stores the oldest list that was sent to it.
StoreList ==
  /\ writes # <<>> /\ Head(writes) # Absent
  /\ disk' = Head(writes)
  /\ writes' = Tail(writes)
  /\ UNCHANGED <<memory, cache, page, dialog, saved, removed, target, inSync>>

\* Faulty variant: the list is not cleared after the await.
RemoveOnly ==
  /\ writes # <<>> /\ Head(writes) = Absent
  /\ disk' = Absent
  /\ writes' = Tail(writes)
  /\ UNCHANGED <<memory, cache, page, dialog, saved, removed, target, inSync>>

\* The platform removes the key and clearTestResults resumes after its await:
\* it clears whatever the list holds by now.
RemoveAndClear ==
  /\ writes # <<>> /\ Head(writes) = Absent
  /\ disk' = Absent
  /\ writes' = Tail(writes)
  /\ memory' = <<>>
  /\ target' = 0
  /\ UNCHANGED <<cache, page, dialog, saved, removed, inSync>>

\* The process ends at any moment and starts again: the static list is empty,
\* the preferences are read from the disk, and nothing calls loadTestResults
\* until the history page opens.
Restart ==
  /\ memory' = <<>>
  /\ cache' = disk
  /\ writes' = <<>>
  /\ page' = "closed"
  /\ dialog' = 0
  /\ target' = 0
  /\ inSync' = FALSE
  /\ UNCHANGED <<disk, saved, removed>>

Flush == StoreList \/ RemoveAndClear

StoreNext ==
  \/ SaveTestResult
  \/ LoadTestResults
  \/ CloseHistory
  \/ \E i \in 1..Len(memory) : AskDelete(i)
  \/ CancelDelete
  \/ DeleteTestResultAt
  \/ DeleteOutOfRange
  \/ ClearTestResults
  \/ StoreList
  \/ RemoveAndClear
  \/ Restart

StoreSpec == StoreInit /\ [][StoreNext]_storeVars

\* The platform answers every preference write; users are never obliged to act.
StoreFairSpec == StoreSpec /\ WF_storeVars(Flush)

-----------------------------------------------------------------------------
(***************************************************************************)
(* Properties                                                              *)
(***************************************************************************)

\* Type correctness.
StoreTypeOK ==
  /\ memory \in Seq(Results)
  /\ cache \in Stored
  /\ disk \in Stored
  /\ writes \in Seq(Stored)
  /\ page \in {"closed", "shown"}
  /\ dialog \in Nat
  /\ saved \in Nat
  /\ removed \subseteq Results
  /\ target \in Nat
  /\ inSync \in BOOLEAN

Chronological(s, n) ==
  /\ \A i \in 1..Len(s) : s[i] <= n
  /\ \A i, j \in 1..Len(s) : i < j => s[i] < s[j]

\* The list, the cached and the stored copy and every copy on its way to the
\* disk hold each solved test at most once, in the order they were solved,
\* whatever mixture of loads, saves, deletions, clears and restarts led there.
InOrder ==
  /\ Chronological(memory, saved)
  /\ Chronological(Contents(cache), saved)
  /\ Chronological(Contents(disk), saved)
  /\ \A i \in 1..Len(writes) : Chronological(Contents(writes[i]), saved)

\* Once the process has read or written the stored list, and while no clear is
\* half done, the list the history page shows is the stored one, unless a save
\* or a deletion overlapped a clear.
Agreement ==
  inSync /\ ~ClearPending => memory = Contents(cache)

\* The index a delete dialog captured still names the card that was
\* long-pressed, whatever happened while the dialog was open (a test that
\* finished above it, writes that completed), unless the list was cleared.
DialogTarget ==
  dialog # 0 /\ target # 0 => dialog <= Len(memory) /\ memory[dialog] = target

\* The result a confirmed dialog takes from the list although another one was
\* pressed: the list was cleared under the dialog and has an entry again at the
\* captured index.
Mishit ==
  IF dialog \in 1..Len(memory) /\ target = 0 /\ dialog' = 0
  THEN {memory[dialog]} ELSE {}

\* A process that knows the stored list drops a result only when the user asked
\* to delete it, or when a dialog that a clear has emptied is confirmed over a
\* newer result.  Nothing else may drop one: no save, load or clear that
\* overlaps, and no dialog whose list was not cleared.
NoSilentLoss ==
  [][inSync /\ inSync' =>
       Range(Contents(cache)) \ Range(Contents(cache'))
         \subseteq removed' \union Mishit
    ]_storeVars

\* What the onboarding text promises (helpers/strings.dart:10): every test
\* solved before can be reviewed.  A stored result disappears only when the
\* user deleted it.  The code breaks it: see the run results_lost.
StoredResultsKept ==
  [][Range(Contents(disk)) \ Range(Contents(disk')) \subseteq removed]_storeVars

\* clearTestResults always comes to emptying the list the page shows.
ClearTakesEffect == ClearPending ~> memory = <<>>
=============================================================================
