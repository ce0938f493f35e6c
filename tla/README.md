# Verification of kamu_sinavi_app

`kamu_sinavi_app` is a Flutter application with which candidates prepare for
the public service examinations: they take multiple choice tests, look at their
past results, take a timed practice exam ("deneme sınavı") and compare
themselves on its leaderboard, keep notes and write to an administrator.  The
program is the Dart code under `src/lib`; its data lives in Firebase (Firestore,
Realtime Database, Auth) and in the SharedPreferences of the device.  Nothing
else in the repository keeps state: the platform runners are generated, and the
cloud functions are 16 lines that log a document.

This directory holds TLA+ models of the program's stateful parts, the TLC runs
that check them, and TLAPS proofs for arbitrary values of the constants.

## 1. The system

Dart runs in one event loop, so nothing is preempted; what interleaves is what
lies between two awaits: taps, timers, stream events, answers of the servers.
On the server side the users' devices and the administrator's interleave.

| Component | State | Operations | Hard part |
|---|---|---|---|
| **Saved test results** (`services/test_results_service.dart`, `pages/performance_report_screen.dart`) | static list `_testResults`; the key `testResults` in SharedPreferences | save, load, delete one, clear | the whole list is written on every change; the list is empty after a restart; `clearTestResults` waits before it clears |
| **Taking a test** (`pages/test_screen.dart`, `pages/result_screen.dart`) | the navigator's routes, one timer and one answer map per TestScreen | answer, finish, time out, back, main menu | the timer outlives the button and, until `dispose`, the page; ResultScreen saves inside `build`; two tests may overlap |
| **Starting a test** (`pages/Kamu_sinavlari.dart`, `pages/customTestPage.dart`) | the options sheet, the chosen topics | fetch questions, push TestScreen | the push happens whenever the questions arrive; the custom test iterates over a list the user can still edit |
| **Practice exam** (`pages/denemeSinaviPage.dart`, `pages/adminDashboard.dart` 1325-1425) | Firestore `practice_exams/active_exam`, its subcollection `results`; `hasUserTakenExam`, `selectedAnswers`, `score` of each page | start, remove, load, select topic, answer, finish | `finishTest` waits three times; results outlive their exam; the end is checked only when the page is built; several devices |
| **Support chat** (`messageToAdminPage.dart`, `admin_chat_screen.dart`, `chat_utils.dart`, dashboard 1023-1149 and 1482-1546) | `messages/{chat}/chat`, `lastSeenByAdmin`; what each dashboard tile read of it | send, delete, mark as seen, open a chat, badge | the badge handler reads, stores and pushes in three steps; the badge compares two timestamps, one of them old |
| **Accounts and presence** (`loginPage.dart`, `registerPage.dart`, `settingsPage.dart`, `presence.dart`, `main.dart`) | auth user, `users/{uid}`, `presence/{uid}`, `rememberMe` | register, sign in, sign out, delete | sequences of remote steps of which one fails |
| **Question bank** (dashboard 241-600) | `questions/{topic}/questionList` | add, edit, delete a question or topic | every operation waits several times; the last question is protected by a count that may be stale |
| **Notes** (`notlarim_screen.dart`) | list of notes in preferences, selected category | add, delete, filter | indices into a filtered list; writes that reach the disk later |
| **Law pages** (`infos/*.dart`) | marked paragraphs | mark, load | none: nothing constructs `MainMenuScreen`, the only way to them |
| **Notifications** (`notifications.dart`, dashboard) | Firestore documents | add, delete, show | names of colours and icons must match |
| Dark mode, onboarding, advertisement | one boolean; none; none | | |

They interact through calls (ResultScreen calls the results service), the
navigator (a TestScreen covers the home page that started it), shared
preferences keys (results, notes and marks), and Firestore documents (the
dashboard writes what the exam page, the chat and the question lists read).

What makes each of them correct:

* results: what was saved and not deleted is in the list, in order, once, and
  survives restarts; the page, the preferences and the disk agree;
* test: routes and timers stay in step, a result is recorded for what the user
  sees, an unfinished sheet is only recorded because the time is up, a test none of
  whose screens is left records nothing;
* exam: an entry on the board is what its user handed in for that exam; a page
  that locks its user out has a result behind it;
* chat: a badge is dark, and an answer marked as seen, only when the messages were
  on the screen;
* accounts: no users document outlives its account; who has signed out or deleted
  the account is not shown as online;
* question bank: a question is stored as it was asked for, under a topic, with an
  answer that is one of its options;
* notes: the note that was pressed is the note that goes.

## 2. Plan

| # | Module | Of | State |
|---|---|---|---|
| 1 | `ResultStore` | saved results | checked, proved |
| 2 | `QuizPromise`, `QuizSession` | taking a test | checked, proved |
| 3 | `ResultsBoard`, `PracticeExam` | practice exam | checked, proved |
| 4 | `QuestionBank` | administrators, questions and topics | checked, proved |
| 5 | `Notes` | the notes page and its preference key | checked, proved |
| 6 | `SupportChat` | messages, marks and the badge, two ends | checked, proved |
| 7 | `AccountRegistry`, `Session` | register, sign in, presence, deletion, with failing steps | checked, proved |
| 8 | `CustomTest` | the custom test's walk over its topics | checked, proved |
| 9 | `QuizHistory` | composition of `QuizSession` and `ResultStore`: what the user sees on a ResultScreen is in the history after a restart | checked, proved |
| 10 | `ExamHistory` | composition of `PracticeExam` and the page that lists one's own answers | checked, proved |

Abstract specifications: `QuizPromise` (a test), `ResultsBoard` (the results of
exams) and `AccountRegistry` (an account); `QuizSession`, `PracticeExam` with
`ExamHistory`, and `Session` implement them.

What a next step would take up: what the liveness properties need of single steps,
that each completion of a write, each tick and each answer brings the awaited state
nearer and that no other step undoes it.

Statements of the program that the models refute or that reading the code refutes,
and that have no run of their own:

* `denemeSinaviPage.dart` 347, "Bu testi daha önce çözdünüz.", once solved is once
  for all: a second tap on "Testi Bitir" while the first call waits stores a second
  entry over the first, with other answers if one was changed;
* `denemeSinaviPage.dart` 292, the message that the exam has ended: a page built
  before the end hands in after it;
* `denemeSinaviPage.dart` 658: the history page marks a result's answers against
  the exam loaded now, which may be another one than it was given for;
* `customTestPage.dart` 232, "Lütfen en az 2 konu seçin.": a topic deselected and
  another selected while the questions arrive makes a test that reads one topic twice;
* dashboard 240, "✅ Doğru Cevap", the correct answer: it is picked from the trimmed options
  (251-257), the options are stored as they were typed (274) and a test compares exactly
  (`result_screen.dart` 48), so that an option typed with a blank at an end counts as
  wrong when it is the right one; neither is an answer an option that was picked before
  its option was retyped or before the fields were cleared;
* `performance_report_screen.dart` 431, "SADECE SEÇİLEN TESTİ SİLER": when a clear still
  waits for the platform while a card is pressed, the list is emptied under the dialog,
  and confirming deletes what is at the old index by then: a test that ended above the
  dialog (`Mishit`);
* dashboard 397, "Son kalan soruyu silemezsiniz.", for two handlers that counted
  two questions each (`LastOneNeedsStaleCount` is what does hold);
* dashboard 1495, "Hiç mesaj yok." while users have written;
* `messageToAdminPage.dart` 67, "görüldü bilgisi eklendi", and 360, "✓ Görüldü" below a
  user's own message: the page of the user marks the answers only, the administrator's
  marks nothing, so that the label stays "✓ Gönderildi" for ever;
* dashboard 1058: while an answer of the administrator is on its way its time is null
  on the device, and the cast of the tile throws; a handler stores the null;
* `main.dart` 157, "Uygulama kapanınca otomatik offline yap", for a user who signed
  in on the login page, or whose process ends before `onDisconnect` is armed.

## 3. The modules

### ResultStore

`memory` is `_testResults`; the history page shows the very same list, so a
change needs no copy.  SharedPreferences keeps an in-process copy of its values:
`setString` and `remove` change it at once (`cache`) and send the value to the
platform, which stores it later and in order (`writes`, `disk`).  `main()` has
awaited `SharedPreferences.getInstance()` before any page exists, so later
awaits of it resume in the same event and `saveTestResult`, `loadTestResults`
and `deleteTestResultAt` are single steps.  `clearTestResults` is two:
`ClearTestResults` up to `await prefs.remove(...)`, and `RemoveAndClear`, which
is the platform's answer together with the `_testResults.clear()` behind it.
`Restart` may happen between any two steps and loses `memory` and `writes`.

A result is the number of the test it stands for.  The delete dialog holds the
index it was opened with (`dialog`); `target` remembers which result was pressed,
and is 0 once the list was cleared under the dialog.  `removed` is what the user asked
for: the pressed result, or all of them; a confirmed dialog that takes another one
(`Mishit`) does not add it there.
`saved`, `removed`, `target` and `inSync` are history variables, read by
properties only: `inSync` says that this process has read or written the stored
list and that no save, deletion or load has overlapped a clear since.

The service's `clearAllTestResults`, which nothing calls, is left out.

### QuizSession and QuizPromise

`stack` is the navigator.  `StartTest` is the button of the options sheet;
`QuestionsArrive` is the end of `_startTest`, which pushes a TestScreen on
whatever is on top by then, with the timer settings the sheet holds by then (any).
`FinishTest`, `Tick` and `TimeOut` are the button and the periodic timer; both
ways lead to `NavigateToResultScreen`, which pushes a ResultScreen that saves when
it is built.  `RebuildResults` is a rebuild (rotation, keyboard, theme): each mounted
ResultScreen saves again, with the answers of that moment, because the answer map is
shared.  `MainMenu` is `pushAndRemoveUntil`.

A route that is popped or removed stays mounted until a transition has ended, its own
or that of the page that replaced it, and `dispose` (`test_screen.dart` 46-50) is what
cancels the timer.  So leaving is two steps: `BackFromTest` and `MainMenu` take the
route off the stack (`phase` "leaving", for a home page that still loads "stranded",
and `exiting` counts the ResultScreens), `DisposeTest` and `DisposeResult` come some
time later.  In between, the timer of a test that was left can run out and push its
ResultScreen over whatever is shown, a stranded home page can push its TestScreen, and
removed ResultScreens save again when they are built again.  How long the transition
takes is left open, as frames may stop while timers go on (the app in the background);
the pages that "Ana Menü" removes together are disposed one by one, which allows more
orders than Flutter has.

`QuizPromise` says what a test is without screens: new, then open, then left, then
over, answered only while open, and recorded until the last of its screens is
unmounted (`Status`).  `ImplementsPromise` is the refinement, with `status` computed
from `phase` and the mounted ResultScreens.

### QuizHistory

`QuizSession` and `ResultStore` together, by EXTENDS of both: the variables of both, the
actions of both, and the calls between them.  (The store's `StoreInit`, `StoreNext`,
`StoreSpec` and `StoreTypeOK` are so named to stand beside those of the tests.)  `FinishAndSave`, `TimeOutAndSave` and
`RebuildAndSave` are the steps in which a ResultScreen is built and calls
`saveTestResult`; `HistoryStep` and `DeleteOne` are those of the history page, which
lies directly on the home page, so that it is used only while no test covers it
(`HistoryOnTop`); a test that was loading is pushed above it and its dialogs.
`RestartAll` is the end of the process for both.

`latest` is, for each test, the number of the result its last ResultScreen
saved, until the test is closed and none of them is on the stack (`ForgetClosed`); `overlapped` says that this result was saved while a clear was waiting for
the platform, and `undone` that a save or deletion overlapped a clear, or that
the process ended with writes in flight.  Those are the exceptions the code makes:
`clearTestResults` empties the list after its await, and with it what came meanwhile.
The history page's cards are taken to be the list itself; a page left during a
clear and opened again shows the list of that moment until it is built again.

### PracticeExam and ResultsBoard

Firestore holds `exam` (`active_exam`, numbered in order of publication) and
`results` (one entry per user).  Each device has one page (`at`, `seen`, `taken`,
`answers`, `scored`) and up to `Jobs` running `finishTest` calls.  Every await is
a step: `ReadExam` and `ReadOwnResult` are the reads of `loadExam`; `FinishTest`
is the button up to the first await (the score is counted), `SendResult` the return
of `getUserFullName` and the call of `set()`, with the answers the page holds
by then, `StoreResult` the arrival at the server, `ShowResult` the end of the
call, which replaces the page.  `AbandonCall` is a call that ends in an exception
or finds its page gone; calls survive `LeavePage` with what the page held
(`Orphaned`).  `Kill` ends the process: calls die, writes that Firestore has
queued survive and are stored when it runs again, whatever the order of the devices.
`ExamEnds` is the clock; nothing on the page reacts to it but a rebuild
(`ShowExpired`).  `StartExam` and `RemoveExam` do not touch `results`, because
Firestore keeps subcollections of replaced and deleted documents.

An entry is the sheet its score was counted from, the answers stored with it, and
the exam it was graded against (`version`, not in the document).

`ResultsBoard` is the promise: one entry per user, kept for good, replaced only
by an entry scored from a sheet that user handed in.

### ExamHistory

`SinavGecmisiPage` above the exam page: `OpenHistory` from the topics, `HistoryRead`
the arrival of the result, again with every rebuild, `CloseHistory` and
`KillHistory`.  `OwnEntry` is what Firestore answers a device: its own queued write
before what the server has.  `Below` is a step of `PracticeExam` that touches no
covered page; the calls of earlier pages, the other devices and the administrator
go on.

### CustomTest

`selected` is `selectedTopics`, `walk` the loop of `_startCustomTest` over it: the
length the Dart iterator expects, the topics read, the questions found.  `TopicRead`
is the answer to the read the loop waits for, together with what the loop does
next: `ListChanged` is the iterator's `ConcurrentModificationError`, after which
`isLoading` stays set; `ReadNext`, `NothingFound` and `PushTest` are the others.
`ReadFails` ends the loop the same way.  The chips stay usable meanwhile
(`SelectTopic`, `DeselectTopic`); the number of questions is read at the end.

`meddled`, `failed` and, in `walk` and `test`, `chosen` and `dropped` are histories:
a chip was tapped while loading, a read failed, the topics chosen at the start, and
those deselected since.

### QuestionBank

`bank` holds the questions by number, `topics` the topic documents that exist;
each administrator has a `form`, a stack of `dialogs` and up to `Calls` running
handlers.  Every await is a step of its handler: adding asks for the topic
(`TopicRead`), creates it (`TopicCreated`) and adds (`QuestionAdded`); deleting
counts (`Counted`, `LastOne`), waits for the dialog (`ConfirmDelete`) and deletes
(`QuestionDeleted`); `CallFails` ends any of them half way.  A page that is left
keeps its handlers (`left`, `Dispose`).  `PopAfterSave` is `Navigator.pop` after
the await of an edit: it closes whatever is on top by then, the page itself if
nothing else is; `AfterPop` says what that means for the handlers that wait for
the dialog.  Deleting a topic leaves its questions stored; the dropdown may still offer
it, as it shows the list of the last read (`SelectTopic`).

The options of a question are stored as they were typed, while its answer is picked
from the trimmed ones (`Trim`, `Selectable`), and a test compares the two exactly.

`asked`, `edited`, `dropped` and the `stale` field of a deletion are histories:
the question that was on the form, and whether its answer was picked from its options
as they are (`kept`), who was edited, which topics were deleted, and whether another
question of the topic went after the count.  `kept` is false once an option is retyped
or the form cleared: `selectedAnswer` is not renewed then, the code stores questions
without a right option, and `PickedAnswerIsOption` says nothing of them.  Edited
questions, whose answer is a letter, it leaves out too.

### Notes

`notlar` is the list of the page, `cached`, `writes` and `disk` the key `notlar`
as in `ResultStore`: the preferences have been awaited before the page exists, so
loading, adding and deleting are one step each.  `DeleteNot(i)` is a long press
on the card of note `i`: it removes at the position of the card among those shown
(`CardIndex`), as `_deleteNot` does; `pressed` remembers which note was pressed, `gone`
the notes that a deletion or the end of the process took.

### SupportChat

Per user: the messages on the server with their times and seen marks (`chat`),
those on the way (`sends`), the marks on the way (`marks`), whether the user's
page is open.  The list of messages is lazy: `BuildBubble` is the builder of one bubble,
which sends the mark of an answer that has none.
On the administrator's side `TapBadge`, `NewestRead`, `LastSeenStored` and
`PushChat` are the three awaits of the badge handler and the push behind them;
`ChatLoaded` is the first snapshot of a chat, which replaces its spinner; `tile` is what
a tile of the dashboard read of `lastSeenByAdmin` when it was built, at some time in the
past, maybe of a `set()` that its own device had not sent yet.  `screens` are the chats
on top of each other.  `BadgeFails` is a call of the handler that fails, with or without
its write, and `AppEnds` the end of the administrator's app.  An answer of the
administrator that is on its way is the newest message on that device and has no time:
the tile throws (`TileFails`), and the handler stores null (`NewestRead`).

`read`, `shown` and `missed` are histories.  `read` is what was in the loaded list of the
top chat: `AdminChatScreen` begins at the oldest message, and that the administrator
scrolls to the newest is not modelled.  `shown` is what was built on the user's page.
`missed` are the messages whose badge the code puts out without showing them: it stores
the time before the push, so a handler that fails after its query, the end of the app, and
a chat that is left before its first snapshot lose what was unread.  `UnreadIsLit` exempts
exactly these, and a tile that shows an error.  There is one administrator, as
`adminId` is a constant of the program; the text of messages is abstracted away, and one
handler of a badge runs at a time, which is a bound.

### Session

`accounts` is Firebase Auth, `docs` the `users` collection, `presence` the records
in the Realtime Database; the device has its `user`, `rememberMe` (`remembered`) and
the navigator's `stack`.  A handler is a record of `calls`: the await it has reached
and where its page is in the stack, 0 when the page is gone (`Unmounted`), since what
a handler does after an await depends on that.  `_register` is `PressRegister`,
`Created`, the stored document, `MailSent`; `_signIn` is `PressLogin`, `SignedIn`,
`RoleRead`, then `SignOutUnverified`, or `RememberStored` and the stored presence
record; sign-out and deletion are in the same way the press, the stored writes, and
`SignedOut` and `AccountDeleted`.  `CallFails`, `MutationRefused` and `WriteRefused`
end a handler half way.  `WriteStored` and `MutationStored` are the database's answer
together with what the waiting handler does next.

`Tracked` is the AuthGate: for a remembered user it writes "online" and then arms
`onDisconnect`, whenever it is built or hears of another user.  Switching dark mode
builds every gate of the stack again (`AppRebuilt`).  What a connection armed goes
to `stale` when it ends, and `ServerNotices` writes it at some later time.  `Kill`
forgets handlers and presence writes, not the queued writes to Firestore.

`leaving` and `out` are histories: the sign-out and deletion handlers that no login
of the same account and no gate built meanwhile has overlapped, and who has left by one.
The exemption is needed: a gate that is built, again by a switch of the theme or anew by
"Giriş yapmadan devam et" of the login page below (`WithoutLogin`), or a login of the
same account writes "online" after the "offline" of the sign-out that waits, and its
user is then shown as online when signed out.  Administrators' accounts, the reset of a password
and the change of a name are left out.

`AccountRegistry` is what the list of users is promised: an account is new, listed,
unlisted and gone, in this order and once; `Session` computes it from `accounts`, `docs`
and the writes on their way.

### Code outside the repository

`Flush`, `StoreList`, `StoreResult`, `Kill` and `AppEnds` model SharedPreferences,
Firestore and the operating system as the code relies on them: asynchronous, in
order, not lost (the pending writes of SharedPreferences and of the Realtime
Database die with the process, Firestore's do not).

## 4. The runs

| Run | Module, instance | Shows |
|---|---|---|
| `results` | 4 results, 3 writes in flight | lists and preferences agree; nothing is lost silently; a clear empties the list |
| `results_lost` | 2 results | **violated** `StoredResultsKept` |
| `quiz` | 2 tests, 2 questions, 3 records, 4 removed ResultScreens | routes, timers, records; refinement of `QuizPromise` |
| `quiz_history` | 2 tests of 1 question, one with or without a timer and one without, 2 records each, 3 results, 2 writes | what is shown is listed, what was deleted stays deleted, a timed test left alone reaches the disk |
| `exam` | `ExamHistory`: 1 user on 2 devices, 2 exams | entries, queue, lock, stale pages, history pages; a sent result is stored; refinement of `ResultsBoard` |
| `exam_lockout` | 1 user on 2 devices, 2 exams | **violated** `LockedOutMeansTaken` |
| `bank` | 1 administrator, 2 handlers, 1 topic, 2 questions, one of them edited, a text with and without a blank | every question is below a topic that exists or was deleted, is stored as asked, stays deleted; an answer picked from options without blanks is one of them; the last one goes on a stale count only; a saved edit closes the page only after its dialog |
| `custom` | 3 topics, 2 numbers of questions | a stuck button and a test of other topics need a chip tapped meanwhile or a failed read; loading ends |
| `notes` | 4 notes, 3 writes, 2 categories | page, process and disk agree; a long press costs one note; a note is stored |
| `notes_delete` | 3 notes | **violated** `LongPressDeletes` |
| `session` | 1 account, 2 handlers, 2 pages, 3 presence writes, 2 document writes | no document outlives its account; leavers are not shown online; refinement of `AccountRegistry` |
| `chat` | 1 user, 2 messages, 2 screens, 2 sends | a dark badge and a seen mark are true |

The largest are `session` (3.9 million states), `bank` (1.6 million), `chat` (1.3 million)
and `exam` (1.0 million).  The type invariants of `ResultStore`,
`PracticeExam`, `ExamHistory`, `SupportChat`, `CustomTest` and `Notes` are not among
the properties of these runs, as they are proved for every instance.

The properties are stated, each with the behaviour it is about, at the end of
each module.

**What the violated ones say of the program.**

* `StoredResultsKept`: after a restart `_testResults` is empty until the history
  page is opened, and `saveTestResult` writes the list as it is: one test taken
  first wipes the stored history.  The onboarding promises that every test solved
  before can be reviewed.  `NoSilentLoss` is what does hold: once a process has
  opened the history page or saved something, a result goes only because the user asked
  for it, or by a delete dialog whose list a clear has emptied in the meantime.
* `LockedOutMeansTaken`: a result left from an earlier exam locks its user out of
  the next, with the message that this test was solved before.
* `LongPressDeletes`: "uzun basarak silebilirsiniz"; with a category selected the
  position in the filtered grid removes another note of the whole list.
  `OneNotePerPress` is what does hold: one press costs one note.

**Bounds.** `MaxResults`, `MaxWrites`, `MaxRecords`, `MaxExams`, `MaxAdded`,
`MaxEdited`, `Timed`, `MaxNotes`, `MaxMessages`, `MaxScreens`, `MaxSends`, `MaxExiting`, `MaxAccounts`,
`MaxRoutes`, `MaxSent`, `MaxMutations` and `MaxQuestions` bound counters the program
does not bound; they are guards of the actions.  Three results are the least with
which a deletion in the middle can break an order, one more leaves room to save
after a deletion; three writes hold a list, a removal and a list again.  Two tests
suffice for one to cover the other, with two questions so that a sheet can be
partial; `Duration` 2 gives a timer that has, and one that has not, run down.  Two
exams are needed for results to survive one, and two devices for one attempt to
overlap another and for a stale page to differ from a current one; any number of
calls, options and devices is in the theorems, and beyond five minutes of TLC.  In
`quiz_history` two tests of one question can each end by the button, and one of them
(`Timed`) by the timer as well; a second timer triples the graph on which the liveness
property is checked, and two timers are in `quiz` and in the theorems.  Three results
leave room for one to be shown again after a deletion or a clear; `Room` keeps a result
for every timer that can still fire, so that no timer is stopped by the bound.  `MaxExiting` 1 lets one removed ResultScreen at a time save again; `quiz` has four,
so that "Ana Menü" over two ResultScreens is in that run and in the theorems.
Three topics in `custom` are the least with which a topic can be swapped
for one that was not chosen.  Two questions are the least with
which a topic has a last one that a stale count lets go, two handlers of one
administrator interleave as two administrators do except for the shared form and
dialogs.  `MaxEdited` is how many of the questions, the first to be added, can be edited,
as every draft of an edit multiplies the states.  The text `A` stands for what is typed and for the letter the edit
dialog offers as an answer: the answer of an edited question matters to no property.
Four notes in two
categories make a filter that shifts positions; two messages leave one that arrives
between two steps of the handler that read the one before, and two screens a chat below
another one that loads first.  In `session`, two handlers let a login, a
sign-out and a deletion overlap in pairs, two routes give a page over the gate that
can go while its handler waits, three presence writes hold a sign-out's among the
gate's two, and two document writes a deletion behind a registration; a third page
quadruples the states, and with a second account the run does not end in minutes, so
that handlers of two accounts on one device are covered by the theorems only.

The runs of `QuestionBank` and `Session` permute administrators and handlers, which no
definition distinguishes; their properties are invariants and action properties.
Deadlock is checked for `ResultStore`, `Notes`, `SupportChat`, `CustomTest` and
`Session`, where there is always something left to do; the others may really stop:
the tests are used up, the bound on calls is met, every administrator has left.

**Fairness.** `StoreFairSpec` of `ResultStore` and `FairSpec` of `Notes` assume that the platform
completes preference writes; `QuizSpec` that, and that a timer that is not
cancelled keeps firing (`Timer.periodic`); `HistorySpec` that Firestore sends what
it has queued; `FairSpec` of `CustomTest` that a read of Firestore returns, with an
answer or with an error, as its cache makes it do without a connection.  No
fairness is assumed of users, of administrators, of restarts, or that a read
succeeds.

## 5. The proofs

The modules `ResultStore_proof`, `QuizHistory_proof` (which also holds the theorems of
`QuizSession`), `ExamHistory_proof` (which also holds those of `PracticeExam`), `QuestionBank_proof`, `SupportChat_proof`,
`CustomTest_proof`, `Notes_proof` and `Session_proof` hold
theorems checked by TLAPS for every value of the constants, under the named
assumptions of the modules only: the bounds are natural numbers, a missing key is not
a list, a missing document is not an entry, no choice is not an option, every device
has one owner, the navigator has room for a page, no handler is the 0 that marks a
write nobody waits for.  In each, `Inductive` (`StoreInductive`, `QuizInductive`) is the inductive invariant and
the other theorems follow from it.

**ResultStore.**  The invariants of the run `results` are not inductive: after
`RemoveAndClear` the list is empty, and nothing in them says that the cached list is.
`StoreInv` adds `ClearedFirst` (a process in sync has no cached list while a clear is
half done), `NothingStored` (a process without a stored list has an empty list, or
is about to), `StoreCatchesUp` (the last write on its way is the cached value, which a
restart with nothing in flight needs) and `DialogAbovePage`.  The lemmas state what appending and removing
do to chronological lists and to the queue of writes; `PreferenceStep` and
`CompletionStep` say once what a call of the preferences and its completion do.
`StoreInductive` gives `StoreTypeCorrect`, `HistoryInOrder`, `ListsAgree` and
`DialogNamesTarget`; `LossStep` uses it to prove the action property in
`NothingLostSilently`: a dialog whose target is known takes that target, by `DialogTarget`,
and one whose list was cleared takes `Mishit` at most.

**QuizSession.**  `ShownIsRecorded` looks at the route on top, which changes when a
route is popped, so `ResultsSaved` says it of every ResultScreen of the stack: its
answers were saved last; and that the answers of every mounted one, also of those on
their way out, are complete unless the time ran out.  It is kept because
answers change only while their TestScreen is on top, and then no ResultScreen of
that test is on the stack (`TopHasNoResults`, from `ResultAboveItsTest`), which is
also why the button adds a first ResultScreen and never a second one.  A test that was
left has no such order: its timer runs until `DisposeTest` and may push one ResultScreen
anywhere, which the two route invariants therefore allow, with `timedOut` set.
`NothingBefore` says that nothing has happened to a test in `Waiting`, one that was not
pushed yet, a stranded one included.  `MountedCount` and `MountedPhase` tie the number of
mounted ResultScreens, from which `Status` is computed, to the stack and to `exiting`;
`TestSteps` sorts every step into what it does to each test, and `PromiseStep` maps these
to the promise.

**QuizHistory.**  A step of the composition is a step of the tests, or the end of the process
(`TestsEnd`, which to the tests is what "Ana Menü" is); and a step of the store, or
`RebuildAndSave`, or `MainMenuAll`.  With the last two shown to keep `StoreInv` (a rebuild
appends and writes several lists at once: `Rebuilt`, `ListsWritten`), the invariants
of both parts hold, and `CompositionKeepsPromise` and `CompositionLosesNothing` carry over.
`ShownIsKept` is not inductive: a pop uncovers a ResultScreen that saved long ago, and a
clear that resumes empties the list.  `KeptWhileShown` says it of every ResultScreen of the
stack, and that no clear is under way while one is there whose save overlapped none:
a clear begins on the history page only, with nothing above it (`HistoryOnTop`), and what
is pushed after it overlaps it.  `DeletedStaysDeleted` speaks of the stored list,
but what is saved next is the list in memory, and that still holds everything until a
clear resumes: `RemovedStayGone` says that nothing removed is in either, the
second but for a clear under way, and that only results of the past are removed, so
that no new one is.
`Related` is what each kind of step does to both.

**PracticeExam.**  `EntryWasHandedIn` depends on what running calls will store, so
`IInv` adds `CallsBacked`: a call waiting for the name has an answering page whose
sheet is complete and handed in, or holds such an entry if its page is gone, and a
sent call holds one.  `OutboxMatchesCalls` is needed to know that the call at the
head of the queue is a sent one.  `PageStep` covers the four ways a page
goes or is made anew.  `RefinesBoard` maps `FinishTest` to `HandIn`,
`StoreResult` to `Enter` and everything else to stuttering.

**SupportChat.**  `UnreadIsLit` compares with what a tile knows, which is renewed
from what is stored or about to be, which is what a handler read some steps before.
`UnreadIsMinded` says why an unread message is not forgotten (`Minded`): it is newer than
both; or it is newer than what is stored, and the tile is ahead because it knows the time
that is on its way; or the handler that stored its time will push the chat; or that chat
is on the screens, loaded or not; or it is among the `missed`.  To keep it when a message arrives it takes
`KnownTimes` and `Timely` (no time that is kept anywhere is of the future), and when a
chat is loaded or uncovered `ReadOnTop` (what the list on the screen holds has been read).
`SeenMeansShown` is inductive with them: the times of messages are never used again, so
that a mark of an answer that was deleted meets no later message.  `ObserveStep` says once
what the histories keep and gain, `MindedStep` that a step which adds no message and drops
no reason keeps `UnreadIsMinded`, and `AdminStep` and `UserStep` what the steps of either
end leave alone.

**ExamHistory.**  `HInv` is `PracticeExam`'s invariant, `PagesShowExam` (a page that shows
topics has loaded an exam, and one that says the exam is over although its user has a
result has read before that result came), the type of the history pages and
`HistoryAgreesWithLock`.  `HistoryKeepsExam` shows that every step of the composition is a
step or a stutter of the exam, so that the theorems about `PracticeExam` carry over.

**QuestionBank.**  `IInv` holds the invariants of the run together with what the
waiting handlers and the dialogs rely on.  `CallsKnow`: the question a handler adds
is not stored yet and is the one that was asked for, its topic exists once it is
about to be added, and a question that is deleted or edited is still of the topic it
was found in; without the first, an addition could bring a deleted question back, and
without the second `QuestionsHaveTopic` is lost in the step between `set` and `add`.
`AddsDiffer` and `NotAskedYet` keep additions apart; `PickedLast` is the answer on
the form and in what was asked.  `DialogsKnow`, `DialogsDiffer`, `LeaversDone` and
`OpenEdits` tie dialogs to handlers: a delete dialog belongs to one handler that waits
for it, and an edit whose dialog was not closed still has one, from which
`PageNeedsGoneDialog` follows.  `QuietStep`, `FormStep` and `DialogPopped` say once
what the many small steps keep.

**CustomTest.**  `WalkUnderWay` describes the loop (it has read at least one topic and
no more than it began with, and the page is loading), `Undisturbed` says that what has been read is the
beginning of the list and that the list is the one chosen at the start, up to
additions, as long as nothing of it was deselected.

**Notes.**  `PageIsCached`, `CatchesUp` and `AllGrown` say that the page and the
process hold the same list, that the last write on its way is that list, and that
every list kept anywhere is one of notes in the order they were added.

**Session.**  `DocsHaveAccounts` and `LeaversNotOnline` speak of the moment a write arrives,
which is long after the handler that sent it has gone on, failed, or died with its
process.  `ListInv` says what holds on the way: `Registered` (whoever is mentioned
anywhere has an account, maybe a deleted one), `Awaited` (the write a handler waits for is
the one it has come to, and the only one of it), `SetsLead` (a document still to be
written is for an account that exists, has none, and gets nothing else before it) and
`EndersUnlisted` (who is about to lose the account has no document and none on its way).
Without `SetsLead` a registration that Firestore still has queued could write its document
behind the deletion of the account; with it, `EndersUnlisted` follows from the order of
the queue at the step in which the deletion of the document is stored.
`LeaversOffline` follows a sign-out or deletion through its awaits: nothing sets the
account online behind its "offline", and once that is stored nothing sets it online at
all; `OutStaysOffline` is the same of who has left, and gives `LeaversNotOnline`.  The
steps are sorted by what they do: `StepProtects` to the two queues and the documents,
`ListKept` to the list, `Lived` to the life of each account, which `RefinesRegistry`
reads off one at a time because `accounts`, `docs` and the queue change for one account
in a step.

The proof corrected the model.  An earlier `leaving` was not emptied by
`WithoutLogin`: after the sign-out was pressed, two taps on back uncover the login
page, whose "Giriş yapmadan devam et" builds a gate that writes "online" behind the
"offline", and the sign-out then ends.  This takes four pages, more than the run has; TLC
finds it with five.

**Model-checked only.**  The liveness properties (`ClearTakesEffect`,
`TimedTestIsStored`, `SentResultIsStored`, `NoteIsStored`, `LoadingEnds`), since the
prover does not handle fairness.

## 6. Not modelled

* The law and study pages: nothing constructs `MainMenuScreen`, the only way to them,
  and marking a paragraph is one assignment and one write.
* Notifications: documents that are added, deleted and shown; the names of colours
  and icons that both sides use are a table, and tables have no behaviour to check.
* Dark mode (one boolean), the onboarding, the advertisement, whose countdown is never
  shown, and the cloud functions, which log a document.
* The platform runners, and what they vendor: most files of the repository, and all
  of its C and C++, are the Firebase, gRPC, BoringSSL and Abseil sources under
  `ios/Pods` and the generated shells of the platforms.  They are dependencies, not
  this program, and no definition here maps them: the program is the Dart code
  under `lib`, so a count of covered C and C++ lines is zero.
* Within the modelled components: the percentage and wording of results; the
  leaderboard's order; writes of results the server refuses; two processes of the app
  on one device; the wording of questions, notes and messages; the search field of
  the question manager; administrators' accounts, the reset of a password and the
  change of a name.

`PROJECT.json` lists each component with its state, and every hazard met while
reading the code, with the property that covers it or the reason none does.
