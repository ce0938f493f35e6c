------------------------------- MODULE Notes -------------------------------
(***************************************************************************)
(* NotlarimScreen: the notes of the user, kept as a list by the page and   *)
(* as a whole in SharedPreferences under the key notlar.                   *)
(*                                                                         *)
(* main() has awaited SharedPreferences before any page exists, so that    *)
(* the getInstance calls of the page return before anything else happens:  *)
(* loading, adding and deleting a note are one step each.  A write is      *)
(* visible in the process at once and reaches the disk later, in order; a  *)
(* process that ends loses the writes under way.                           *)
(*                                                                         *)
(* A note is its number, in the order the notes were added, and category.  *)
(***************************************************************************)
EXTENDS Naturals, FiniteSets, SequencesExt

CONSTANTS
  Categories,  \* the categories of a note: Önemli, Yapılacaklar
  All,         \* the filter that shows every note: Hepsi
  MaxNotes,    \* bound: how many notes are added
  MaxWrites    \* bound: writes to the preferences under way

ASSUME AllAssumption == All \notin Categories
ASSUME BoundsAssumption == MaxNotes \in Nat /\ MaxWrites \in Nat \ {0}

VARIABLES
  open,      \* whether the page is shown
  notlar,    \* the notes of the page
  selectedCategory,
  cached,    \* the key notlar, as the process reads it
  writes,    \* the values on their way to the disk, oldest first
  disk,      \* the key notlar, on disk
  added,     \* history: how many notes were added
  pressed,   \* history: the note the last step long pressed, or 0
  gone       \* history: the notes that were deleted, or that the end of the
             \*   process took

vars == <<open, notlar, selectedCategory, cached, writes, disk, added, pressed,
          gone>>

Note == [id : 1..MaxNotes, category : Categories]
Ids(list) == {n.id : n \in ToSet(list)}

Init ==
  /\ open = FALSE
  /\ notlar = <<>>
  /\ selectedCategory = All
  /\ cached = <<>>
  /\ writes = <<>>
  /\ disk = <<>>
  /\ added = 0
  /\ pressed = 0
  /\ gone = {}

\* prefs.setStringList('notlar', ...).
SetStringList(value) ==
  /\ Len(writes) < MaxWrites
  /\ cached' = value
  /\ writes' = Append(writes, value)

\* Faulty variant: the page keeps the notes of its last visit.
OpenPageAgain ==
  /\ ~open
  /\ open' = TRUE
  /\ selectedCategory' = All
  /\ pressed' = 0
  /\ UNCHANGED <<notlar, cached, writes, disk, added, gone>>

\* The page is opened, on a fresh state, and loads the notes.
OpenPage ==
  /\ ~open
  /\ open' = TRUE
  /\ notlar' = cached
  /\ selectedCategory' = All
  /\ pressed' = 0
  /\ UNCHANGED <<cached, writes, disk, added, gone>>

ClosePage ==
  /\ open
  /\ open' = FALSE
  /\ pressed' = 0
  /\ UNCHANGED <<notlar, selectedCategory, cached, writes, disk, added, gone>>

SelectCategory(category) ==
  /\ open
  /\ selectedCategory' = category
  /\ pressed' = 0
  /\ UNCHANGED <<open, notlar, cached, writes, disk, added, gone>>

\* The positions of the notes the page shows: those of its category.
FilteredNotlar ==
  {i \in DOMAIN notlar : selectedCategory \in {All, notlar[i].category}}

\* The position among the notes that are shown of the one at position i.
CardIndex(i) == Cardinality({k \in FilteredNotlar : k <= i})

\* Faulty variant of AddNot: the notes that are shown are saved.
AddNotFiltered(category) ==
  /\ open /\ added < MaxNotes
  /\ added' = added + 1
  /\ notlar' = Append(SelectSeq(notlar, LAMBDA n :
                               selectedCategory \in {All, n.category}),
                      [id |-> added + 1, category |-> category])
  /\ SetStringList(notlar')
  /\ pressed' = 0
  /\ UNCHANGED <<open, selectedCategory, disk, gone>>

\* Faulty variant of AddNot: the note is shown and not saved.
AddNotUnsaved(category) ==
  /\ open /\ added < MaxNotes
  /\ added' = added + 1
  /\ notlar' = Append(notlar, [id |-> added + 1, category |-> category])
  /\ pressed' = 0
  /\ UNCHANGED <<open, selectedCategory, cached, writes, disk, gone>>

\* "Ekle" in the dialog of a new note, with its category.
AddNot(category) ==
  /\ open /\ added < MaxNotes
  /\ added' = added + 1
  /\ notlar' = Append(notlar, [id |-> added + 1, category |-> category])
  /\ SetStringList(notlar')
  /\ pressed' = 0
  /\ UNCHANGED <<open, selectedCategory, disk, gone>>

\* A long press on the card of the note at position i.  _deleteNot is given the
\* position of the card and removes at that position of all the notes.
DeleteNot(i) ==
  /\ open /\ i \in FilteredNotlar
  /\ notlar' = RemoveAt(notlar, CardIndex(i))
  /\ SetStringList(notlar')
  /\ pressed' = notlar[i].id
  /\ gone' = gone \union {notlar[CardIndex(i)].id}
  /\ UNCHANGED <<open, selectedCategory, disk, added>>

\* The platform stores the oldest write.
StoreList ==
  /\ writes # <<>>
  /\ disk' = Head(writes)
  /\ writes' = Tail(writes)
  /\ pressed' = 0
  /\ UNCHANGED <<open, notlar, selectedCategory, cached, added, gone>>

\* The process ends and the app is started again.
Restart ==
  /\ open' = FALSE
  /\ notlar' = <<>>
  /\ selectedCategory' = All
  /\ cached' = disk
  /\ writes' = <<>>
  /\ pressed' = 0
  /\ gone' = gone \union (Ids(cached) \ Ids(disk))
  /\ UNCHANGED <<disk, added>>

Next ==
  \/ OpenPage
  \/ ClosePage
  \/ \E category \in Categories \union {All} : SelectCategory(category)
  \/ \E category \in Categories : AddNot(category)
  \/ \E i \in DOMAIN notlar : DeleteNot(i)
  \/ StoreList
  \/ Restart

Spec == Init /\ [][Next]_vars

\* The platform answers.
FairSpec == Spec /\ WF_vars(StoreList)

-----------------------------------------------------------------------------
(***************************************************************************)
(* Properties                                                              *)
(***************************************************************************)

\* Type correctness.
TypeOK ==
  /\ open \in BOOLEAN
  /\ notlar \in Seq(Note) /\ cached \in Seq(Note) /\ disk \in Seq(Note)
  /\ selectedCategory \in Categories \union {All}
  /\ writes \in Seq(Seq(Note)) /\ Len(writes) <= MaxWrites
  /\ added \in 0..MaxNotes
  /\ pressed \in 0..MaxNotes
  /\ gone \subseteq 1..MaxNotes

\* When nothing is under way, the open page shows what a restart would bring
\* back, whatever was added, deleted, filtered and restarted before.
ShowsStored == open /\ writes = <<>> => notlar = disk

\* As long as the process runs, a long press costs exactly one note and
\* nothing else costs any, whichever category is shown.
OneNotePerPress ==
  [][LET lost == ToSet(cached) \ ToSet(cached')
     IN \/ ~open' /\ cached' = disk
        \/ IF pressed' = 0 THEN lost = {} ELSE \E n \in ToSet(cached) : lost = {n}]_vars

\* A note that is added gets to the disk, and is there again after every later
\* save, unless a deletion takes it or the process ends before it is stored.
NoteIsStored ==
  \A id \in 1..MaxNotes : id <= added ~> id \in Ids(disk) \union gone

\* What the page says and does not do: "Notlara tıklayarak detayları görebilir,
\* uzun basarak silebilirsiniz." (notlarim_screen.dart:73): the note that is
\* long pressed is the one that is deleted.
LongPressDeletes ==
  [][\A n \in ToSet(notlar') : n.id # pressed']_vars
=============================================================================
