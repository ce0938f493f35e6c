SPECIFICATION FairSpec
CONSTANTS
  Categories = {important, todo}
  All = All
  MaxNotes = 4
  MaxWrites = 3
INVARIANTS
  ShowsStored
PROPERTIES
  OneNotePerPress
  NoteIsStored
