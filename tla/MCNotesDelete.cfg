SPECIFICATION Spec
CONSTANTS
  Categories = {important, todo}
  All = All
  MaxNotes = 3
  MaxWrites = 2
PROPERTIES
  LongPressDeletes
