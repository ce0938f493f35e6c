SPECIFICATION Spec
CONSTANTS
  A = A
  ABlank = ABlank
  Admins = {a1}
  Topics = {t1}
  Slots = {1}
  Texts = {A, ABlank, Empty}
  Empty = Empty
  Trim <- BlankTrim
  Letters = {A}
  None = None
  Unborn = Unborn
  Gone = Gone
  Calls = {c1, c2}
  MaxAdded = 2
  MaxEdited = 1
CHECK_DEADLOCK FALSE
SYMMETRY Symmetry
INVARIANTS
  TypeOK
  QuestionsHaveTopic
  LastOneNeedsStaleCount
  StoredAsAsked
  PickedAnswerIsOption
PROPERTIES
  DeletedStaysDeleted
  PageClosedNeedsGoneDialog
