SPECIFICATION Spec
CONSTANTS
  Sessions = {s1, s2}
  Questions = {q1, q2}
  Options = {o1}
  Unanswered = Unanswered
  Duration = 2
  MaxRecords = 3
  MaxExiting = 4
INVARIANTS
  TypeOK
  ResultAboveItsTest
  AtMostTwoResults
  ShownIsRecorded
  PartialOnlyByTimeOut
PROPERTIES
  ImplementsPromise
CHECK_DEADLOCK FALSE
