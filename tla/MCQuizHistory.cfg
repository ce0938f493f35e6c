SPECIFICATION QuizSpec
CONSTANTS
  Sessions = {s1, s2}
  Timed = {s1}
  Questions = {q1}
  Options = {o1}
  Unanswered = Unanswered
  Duration = 1
  MaxRecords = 2
  MaxExiting = 1
  MaxResults = 3
  MaxWrites = 2
  Absent = Absent
INVARIANTS
  ShownIsKept
  DeletedStaysDeleted
PROPERTIES
  TimedTestIsStored
CHECK_DEADLOCK FALSE
