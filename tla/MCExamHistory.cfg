SPECIFICATION HistorySpec
CONSTANTS
  d1 = d1
  d2 = d2
  u1 = u1
  Users = {u1}
  Devices = {d1, d2}
  Owner <- SharedAccount
  Jobs = {j1}
  Questions = {q1}
  Options = {o1}
  Unanswered = Unanswered
  Nothing = Nothing
  MaxExams = 2
INVARIANTS
  EntryWasHandedIn
  TakenIsBacked
  RetakeNeedsStalePage
  HistoryAgreesWithLock
PROPERTIES
  ImplementsBoard
  SentResultIsStored
CHECK_DEADLOCK FALSE
