SPECIFICATION StoreFairSpec
CONSTANTS
  MaxResults = 4
  MaxWrites = 3
  Absent = Absent
INVARIANTS
  InOrder
  Agreement
  DialogTarget
PROPERTIES
  NoSilentLoss
  ClearTakesEffect
