SPECIFICATION Spec
CONSTANTS
  Users = {u1}
  MaxMessages = 2
  MaxScreens = 2
  MaxSends = 2
INVARIANTS
  SeenMeansShown
  UnreadIsLit
