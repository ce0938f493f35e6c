SPECIFICATION Spec
CONSTANTS
  Emails = {e1}
  MaxAccounts = 1
  Slots = {c1, c2}
  MaxRoutes = 2
  MaxSent = 3
  MaxMutations = 2
SYMMETRY Symmetry
INVARIANTS
  TypeOK
  DocsHaveAccounts
  LeaversNotOnline
PROPERTIES
  ImplementsRegistry
