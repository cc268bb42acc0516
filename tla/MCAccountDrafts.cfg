\* Two requests at once for three drafts of which two may live, three operations.
CONSTANTS
  Drafts = {d1, d2, d3}
  Ops = {o1, o2, o3}
  None = None
  Calls = {c1, c2}
  MaxDrafts = 2
  MaxCalls = 7
  MaxEdits = 2
SPECIFICATION Spec
CHECK_DEADLOCK FALSE
SYMMETRY Symmetric
INVARIANTS
  TypeOK
  AppendedOnce
  NothingForgotten
  CopyIsKept
PROPERTIES
  NothingOverwritten
  KeepsPromise
