\* A lost update keeps the editors apart for good.
SPECIFICATION Spec
CONSTANTS
  Clients = {c1, c2}
  Sessions = {s1, s2, s3}
  MaxOpens = 2
  MaxEdits = 1
  Compaction = FALSE
  Orig = Orig
  HubHasFile = TRUE
  None = None
SYMMETRY Symmetry
CHECK_DEADLOCK FALSE
INVARIANTS SelfHeals
