\* A view that stops before the initial state arrived empties its file.
SPECIFICATION Spec
CONSTANTS
  Clients = {c1, c2}
  Sessions = {s1, s2}
  MaxOpens = 2
  MaxEdits = 1
  Compaction = FALSE
  Orig = Orig
  HubHasFile = TRUE
  None = None
SYMMETRY Symmetry
CHECK_DEADLOCK FALSE
INVARIANTS LocalTextSurvives
