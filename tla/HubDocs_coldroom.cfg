\* The peer that has to seed in place of the first one does not.
SPECIFICATION Spec
CONSTANTS
  Clients = {c1, c2}
  Sessions = {s1, s2}
  MaxOpens = 3
  MaxEdits = 1
  Compaction = FALSE
  Orig = Orig
  HubHasFile = TRUE
  None = None
SYMMETRY Symmetry
CHECK_DEADLOCK FALSE
INVARIANTS ColdRoomSeeded
