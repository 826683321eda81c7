\* Two clients and one lost session: reconnects, replays and late teardown.
SPECIFICATION Spec
CONSTANTS
  Clients = {c1, c2}
  Sessions = {s1, s2, s3}
  MaxOpens = 2
  MaxEdits = 1
  Compaction = FALSE
  Orig = Orig
  HubHasFile = TRUE
  None = None
SYMMETRY Symmetry
CHECK_DEADLOCK FALSE
INVARIANTS TypeOK RoomInOrder SeededOnce Converges FileFollows TextSurvives
