\* Every view gets its document, through a lost session or a hub restart, though clients compact.
SPECIFICATION FairSpec
CONSTANTS
  Clients = {c1}
  Sessions = {s1, s2}
  MaxOpens = 2
  MaxEdits = 1
  Compaction = TRUE
  Orig = Orig
  HubHasFile = TRUE
  None = None
CHECK_DEADLOCK FALSE
PROPERTIES ViewsEnter
