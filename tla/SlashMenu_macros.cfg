\* Two recordings; three commands typed or documents opened.
SPECIFICATION FairSpec
CONSTANTS
  Recs = {r1, r2}
  MaxActs = 3
CHECK_DEADLOCK FALSE
INVARIANTS TypeOK FreshFiles
PROPERTIES QueriesEnd PicksLand
