\* One view and two files; three acts of the user, an external editor or peers.
SPECIFICATION FairSpec
CONSTANTS
  Files = {readme, notes}
  Readme = readme
  MaxActs = 3
CHECK_DEADLOCK FALSE
INVARIANTS TypeOK FileIsTruth TypedKept OwnTextAtRest
PROPERTY ComesToRest
