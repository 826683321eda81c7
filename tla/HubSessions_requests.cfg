SPECIFICATION FairSpec
CONSTANTS
  a1 = a1
  a2 = a2
  d1 = d1
  d2 = d2
  s1 = s1
  s2 = s2
  s3 = s3
  c1 = c1
  c2 = c2
  None = None
  Agents = {a1, a2}
  Devices = {d1}
  Owner <- SoloOwner
  Sessions = {s1, s2}
  Cmds = {c1, c2}
  OutqSize = 1
  MaxChanges = 1
INVARIANT AnswersTrue
PROPERTY RequestsEnd
PROPERTY FailsOnlyWithItsSession
CHECK_DEADLOCK FALSE
