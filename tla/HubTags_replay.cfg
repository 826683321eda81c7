SPECIFICATION Spec
CONSTANTS
  c1 = c1
  c2 = c2
  c3 = c3
  t1 = t1
  t2 = t2
  None = None
  Clients = {c1, c2}
  Tags = {t1}
  MaxVersion = 3
  MaxTrouble = 1
  Clashing = TRUE
  Troubles = {"break"}
SYMMETRY ClientSymmetry
INVARIANT ReplayIdle
CHECK_DEADLOCK FALSE
