SPECIFICATION Spec
CONSTANTS
  c1 = c1
  c2 = c2
  c3 = c3
  t1 = t1
  t2 = t2
  None = None
  Clients = {c1, c2}
  Tags = {t1}
  MaxVersion = 2
  MaxTrouble = 2
  Clashing = TRUE
  Troubles = {"break", "restart", "detach", "fail"}
SYMMETRY ClientSymmetry
INVARIANT TypeOK
INVARIANT Carried
INVARIANT Settled
INVARIANT Agree
PROPERTY DeletesStay
CHECK_DEADLOCK FALSE
