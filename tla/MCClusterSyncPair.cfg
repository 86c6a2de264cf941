CONSTANTS
  n1 = n1
  n2 = n2
  Node = {n1, n2}
  Peers <- PairPeers
  Quota <- PairQuota
  Writer = {w1, w2}
  PageSize = 1
  MaxPages = 2
  MaxRun = 1
SPECIFICATION Spec
SYMMETRY HandlerSymmetry
INVARIANTS LogAgreement
PROPERTIES ImplementsEventLog
CHECK_DEADLOCK FALSE
