CONSTANTS
  n1 = n1
  n2 = n2
  Node = {n1, n2}
  Peers <- PairPeers
  Quota <- SoloQuota
  Writer = {w1}
  PageSize = 1
  MaxPages = 1
  MaxRun = 1
  Fragile = {n1}
SPECIFICATION FairRecoverySpec
INVARIANTS CursorContiguous UniqueNumbers
 
CHECK_DEADLOCK FALSE
