CONSTANTS
  n1 = n1
  n2 = n2
  n3 = n3
  t1 = t1
  t2 = t2
  Node = {n1, n2, n3}
  Target = {t1, t2}
  Setups <- PairAndLate
SPECIFICATION FairSpec
INVARIANTS SingleCaller DoneMeansSettled ReceiptsConverge
PROPERTIES NoCallWhenSettled ReceiptsKeepSuccess EveryItemCompletes
CHECK_DEADLOCK FALSE
