CONSTANTS
  n1 = n1
  n2 = n2
  n3 = n3
  Node = {n1, n2, n3}
  Reports <- TwoOccurrences
  Shadow <- Recovery
  Labels = {"a", "b", "shadow"}
  Setups <- PairAndChain
  MaxSeq = 3
  Uuid <- EventIds
SPECIFICATION Spec
INVARIANTS OneNotificationPerAlert ResolvedWhenCovered ShadowNeverCreates  AlertsProjected
CHECK_DEADLOCK FALSE
