CONSTANTS
  n1 = n1
  n2 = n2
  n3 = n3
  Node = {n1, n2}
  Thread = {t1}
  Quota <- PairQuota
  Calls <- PairCalls
SPECIFICATION Spec
INVARIANTS KnownEndHolds NothingLeftWaiting  ConflictStopsLogins
CHECK_DEADLOCK FALSE
