CONSTANTS
  n1 = n1
  n2 = n2
  Node = {n1, n2}
  Thread = {t1}
  Kinds = {"source", "channel", "route", "datasource", "setting", "switch"}
  Value = {0, 1}
  Quota <- TwoAndTwo
  Slow = {n2}
SPECIFICATION Spec
INVARIANTS NoEditOfKnownDeletion
PROPERTIES OnlyStaleOrLateWritesDiverge
CHECK_DEADLOCK FALSE
