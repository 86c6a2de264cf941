CONSTANTS
  Thread = {t1, t2}
  Loop = loop
  Intake <- Reported
  Remote <- Relayed
  Elsewhere <- OtherOperators
  Instant = {3, 5, 8}
SPECIFICATION HandlerSpec
PROPERTIES OnlyStaleReportsDiverge FreshWriterRepairs
CHECK_DEADLOCK FALSE
