CONSTANTS
  Thread = {t1}
  Loop = loop
  Intake <- Alerts
  Remote = {}
  Elsewhere <- OtherOperators
  Instant = {3, 5, 8}
SPECIFICATION HandlerSpec
INVARIANTS StoredIsProjection
CHECK_DEADLOCK FALSE
