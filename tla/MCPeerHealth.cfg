CONSTANTS
  Setups <- Instances
  Interval = 1
  Initial = 1
  MaxBackoff = 6
  Jitter = 0
  MaxPages = 2
  MaxAttempt = 1
  MaxFailures = 4
  MaxKeys = 2
  Limit <- Limits
  Window = 7
SPECIFICATION FairSpec
INVARIANTS  HealthIsEarned TableBounded
 
CHECK_DEADLOCK FALSE
