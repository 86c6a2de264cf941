CONSTANTS
  t1 = t1
  t2 = t2
  Thread = {t1, t2}
  Setups <- Instances
  Window = 4
  BucketSize = 2
  TopLimit = 1
  Ttl = 1
  StaleTtl = 2
  MaxCompute = 2
SPECIFICATION FairSpec
INVARIANTS AnswersAreRecent CohortsMirrorProjection WindowLosesNothing BucketsAddUp
PROPERTIES ImplementsSharedSnapshot
CHECK_DEADLOCK FALSE
