CONSTANTS
  e1 = e1
  e2 = e2
  s1 = s1
  s2 = s2
  Nobody = Nobody
  Default = Default
  c1 = c1
  c2 = c2
  Executor = {e1, e2}
  SourceOf <- OwnSource
  Scenario = {s1, s2}
  Labelled = {e1}
  Tolerance = 0
  StaleAfter = 1
  MinFailureSources = 2
  Caller = {c1, c2}
  Impatient = {c1, c2}
  Home <- AllHome
  Skew <- Ahead
  Movable = {e2}
  Described = {e2}
  Faulty = {e2}
  Replicated = {e2}
  Ends = {"success", "failure"}
  TTL = 1
  MaxRuns <- RunQuota
  EndOfTime = 3
SPECIFICATION Spec
INVARIANTS  ProvisionalReplaced
PROPERTIES ExecutorsStay ImplementsSharedSnapshot
SYMMETRY Requests
CHECK_DEADLOCK FALSE
