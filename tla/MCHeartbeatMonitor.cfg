CONSTANTS
  n1 = n1
  n2 = n2
  Watcher = {n1, n2}
  Creator = n1
  Peers <- PairPeers
  Window = 1
  LastBeat = 6
  MaxBeats = 2
  EndOfTime = 8
SPECIFICATION FairMonitorSpec
INVARIANTS BeatResolves
PROPERTIES NoFalseMiss SilenceIsReported
CHECK_DEADLOCK FALSE
