SPECIFICATION FairSpec
CONSTANTS
  Heads = {h1, h2}
  Requests = {}
  BazelBin = bin
  LocalIndex = local
  None = none
  AutoIndex = FALSE
  Rebuilt = {local}
  Unusable = {}
  InitialBin = {0, 2}
  InitialLocal = {2}
  InitialCached = {1}
  Faults = {"watcher-lost-events", "refresh-panic"}
  MaxFaults = 1
  MaxStamp = 4
  MaxMoves = 1
PROPERTIES
  NoticeIsReconciled
  RefreshEnds
