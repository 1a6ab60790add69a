SPECIFICATION FairSpec
CONSTANTS
  Heads = {h1, h2}
  Requests = {r1}
  BazelBin = bin
  LocalIndex = local
  None = none
  AutoIndex = FALSE
  Rebuilt = {bin}
  Unusable = {}
  InitialBin = {2}
  InitialLocal = {2}
  InitialCached = {1}
  Faults = {"watcher-lost-events", "panic", "refresh-panic"}
  MaxFaults = 1
  MaxStamp = 3
  MaxMoves = 1
PROPERTIES
  EveryLoadAnswered
  CachedSessionReconciles
