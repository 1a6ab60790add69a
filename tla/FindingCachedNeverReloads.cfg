SPECIFICATION FairSpec
CONSTANTS
  Heads = {h1, h2}
  Requests = {}
  BazelBin = bin
  LocalIndex = local
  None = none
  AutoIndex = FALSE
  Rebuilt = {bin}
  Unusable = {}
  InitialBin = {2}
  InitialLocal = {0}
  InitialCached = {}
  Faults = {}
  MaxFaults = 0
  MaxStamp = 3
  MaxMoves = 1
PROPERTY ReloadsOnItsOwn
