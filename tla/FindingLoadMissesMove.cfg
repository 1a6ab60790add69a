SPECIFICATION Spec
CONSTANTS
  Heads = {h1, h2}
  Requests = {r1}
  BazelBin = bin
  LocalIndex = local
  None = none
  AutoIndex = FALSE
  Rebuilt = {}
  Unusable = {}
  InitialBin = {2}
  InitialLocal = {0}
  InitialCached = {}
  Faults = {}
  MaxFaults = 0
  MaxStamp = 2
  MaxMoves = 1
INVARIANT MovesAreNoticed
