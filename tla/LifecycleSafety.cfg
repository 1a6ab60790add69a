SPECIFICATION Spec
CONSTANTS
  Heads = {h1, h2}
  Requests = {r1, r2}
  BazelBin = bin
  LocalIndex = local
  None = none
  AutoIndex = TRUE
  Rebuilt = {bin, local}
  Unusable = {3}
  InitialBin = {0, 2}
  InitialLocal = {2}
  InitialCached = {1, 2}
  Faults = {"watcher-lost-events", "watcher-not-started", "panic", "refresh-panic"}
  MaxFaults = 1
  MaxStamp = 3
  MaxMoves = 1
SYMMETRY Symmetry
INVARIANTS
  TypeOK
  OneGenerationWorker
  AnsweredOnce
  OneProgressReport
  QueuedChangeIsCarried
  IndexMatchesManifest
  VerifiedWasOnDisk
  NoUnseenMove
PROPERTY
  NothingInstalledUnbidden
