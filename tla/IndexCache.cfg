SPECIFICATION Spec
CONSTANTS
  a = a
  b = b
  Servers = {a, b}
  Readers = {r}
  Heads = {h1, h2}
  MaxName = 3
  MaxChanges = 1
  MaxEpoch <- BusyAndIdle
  MaxFaults = 1
  None = none
SYMMETRY Commits
INVARIANTS TypeOK CurrentIsWhole LockIsHeldByPublisher
PROPERTIES PruningLeavesTwo DroppedForNewer ImplementsRegister
