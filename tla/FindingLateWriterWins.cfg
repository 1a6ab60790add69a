SPECIFICATION Spec
CONSTANTS
  a = a
  b = b
  Servers = {a, b}
  Readers = {r}
  Heads = {h1, h2}
  MaxName = 2
  MaxChanges = 1
  MaxEpoch <- BusyAndIdle
  MaxFaults = 0
  None = none
PROPERTY LateWriterReplacesNothingNewer
