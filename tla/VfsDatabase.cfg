SPECIFICATION Spec
CONSTANTS
  Paths = {p, q}
  Contents = {empty, java, binary}
  Utf8 = {empty, java}
  Empty = empty
  None = none
  Unknown = unknown
  MaxRevision = 6
INVARIANTS TypeOK LogIsNetChange ReadAfterWrite
PROPERTY ImplementsMirror
