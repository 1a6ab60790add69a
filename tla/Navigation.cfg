SPECIFICATION Spec
CONSTANTS
  ch1 = ch1
  ch2 = ch2
  ch4 = ch4
  nl = nl
  meth1 = meth1
  meth2 = meth2
  ctor = ctor
  klass = klass
  loc = loc
  Chars = {ch1, ch2, ch4, nl}
  Newline = nl
  Bytes <- MCBytes
  Units <- MCUnits
  MaxU32 = 255
  None = None
  Symbols = {meth1, meth2, ctor, klass, loc}
  Locals = {loc}
  Callables = {meth1, meth2, ctor}
  Paths = {"A", "B"}
  ShortName <- MCShortName
  Order <- MCOrder
  Open = "A"
  Shards <- MCShards
  Inserts <- MCInserts
  Batched <- MCBatched
  MaxText = 3
  MaxBatched = 1
  Queries <- MCQueries
  Lives <- MCLives
  SearchLimit = 2
  ReferenceLimit = 2
  CallLimit = 2
  SameDir <- MCSameDir
  MaxSize = 4
  MaxShards = 3
INVARIANTS
  TypeOK
  ServerHasIntendedText
  IndexIsUnionOfShards
  CursorRoundTrip
  SearchFindsBest
  CallsAreDual
  OutlineNests
