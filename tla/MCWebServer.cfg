SPECIFICATION Spec
CONSTANTS
  Stoppers = {s1, s2}
  Conns = {k1, k2}
  Pieces = {1, 2}
  ContentLimit = 1
  MaxBody = 2
  MaxRequests = 2
  Throwing <- OwnPages
INVARIANTS
  TypeOK
  FreedWithRequest
  CallbackIsSet
  NoEscape
  ContentIsPrefix
  StopIsComplete
PROPERTIES
  StopEndsStart
CHECK_DEADLOCK FALSE
