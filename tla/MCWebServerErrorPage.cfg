SPECIFICATION Spec
CONSTANTS
  Stoppers = {s1}
  Conns = {k1, k2}
  Pieces = {1, 2}
  ContentLimit = 2
  MaxBody = 3
  MaxRequests = 3
  Throwing <- OwnErrorPage
INVARIANT InternalErrorsCaught
CHECK_DEADLOCK FALSE
