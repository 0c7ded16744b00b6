SPECIFICATION Spec
CONSTANTS
  Clients = {c1, c2}
  MaxSeg = 1
  MaxAsks = 3
  Outputs <- Short
  Terms = {0}
  Roots = {"cwd"}
  ProbeMs = 100
  MinTermMs = 150
  MinPath = 16
  ListSize = 1
INVARIANT PrintedUrlIsAPath
CHECK_DEADLOCK FALSE
