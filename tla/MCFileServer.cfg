SPECIFICATION Spec
CONSTANTS
  Clients = {c1, c2}
  MaxSeg = 1
  MaxAsks = 3
  Outputs <- AllOutputs
  Terms = {0}
  Roots = {"cwd", "elsewhere"}
  ProbeMs = 100
  MinTermMs = 150
  MinPath = 16
  ListSize = 1
INVARIANTS
  TypeOK
  OldSessionOver
  ListedSegmentsServed
  BrokenOnlyByWipe
  BoundedWait
  NotFoundAfterTerm
  StatusIsRecent
PROPERTIES
  EveryRequestAnswered
CHECK_DEADLOCK FALSE
