SPECIFICATION Spec
CONSTANTS
  Faults <- AllFaults
  MaxSignals = 2
INVARIANTS
  TypeOK
  AbortCauses
  ReturnIsOrderly
PROPERTIES
  StopEndsProcess
  InputEndEndsProcess
