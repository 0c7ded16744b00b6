SPECIFICATION Spec
CONSTANTS
  Faults <- AllFaults
  MaxSignals = 1
INVARIANT
  InputClosedBeforeDestruction
