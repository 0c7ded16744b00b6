SPECIFICATION Spec
CONSTANTS
  Bits = 29
  MaxExp10 = 38
  Digits10 = 3
  Bytes32 = 3
  Bytes64 = 4
  Q = 14
  P = 7
  Bias = 15
  Alpha <- MCAlpha
  Gamma <- MCGamma
  MinDecExp <- MCMinDecExp
  MaxDecExp = 6
  DecStep = 2
INVARIANTS
  ParsersFollowGrammar
  TextsRestored
  BinariesRestored
  PatchesArrive
  OrdersTotal
CHECK_DEADLOCK FALSE
