CONSTANTS
  a1 = a1
  a2 = a2
  Ap = {a1, a2}
  SipiTarget = a1
  Nested = TRUE
  SpinsOut <- AllSpins
  Faults <- AllFaults
SPECIFICATION Spec
INVARIANTS OneOwner
CHECK_DEADLOCK FALSE
