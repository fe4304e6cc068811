CONSTANTS
  a1 = a1
  a2 = a2
  Ap = {a1, a2}
  SipiTarget = a1
  Nested = FALSE
  SpinsOut <- AllSpins
  Faults <- NoFaults
SPECIFICATION Spec
INVARIANTS OneOwner
CHECK_DEADLOCK FALSE
