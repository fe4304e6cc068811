CONSTANTS
  a1 = a1
  a2 = a2
  Ap = {a1, a2}
  SipiTarget = a1
  Nested = FALSE
  SpinsOut <- ShortSpins
  Faults <- NoFaults
SPECIFICATION FairSpec
PROPERTIES Vm2Follows InitSparesVmx
CHECK_DEADLOCK FALSE
