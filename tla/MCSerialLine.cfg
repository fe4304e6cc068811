CONSTANTS
  bsp = bsp
  ap = ap
  Cpu = {bsp, ap}
  Ident <- OwnIdent
  Firmware = 0
  NoOwner = 99
  MaxText = 2
  LineMax = 3
  Tags = TRUE
SPECIFICATION FairSpec
INVARIANTS WholeLines LockHasHolder
PROPERTIES LockIsFreed
