SPECIFICATION Spec
CONSTANTS
  Vm1 = Vm1
  Vm2 = Vm2
  PtSize = 3
  PdSize = 5
  Gigs = 2
  MmioGpa = 6
  IpcGpa = 24
  IpcPages = 2
  Places <- MCPlaces
INVARIANTS OnlyIpcIsShared MapsTheLayout
PROPERTIES LayersKeep
CHECK_DEADLOCK FALSE
