CONSTANTS
  AddrSize = 24
  Vectors = {2, 3}
  Devices = 4
  Functions = 2
  BarSize = 16
  LargeSize = 4
  MmioBase = 14
  NoCard = NoCard
  None = None
  AllOnes = 23
  DefaultDmar = 22
  TableSize = 3
  Yamls <- YamlsMC
  Machines <- MachinesMC
SPECIFICATION Spec
INVARIANTS TypeOK AcceptedIsSafe DmaInside Vm2DrivesItsCard TurnsAreFair
