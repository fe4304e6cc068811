CONSTANTS
  Capacity = 2
  IndexSize = 16
  Target = 7
  Burst = 2
  Trials = 3
  MaxSlices = 6
  NoPacket = NoPacket
  Faults <- AnyFault
SPECIFICATION FairSpec
INVARIANTS TypeOK DoneMeansDone CountsAgree
PROPERTIES FreshPackets Completes
CHECK_DEADLOCK FALSE
