CONSTANTS
  Capacity = 2
  IndexSize = 4
  Byte <- MCByte
  MaxLen = 2
  Payloads <- MCPayloads
  None = None
  StaleLoads = TRUE
SPECIFICATION FairSpec
INVARIANTS WindowOK NoRace
PROPERTIES ImplementsFifo EverythingIsReceived
