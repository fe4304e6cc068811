CONSTANTS
  Capacity = 2
  IndexSize = 6
SPECIFICATION FairExchange
INVARIANTS Lockstep OneInFlight
PROPERTIES HeartbeatsRise
