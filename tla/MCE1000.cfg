CONSTANTS
  TxSlots = 3
  RxSlots = 3
  DescSize = 2
  Lengths <- LengthsMC
  RxLengths <- RxLengthsMC
  OutBound = 1
  MaxQueued = 4
  MaxArrived = 3
  MaxFrames = 4
  MaxSetups = 2
SPECIFICATION FairCard
INVARIANTS CardTypeOK TxInOrder RxInOrder FrameIsAnnounced
PROPERTIES FramesAreRead
CHECK_DEADLOCK FALSE
