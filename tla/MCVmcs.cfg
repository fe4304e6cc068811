CONSTANTS
  Trials = 2
  None = None
  Faults <- AllFaults
SPECIFICATION Spec
INVARIANTS TypeOK EntryIsSound ExitIsHome
CHECK_DEADLOCK FALSE
