SPECIFICATION Spec
CONSTANTS
  Lens = {"40", "5EE"}
  Swaps = TRUE
  Faults = {"entry", "guest"}
INVARIANTS StopIsOwn
PROPERTIES AnsweredAsAsked PutcharIsHeard YieldsWhenMeant NotRestarted
CHECK_DEADLOCK FALSE
