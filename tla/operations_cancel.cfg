SPECIFICATION FairSpec
CONSTANTS
  c1 = c1
  c2 = c2
  NoCall = NoCall
  Captures = {"capture"}
  Exports = {"export"}
  Uninstalls = {"uninstall"}
  Calls <- OneCall
  InboxCapacity = 1
  MaxRetained = 1
  MaxId = 2
  MaxQueue = 1
  CallsDropped = TRUE
INVARIANTS CancelOkEnds CancellingHasCause ActiveServed
PROPERTIES EndedFinal CancelSettles
CHECK_DEADLOCK FALSE
