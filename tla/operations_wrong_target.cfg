SPECIFICATION Spec
CONSTANTS
  c1 = c1
  c2 = c2
  NoCall = NoCall
  Captures = {"capture"}
  Exports = {}
  Uninstalls = {}
  Calls <- OneCall
  InboxCapacity = 2
  MaxRetained = 2
  MaxId = 2
  MaxQueue = 2
  CallsDropped = FALSE
INVARIANTS StopsItsTarget
