SPECIFICATION TransferSpec
CONSTANTS
  n1 = n1
  n2 = n2
  b1 = b1
  b2 = b2
  Requests = {1, 2}
  NoRequest = 0
  Names = {n1, n2}
  Submitted <- Clashing
  Stored <- OneEntry
  Bundles = {b1}
  ChanCap = 1
  MaxFaults = 1
INVARIANTS   OldFileKept RunningServed
PROPERTIES NeverReplaces StagingRemoved
CHECK_DEADLOCK FALSE
