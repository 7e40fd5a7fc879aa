SPECIFICATION Spec
CONSTANTS
  Sources = {a}
  MaxUnits = 3
  MaxStreams = 2
  QueueLimit = 1
  ChannelCapacity = 1
  MaxInFlight = 1
  MaxPending = 1
  SilentWindows = 3
  MaxSetups = 2
  MaxDemands = 2
  Followers = {r1, r2}
  KeptLines = 2
  PageLines = 1
  QueueEvents = 1
  MaxLines = 3
  MaxStarts = 1
  NoCursor = NoCursor
  Viewers = {v1}
  Pids = {p1, p2}
  MaxTargets = 1
  Flows = {n1, n2}
  MaxFlows = 1
  MaxMoved = 2
  MaxRounds = 2
  MaxSamples = 2
INVARIANT SamplingAccounted
PROPERTIES  WaitEnds 
CHECK_DEADLOCK FALSE
