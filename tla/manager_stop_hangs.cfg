SPECIFICATION FairSpec
CONSTANTS
  d1 = d1
  d2 = d2
  NoId = NoId
  Devices <- OneDevice
  Transports <- WifiOnly
  Requests <- OneWifi
  InitialSelection = NoId
  DiscoveryLosesLive = TRUE
PROPERTY StopCompletes
CHECK_DEADLOCK FALSE
