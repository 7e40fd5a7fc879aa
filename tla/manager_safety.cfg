SPECIFICATION AnsweringSpec
CONSTANTS
  d1 = d1
  d2 = d2
  NoId = NoId
  Devices <- OneDevice
  Transports <- UsbAndWifi
  Requests <- BothTransports
  InitialSelection = NoId
  DiscoveryLosesLive = FALSE
INVARIANTS TaskAccounting ManagementAwaitsStop  
PROPERTIES   ManagementServed
CHECK_DEADLOCK FALSE
