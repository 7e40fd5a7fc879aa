SPECIFICATION FairSpec
CONSTANTS
  c1 = c1
  c2 = c2
  c3 = c3
  d1 = d1
  d2 = d2
  NoClient = NoClient
  Clients <- ThreeClients
  Devices <- TwoDevices
  Target <- MixedTarget
  Keys = {"k1"}
  Contacts = {}
  Capacity = 1
INVARIANTS SingleController WaiterNotified HeldByController
PROPERTY FreeDeviceTaken
