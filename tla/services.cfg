SPECIFICATION Spec
CONSTANTS
  ImageSets = {s1}
  CustomSets = {f1}
  XcodeSets = {}
  ForeignFiles <- FilesOfSets
  Callers = {c1, c2}
  c1 = c1
  NoSet = NoSet
  MaxCrashes = 1
  KindOf <- KindOfSets
  ForeignRank <- ForeignRanks
  MaxMounts = 1
  Services = {"provisioning", "home", "companions", "icons", "screenshot", "processes", "lifecycle"}
  Requests = {q1, q2}
  Profiles = {p1}
  Sound = {p1}
  MaxCached = 1
  MaxWaiting = 1
  NoRequest = NoRequest
  Settings = {x1, x2, x3}
  Listed = {x1, x2}
  Orders = {o1, o2}
  MaxOrders = 1
  MaxSessions = 2
  NoSetting = NoSetting
  NoOrder = NoOrder
  Asks = {a1, a2}
  Routed = {"apps", "details", "rename", "mode", "power", "list", "read", "delete", "export", "browser"}
  NoAsk = NoAsk
  Reports = {r1}
  MaxPort = 1
  MaxAttempts = 2
  RunnerAsks = {w1, w2, w3}
  w1 = w1
  WdaAsks = {u1}
  NoRunner = NoRunner
  NoWda = NoWda
  MaxRunnerSessions = 2
  AppAsks = {y1, y2}
  Bundles = {b1}
  NoAppAsk = NoAppAsk
  k1 = k1
  k2 = k2
  k3 = k3
  KeyCodes = {k1, k2, k3}
  GamepadAxes = {"LeftStickX"}
  ContactLimit = 2
  Horizon = 2
  MaxQueued = 2
  KeymapProfiles <- AllProfiles
  i1 = i1
  Tools = {t1, t2}
  InputDevices = {i1, i2}
  MaxGames = 1
  MaxSwitches = 1
  GameQueue = 1
  NoTool = NoTool
  Texts = {x1, x2}
  Images = {x3}
  Nothing = Nothing
  MaxCopies = 2
  MaxPastes = 1
  MaxFaults = 1
INVARIANTS IndexedComplete  AnswersOwn AbandonedUntouched SimulationShown StagedFilesOwned RunnerAccounted ControlledOnce InputReleased NothingStuck ContactsCaused ClipboardAgrees
CHECK_DEADLOCK FALSE
