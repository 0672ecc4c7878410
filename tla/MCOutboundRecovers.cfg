SPECIFICATION LiveSpec
CONSTANTS
  Sends = {"s1"}
  Events = {"e1", "e2"}
  EventOf <- MCEventOf
  Rooms = {"r1"}
  RoomOf <- OneRoom
  Convs = {"c1"}
  Conv = "c1"
  Remotes = {"m1", "m2"}
  Baselines <- AllSets
  Procs = {"p1"}
  Handlers = {"h1"}
  Workers = {"w1"}
  Syncers = {"w1"}
  Tokens = {"h1", "w1"}
  Host <- OneHost
  Own <- MCOwn
  Content <- SameText
  NoThread = "none"
  NoConv = "noconv"
  Draft = "draft"
  NoRemote = "noremote"
  NoToken = "notoken"
  NoSend = "nosend"
  Unmapped = "unmapped"
  Ordinary = "ordinary"
  MaxCalls = 1
  MaxFaults = 1
PROPERTIES EverySendReported EveryMessageBridged
CHECK_DEADLOCK FALSE
