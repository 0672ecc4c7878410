SPECIFICATION Spec
CONSTANTS
  Sends = {"s1"}
  Events = {"e1"}
  EventOf <- MCEventOf
  Rooms = {"r1"}
  RoomOf <- OneRoom
  Convs = {"c1"}
  Conv = "c1"
  Remotes = {"m1"}
  Baselines <- AllSets
  Procs = {"p1", "p2"}
  Handlers = {"h1", "h2"}
  Workers = {"w2"}
  Syncers = {"y2"}
  Tokens = {"h1", "h2", "w2", "y2"}
  Host <- TwoHosts
  Own <- MCOwn
  Content <- SameText
  NoThread = "none"
  NoConv = "noconv"
  Draft = "draft"
  NoRemote = "noremote"
  NoToken = "notoken"
  NoSend = "nosend"
  Unmapped = "unmapped"
  Ordinary = "ordinary"
  MaxCalls = 2
  MaxFaults = 1
INVARIANTS AtMostOnePost NeverSilent
PROPERTIES UsesStore KeepsPromise
CHECK_DEADLOCK FALSE
