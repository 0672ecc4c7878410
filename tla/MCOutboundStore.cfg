CONSTANTS
  Sends = {"s1", "s2", "s3"}
  Events = {"e1", "e2"}
  Rooms = {"room"}
  Convs = {"c1"}
  Remotes = {"m1"}
  Tokens = {"k1"}
  Baselines = {{}}
  EventOf <- EventOfSend
  RoomOf <- OneRoom
  NoConv = "none"
  Draft = "draft"
  NoRemote = "none"
  NoToken = "none"
  NoSend = "none"
  Unmapped = "unmapped"
  Ordinary = "ordinary"
SPECIFICATION StoreSpec
INVARIANTS SchemaHolds AtMostOneSubmission RemoteClaimedOnce
PROPERTIES Finality OutcomesAgree
