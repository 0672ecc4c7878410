\* Lost pushes and a conversation that comes back; a crash, with two messages or in a
\* deletion; a renamed blog.
SPECIFICATION FairSpec
CONSTANTS
  Hosts = {"h1"}
  Workers = {"w1"}
  Syncers = {}
  Host <- OneHost
  NoThread = "none"
  Rooms = {"r1", "r2", "r3"}
  NoRoom = "no room"
  MaxAttempts = 1
  PageSize = 1
  MaxMessages = 2
  MaxRevision = 2
  Limits <- SettleLimits
PROPERTIES
  EveryMessageArrives
  EveryDeletionFinishes
