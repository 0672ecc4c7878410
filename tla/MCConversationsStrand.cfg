\* A crash between the removal of the portal and that of its room.
SPECIFICATION Spec
CONSTANTS
  Hosts = {"h1"}
  Workers = {"w1"}
  Syncers = {}
  Host <- OneHost
  NoThread = "none"
  Rooms = {"r1", "r2", "r3"}
  NoRoom = "no room"
  MaxAttempts = 1
  PageSize = 1
  MaxMessages = 2
  MaxRevision = 2
  Limits <- StrandLimits
INVARIANTS
  NoStrandedRoom
