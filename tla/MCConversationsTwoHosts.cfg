\* Two processes with one worker each.
SPECIFICATION Spec
CONSTANTS
  Hosts = {"h1", "h2"}
  Workers = {"w1", "w2"}
  Syncers = {}
  Host <- TwoHosts
  NoThread = "none"
  Rooms = {"r1", "r2", "r3"}
  NoRoom = "no room"
  MaxAttempts = 1
  PageSize = 1
  MaxMessages = 2
  MaxRevision = 2
  Limits <- QuietLimits
INVARIANTS
  NoLostRequest
