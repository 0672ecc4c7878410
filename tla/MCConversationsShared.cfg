\* A worker and the sync of a pending send with a failure, or with a crash; a chat
\* deletion and a blocked peer; a blocked and unblocked peer, or a renamed blog, with
\* walks that miss the conversation, are remembered and expire, and failures.
SPECIFICATION Spec
CONSTANTS
  Hosts = {"h1"}
  Workers = {"w1"}
  Syncers = {"y1"}
  Host <- OneHost
  NoThread = "none"
  Rooms = {"r1", "r2", "r3"}
  NoRoom = "no room"
  MaxAttempts = 1
  PageSize = 1
  MaxMessages = 2
  MaxRevision = 2
  Limits <- SharedLimits
INVARIANTS
  ConversationTypeOK
  HeadConfirmed
  NoLostRequest
  LiveRoomKept
  RoomAccounted
