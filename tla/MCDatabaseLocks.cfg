\* Two processes, two logins, a pool of two connections each.
SPECIFICATION FairSpec
CONSTANTS
  Hosts = {"h1", "h2"}
  Threads = {"t1", "t2", "t3", "t4"}
  Host <- HostOf
  Logins = {"l1", "l2"}
  Login <- LoginOf
  Portal = "portal"
  NoThread = "none"
  Dialects = {"postgres", "sqlite"}
  MaxConn = 2
  MaxFaults = 3
INVARIANTS
  LocksTypeOK
  Exclusive
  SpareConnection
  NoLeakedLock
PROPERTIES
  EveryCallFinishes
