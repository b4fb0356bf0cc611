\* Two senders, three listeners, room for one sender at a time.
SPECIFICATION FairSpec
CONSTANTS
  Recs = {"r1", "r2", "r3", "r4"}
  Feed <- SomeFeed
  Allowed = {"p", "q"}
  Tcp = {"t1"}
  Http = {"h1"}
  UDPQueue = 1
  MaxPeers = 1
  MaxConnections = 2
  MaxFailures = 1
CHECK_DEADLOCK FALSE
INVARIANT NoneStranded
INVARIANT AllDelivered
PROPERTY EventuallyReturns
