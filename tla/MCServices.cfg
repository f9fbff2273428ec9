SPECIFICATION ServicesSpec
CONSTANTS
  Clients = {"c1", "c2"}
  SendCap = 1
  QueueCap = 2
  MaxMessages = 3
  MaxTerm = 2
  MaxChanges = 2
  MaxRestarts = 1
  Requests = {"r1", "r2", "r3"}
  Keys = {"k1", "k2"}
  MaxExpiries = 1
  Limiters <- MCLimiters
  InFlight = {1, 2}
  MinTtl = 3
  Timeout = 2
  MaxClock = 5
  Connections = {"t1", "t2"}
  NumOrders = 2
  NumUsers = 2
  Owner <- MCOwner
CHECK_DEADLOCK FALSE
INVARIANTS
  ServicesTypeOK
  ClosedOnce
  FeedHasNoGaps
  CacheSettles
  ReplayFaithful
  OneOrderPerKey
  AdmissionBound
  NoDeadlock
PROPERTIES
  ConnectionsReleased
