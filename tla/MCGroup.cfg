SPECIFICATION MCFairSpec
CONSTANTS
  p1 = p1
  p2 = p2
  k1 = k1
  k2 = k2
  k3 = k3
  Home <- Homes
  Keys = {k1, k2, k3}
  Bytes <- Sizes
  KeyHash <- KeyPoints
  ReplicaHash <- PeerPoints
  Peers = {p1, p2}
  PeerLists <- Lists
  CacheBytes = 7
  Callers = {c1, c2}
  MaxHops = 1
  MaxGets = 3
  MaxErrors = 1
  Clients = {a1, a2}
  Getter = getter
  Contents <- Values
  Malformed <- NoMessage
  Junk = 0
  DstLengths = {2}
  Parts <- Middle
INVARIANTS
  BytesAreExact
  KeyInOneCache
  CachesFit
  FlightHasALeader
  StatsAddUp
  CachedBytesStand
  ClientsGetTheValue
PROPERTIES
  CallsReturn
