SPECIFICATION MCFairSpec
CONSTANTS
  InitCapacity = 200
  MaxCapacity = 700
  Data = {0, 1, 2, 3, 4, 5, 6}
  ZeroBlob = 0
  EntryLengths = {19, 36, 146}
  MaxPushes = 6
  k1 = k1
  k2 = k2
  k3 = k3
  Keys = {k1, k2, k3}
  HashOf <- CacheHash
  NumShards = 4
  Readers = {r1, r2}
  NoOne = noone
  NoKey = nokey
  MaxWrites = 3
INVARIANTS
  TypeOK
  PointersInOrder
  EntriesApart
  RingIsWhole
  CountIsLive
  HeadersReadable
  WithinLimit
  StableKeysAreSeen
  NoEntryTwice
PROPERTIES
  IndexIsStable
  RefinesRotatingFifo
  SetNextReturns
