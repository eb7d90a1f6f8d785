SPECIFICATION Spec
CONSTANTS
  InitCapacity = 60
  MaxCapacity = 100
  Data <- Entry
  ZeroBlob <- Zeroes
  k1 = k1
  k2 = k2
  k3 = k3
  w1 = w1
  w2 = w2
  small = small
  large = large
  Workers = {w1, w2}
  Janitor = janitor
  NoOne = noone
  NoKey = nokey
  Methods = {"Set", "Append", "Get", "Delete", "Reset"}
  Keys = {k1, k2, k3}
  HashOf <- CollidingHash
  KeyLen = 1
  Values = {small, large}
  ValueLen <- Lengths
  AppendKeys = {k3}
  AppendValues = {small}
  LifeWindow = 0
  StatsEnabled = TRUE
  WordSize = 16
  MaxClock = 1
  MaxLag = 1
  MaxOps = 4
INVARIANTS
  TypeOK
  MapMatchesEntries
  ReadsLatest
PROPERTIES
  RemovalsAreReported
  ShardKeepsPromise
SYMMETRY Symmetry
