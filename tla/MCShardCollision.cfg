SPECIFICATION Spec
CONSTANTS
  InitCapacity = 60
  MaxCapacity = 60
  Data <- Entry
  ZeroBlob <- Zeroes
  k1 = k1
  k2 = k2
  k3 = k3
  w1 = w1
  w2 = w2
  small = small
  large = large
  Workers = {w1, w2}
  Janitor = janitor
  NoOne = noone
  NoKey = nokey
  Methods = {"Set", "Append"}
  Keys = {k1, k2, k3}
  HashOf <- CollidingHash
  KeyLen = 1
  Values = {small}
  ValueLen <- LengthSmall
  AppendKeys = {k2}
  AppendValues = {small}
  LifeWindow = 1
  StatsEnabled = FALSE
  WordSize = 16
  MaxClock = 3
  MaxLag = 0
  MaxOps = 4
PROPERTIES
  RemovalsAreReported
