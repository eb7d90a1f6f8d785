SPECIFICATION Spec
CONSTANTS
  InitCapacity = 200
  MaxCapacity = 0
  Data = {0, 1, 2, 3, 4, 5, 6, 7}
  ZeroBlob = 0
  EntryLengths = {19, 146}
  MaxPushes = 7
INVARIANT HeadIsAnEntry
