SPECIFICATION Spec
CONSTANTS
  InitCapacity = 100
  MaxCapacity = 0
  Data = {0, 1, 2, 3, 4, 5, 6, 7}
  ZeroBlob = 0
  EntryLengths = {19, 40}
  MaxPushes = 6
INVARIANT OldestAtHead
