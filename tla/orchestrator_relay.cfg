SPECIFICATION Spec
CONSTANTS
  ShardCount = 3
  TaskCount = 2
  a1 = a1
  a2 = a2
  a3 = a3
  Array = {a1, a2}
  NoArray = NoArray
  MaxSlips = 2
INVARIANTS TypeOK OneArray StampsHold
PROPERTIES FinishedStays  ShardsTravel
