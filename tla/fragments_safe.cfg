CONSTANTS
  b1 = b1
  b2 = b2
  b3 = b3
  Bundles = {b1, b2, b3}
  BundleId <- OneId
  TotalFrags <- TwoTwoOne
  NoPayload = NoPayload
  Assemblers = {a1, a2}
  WalRows = 1
  MaxStored = 3
  Timeouts = 1
  MaxFaults = 1
  BaseSize = 1
  RowSize = 10
  MaxSize = 22
  WarnPct = 80
  PurgePct = 95
SPECIFICATION FairSpec
INVARIANTS StoreInv DeliveredAsSent CompleteIsWhole
PROPERTIES WholeIsDelivered OverdueIsPurged RoomIsMade
