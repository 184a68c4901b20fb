SPECIFICATION Spec
CONSTANTS
  shirt = shirt
  belt = belt
  o1 = o1
  o2 = o2
  p1 = p1
  p2 = p2
  c1 = c1
  c2 = c2
  NoSize = NoSize
  NoWorker = NoWorker
  Product = {p1, p2, belt}
  Made = {p1, p2}
  Size = {}
  Order = {o1, o2}
  Cart <- MixedCart
  CartSize <- NoSizes
  OpeningStock <- MixedStock
  OpeningSizes <- MixedSizes
  Worker = {"w1", "w2"}
  Txn = {}
  Slot = {c1}
  Ops = {"create", "cancel", "advance", "deliver", "cod", "assign", "act"}
  MaxMoved = 1
  MaxCrashes = 0
INVARIANTS
  TypeOK
  ReservedBacksPending
  SettledOnce
  CompletedMeansInspected
  FloorFinishes
  FloorNeverRefused
  OfferedIsAccepted
PROPERTIES
  StatusFollowsGraph
  TrailTellsTruth
  OrdersHoldTheirUnits
CHECK_DEADLOCK FALSE
