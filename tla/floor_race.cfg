SPECIFICATION Spec
CONSTANTS
  shirt = shirt
  belt = belt
  o1 = o1
  o2 = o2
  p1 = p1
  p2 = p2
  c1 = c1
  c2 = c2
  NoSize = NoSize
  NoWorker = NoWorker
  Product = {p1, p2}
  Made = {p1, p2}
  Size = {}
  Order = {o1}
  Cart <- TwoGarments
  CartSize <- OneNoSize
  OpeningStock <- EnoughGarments
  OpeningSizes <- GarmentSizes
  Worker = {"w1"}
  Txn = {}
  Slot = {c1, c2}
  Ops = {"create", "cod", "assign", "act"}
  MaxMoved = 1
  MaxCrashes = 0
INVARIANTS
  FloorFinishes
CHECK_DEADLOCK FALSE
