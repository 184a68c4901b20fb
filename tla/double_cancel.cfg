SPECIFICATION Spec
CONSTANTS
  shirt = shirt
  belt = belt
  o1 = o1
  o2 = o2
  p1 = p1
  p2 = p2
  c1 = c1
  c2 = c2
  NoSize = NoSize
  NoWorker = NoWorker
  Product = {belt}
  Made = {}
  Size = {}
  Order = {o1, o2}
  Cart <- SharedCart
  CartSize <- NoSizes
  OpeningStock <- ThreeBelts
  OpeningSizes <- EmptySizes
  Worker = {}
  Txn = {}
  Slot = {c1, c2}
  Ops = {"create", "cancel", "cod"}
  MaxMoved = 1
  MaxCrashes = 0
INVARIANTS
  SettledOnce
CHECK_DEADLOCK FALSE
