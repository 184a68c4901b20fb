SPECIFICATION Spec
CONSTANTS
  shirt = shirt
  belt = belt
  o1 = o1
  o2 = o2
  p1 = p1
  p2 = p2
  c1 = c1
  c2 = c2
  NoSize = NoSize
  NoWorker = NoWorker
  Product = {belt}
  Made = {}
  Size = {"S", "M"}
  Order = {o1, o2}
  Cart <- SharedCart
  CartSize <- SizedCart
  OpeningStock <- TwoUnits
  OpeningSizes <- OneOfEach
  Worker = {}
  Txn = {}
  Slot = {c1, c2}
  Ops = {"create", "cancel", "adjust_size", "edit_sizes"}
  MaxMoved = 1
  MaxCrashes = 0
INVARIANTS
  SizesNeverNegative
PROPERTIES
  KeepsPromises
CHECK_DEADLOCK FALSE
