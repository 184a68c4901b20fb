SPECIFICATION Spec
CONSTANTS
  shirt = shirt
  belt = belt
  o1 = o1
  o2 = o2
  p1 = p1
  p2 = p2
  c1 = c1
  c2 = c2
  NoSize = NoSize
  NoWorker = NoWorker
  Product = {shirt}
  Made = {shirt}
  Size = {}
  Order = {o1}
  Cart <- OneShirt
  CartSize <- OneNoSize
  OpeningStock <- LastShirt
  OpeningSizes <- ShirtSizes
  Worker = {}
  Txn = {"t1"}
  Slot = {c1, c2}
  Ops = {"create", "cancel", "payhere", "notify", "cod", "mark", "reject", "installments", "stripe"}
  MaxMoved = 1
  MaxCrashes = 1
SYMMETRY Slots
INVARIANTS
  EventActedOnOnce
CHECK_DEADLOCK FALSE
