-------------------------- MODULE InventoryService --------------------------
(* backend/src/inventory/inventory.service.ts.  The order paths are functions *)
(* on one product's row (s), because their callers run them for every line of *)
(* an order inside one transaction; the admin paths are actions.              *)
EXTENDS Tables

(* An update of the balances and of the product's cache, and the movement row *)
(* that goes with it.                                                         *)
Shift(s, available, reserved, cache) ==
  [s EXCEPT !.available = @ + available, !.reserved = @ + reserved,
            !.cache = @ + cache]
Moved(s, type, change) == [s EXCEPT !.moved[type] = @ + change]

(* The CHECK constraint inventory_non_negative: a transaction that leaves a   *)
(* row outside it is rolled back.                                             *)
Check(s) == s.available >= 0 /\ s.reserved >= 0 /\ s.reserved <= s.available

(* Low-stock alert: re-arm it on recovery, file it on the first dip.          *)
IsLow(s) == s.available <= s.minimum
SilentCheckLowStock(s) == [s EXCEPT !.notified = @ \/ IsLow(s)]
CheckLowStock(s) == [s EXCEPT !.notified = IsLow(s)]

UnguardedReserve(s, q) == TRUE
CanReserve(s, q) == s.available - s.reserved >= q
Reserve(s, q) == Moved(Shift(s, 0, q, -q), "RESERVE", q)

SellsOnlyFree(s, q) == s.available - s.reserved >= q
CanSell(s, q) == s.reserved >= q /\ s.available >= q
Sale(s, q) == CheckLowStock(Moved(Shift(s, -q, -q, 0), "SALE", -q))

CanRelease(s, q) == s.reserved >= q
StaleCacheRelease(s, q) == Moved(Shift(s, 0, -q, 0), "RELEASE", -q)
Release(s, q) == Moved(Shift(s, 0, -q, q), "RELEASE", -q)

Restock(s, q) == CheckLowStock(Moved(Shift(s, q, 0, q), "ADJUSTMENT", q))

------------------------------------------------------------------------------
(* adjust: an admin moves stock by hand, optionally one size of it.           *)
Signs(type, change) ==
  /\ change # 0
  /\ type = "PURCHASE" => change > 0
  /\ type = "DAMAGE" => change < 0

SizesAfter(s, size, change) ==
  IF size = NoSize THEN s.sizes ELSE [s.sizes EXCEPT ![size] = @ + change]

CanAdjustAnyway(s, size, change) == s.available + change >= 0
CanAdjust(s, size, change) ==
  /\ s.available + change >= 0
  /\ s.available + change >= s.reserved
  /\ size # NoSize => s.sizes[size] + change >= 0

Resized(s, sizes) == [s EXCEPT !.sizes = sizes]
Adjusted(s, type, size, change) ==
  CheckLowStock(Moved(Resized(Shift(s, change, 0, change),
                              SizesAfter(s, size, change)), type, change))

(* MaxMoved bounds the ledger totals an admin can reach, and nothing else.    *)
Adjust(p, type, size, change) ==
  /\ (IF size = NoSize THEN "adjust" ELSE "adjust_size") \in Ops
  /\ Signs(type, change)
  /\ CanAdjust(stock[p], size, change)
  /\ stock[p].moved[type] + change \in -MaxMoved .. MaxMoved
  /\ stock' = [stock EXCEPT ![p] = Adjusted(@, type, size, change)]
  /\ UNCHANGED <<orderTables, moneyTables, call, crashes>>

(* setMinimum re-arms the alert before the check decides it again.            *)
SetMinimum(p, minimum) ==
  /\ "minimum" \in Ops
  /\ stock' = [stock EXCEPT ![p] =
       CheckLowStock([@ EXCEPT !.minimum = minimum, !.notified = FALSE])]
  /\ UNCHANGED <<orderTables, moneyTables, call, crashes>>

------------------------------------------------------------------------------
(* backend/src/products/products.service.ts.  create: the product, its        *)
(* inventory row and the INITIAL movement are one transaction.  update with a *)
(* sizeStock writes the total of the sizes over both balances; the CHECK      *)
(* constraint is all that stands between it and the reservations.             *)
Opened(p) ==
  [available |-> OpeningStock[p], reserved |-> 0, minimum |-> 0,
   notified |-> FALSE, cache |-> OpeningStock[p],
   sizes |-> OpeningSizes[p],
   moved |-> [type \in MovementType |->
                IF type = "INITIAL" THEN OpeningStock[p] ELSE 0]]

EditSizes(p, sizes, total) ==
  LET edited == [stock[p] EXCEPT !.available = total, !.cache = total,
                                 !.sizes = sizes] IN
  /\ "edit_sizes" \in Ops
  /\ Size # {} /\ total = Total(sizes)
  /\ Check(edited)
  /\ stock' = [stock EXCEPT ![p] = edited]
  /\ UNCHANGED <<orderTables, moneyTables, call, crashes>>
=============================================================================
