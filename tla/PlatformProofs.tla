---------------------------- MODULE PlatformProofs ---------------------------
(* What holds of Platform for every catalogue, every set of orders, any       *)
(* number of requests in flight and any mix of endpoints.                     *)
EXTENDS Platform, TLAPS

(* The lines of a cart are products, in natural quantities.                   *)
LEMMA LinesAreProducts ==
  ASSUME NEW o \in Order
  PROVE  /\ Lines(o) \subseteq Product
         /\ \A p \in Product : Cart[o][p] \in Nat
  BY CartAssumption DEF Lines

(* The fields an update of a stock row moves, and those it leaves alone.      *)
LEMMA ShiftEffect ==
  ASSUME NEW s \in StockRow, NEW a \in Int, NEW r \in Int, NEW c \in Int
  PROVE  /\ Shift(s, a, r, c) \in StockRow
         /\ Shift(s, a, r, c).available = s.available + a
         /\ Shift(s, a, r, c).reserved = s.reserved + r
         /\ Shift(s, a, r, c).cache = s.cache + c
         /\ Shift(s, a, r, c).moved = s.moved
         /\ Shift(s, a, r, c).sizes = s.sizes
<1>1. s.available + a \in Int /\ s.reserved + r \in Int /\ s.cache + c \in Int
  BY DEF StockRow
<1> DEFINE A == s.available + a
           R == s.reserved + r
           C == s.cache + c
<1>2. Shift(s, a, r, c) =
        [s EXCEPT !.available = A, !.reserved = R, !.cache = C]
  BY DEF Shift
<1> HIDE DEF A, R, C
<1>3. A \in Int /\ R \in Int /\ C \in Int
  BY <1>1 DEF A, R, C
<1>4. /\ [s EXCEPT !.available = A, !.reserved = R, !.cache = C] \in StockRow
      /\ Shift(s, a, r, c).available = A
      /\ Shift(s, a, r, c).reserved = R
      /\ Shift(s, a, r, c).cache = C
      /\ Shift(s, a, r, c).moved = s.moved
      /\ Shift(s, a, r, c).sizes = s.sizes
  BY <1>2, <1>3 DEF StockRow
<1> QED BY <1>2, <1>4 DEF A, R, C

(* A movement row moves its own total and nothing else.                       *)
LEMMA MovedEffect ==
  ASSUME NEW s \in StockRow, NEW type \in MovementType, NEW change \in Int
  PROVE  /\ Moved(s, type, change) \in StockRow
         /\ Moved(s, type, change).available = s.available
         /\ Moved(s, type, change).reserved = s.reserved
         /\ Moved(s, type, change).cache = s.cache
         /\ Moved(s, type, change).moved =
              [s.moved EXCEPT ![type] = @ + change]
  BY DEF Moved, StockRow

(* The alert moves no balance.                                                *)
LEMMA CheckLowStockEffect ==
  ASSUME NEW s \in StockRow
  PROVE  /\ CheckLowStock(s) \in StockRow
         /\ CheckLowStock(s).available = s.available
         /\ CheckLowStock(s).reserved = s.reserved
         /\ CheckLowStock(s).cache = s.cache
         /\ CheckLowStock(s).moved = s.moved
<1>1. IsLow(s) \in BOOLEAN
  BY DEF IsLow
<1> QED BY <1>1 DEF CheckLowStock, StockRow


(* A shift of the balances together with its movement row.                    *)
LEMMA BookedEffect ==
  ASSUME NEW s \in StockRow, NEW a \in Int, NEW r \in Int, NEW c \in Int,
         NEW type \in MovementType, NEW change \in Int
  PROVE  /\ Moved(Shift(s, a, r, c), type, change) \in StockRow
         /\ Moved(Shift(s, a, r, c), type, change).available = s.available + a
         /\ Moved(Shift(s, a, r, c), type, change).reserved = s.reserved + r
         /\ Moved(Shift(s, a, r, c), type, change).cache = s.cache + c
         /\ Moved(Shift(s, a, r, c), type, change).moved =
              [s.moved EXCEPT ![type] = @ + change]
<1> DEFINE t == Shift(s, a, r, c)
<1>1. /\ t \in StockRow
      /\ t.available = s.available + a
      /\ t.reserved = s.reserved + r
      /\ t.cache = s.cache + c
      /\ t.moved = s.moved
  BY ShiftEffect
<1> HIDE DEF t
<1>2. /\ Moved(t, type, change) \in StockRow
      /\ Moved(t, type, change).available = t.available
      /\ Moved(t, type, change).reserved = t.reserved
      /\ Moved(t, type, change).cache = t.cache
      /\ Moved(t, type, change).moved = [t.moved EXCEPT ![type] = @ + change]
  BY <1>1, MovedEffect
<1>3. /\ Moved(t, type, change) \in StockRow
      /\ Moved(t, type, change).available = s.available + a
      /\ Moved(t, type, change).reserved = s.reserved + r
      /\ Moved(t, type, change).cache = s.cache + c
      /\ Moved(t, type, change).moved = [s.moved EXCEPT ![type] = @ + change]
  BY <1>1, <1>2
<1> QED BY <1>3 DEF t

(* The rows an order path may leave: typed; inside the CHECK constraint when  *)
(* its guard held; reconciled when the row it found was.                      *)
LEMMA ReserveKeeps ==
  ASSUME NEW s \in StockRow, NEW q \in Nat
  PROVE  /\ Reserve(s, q) \in StockRow
         /\ Check(s) /\ CanReserve(s, q) => Check(Reserve(s, q))
         /\ Reconciles(s) => Reconciles(Reserve(s, q))
<1> DEFINE t == Moved(Shift(s, 0, q, -q), "RESERVE", q)
<1>1. "RESERVE" \in MovementType /\ q \in Int /\ -q \in Int /\ 0 \in Int
  BY DEF MovementType
<1>2. /\ t \in StockRow
      /\ t.available = s.available + 0
      /\ t.reserved = s.reserved + q
      /\ t.cache = s.cache + (-q)
      /\ t.moved = [s.moved EXCEPT !["RESERVE"] = @ + q]
  BY <1>1, BookedEffect
<1> HIDE DEF t
<1>3. Check(s) /\ CanReserve(s, q) => Check(t)
  BY <1>2 DEF Check, CanReserve, StockRow
<1>4. Reconciles(s) => Reconciles(t)
  BY <1>2 DEF Reconciles, StockRow, MovementType
<1> QED BY <1>2, <1>3, <1>4 DEF t, Reserve

(* So it keeps what is said of the balances.                                  *)
LEMMA CheckLowStockKeeps ==
  ASSUME NEW s \in StockRow
  PROVE  /\ CheckLowStock(s) \in StockRow
         /\ Check(s) => Check(CheckLowStock(s))
         /\ Reconciles(s) => Reconciles(CheckLowStock(s))
BY CheckLowStockEffect DEF Check, Reconciles

(* A sale, whose guard is the WHERE of its UPDATE.                            *)
LEMMA SaleKeeps ==
  ASSUME NEW s \in StockRow, NEW q \in Nat
  PROVE  /\ Sale(s, q) \in StockRow
         /\ Check(s) /\ CanSell(s, q) => Check(Sale(s, q))
         /\ Reconciles(s) => Reconciles(Sale(s, q))
<1> DEFINE t == Moved(Shift(s, -q, -q, 0), "SALE", -q)
<1>1. "SALE" \in MovementType /\ q \in Int /\ -q \in Int /\ 0 \in Int
  BY DEF MovementType
<1>2. /\ t \in StockRow
      /\ t.available = s.available + (-q)
      /\ t.reserved = s.reserved + (-q)
      /\ t.cache = s.cache + (0)
      /\ t.moved = [s.moved EXCEPT !["SALE"] = @ + (-q)]
  BY <1>1, BookedEffect
<1> HIDE DEF t
<1>3. Check(s) /\ CanSell(s, q) => Check(t)
  BY <1>2 DEF Check, CanSell, StockRow
<1>4. Reconciles(s) => Reconciles(t)
  BY <1>2 DEF Reconciles, StockRow, MovementType
<1>5. /\ CheckLowStock(t) \in StockRow
      /\ Check(t) => Check(CheckLowStock(t))
      /\ Reconciles(t) => Reconciles(CheckLowStock(t))
  BY <1>2, CheckLowStockKeeps
<1>6. Sale(s, q) = CheckLowStock(t)
  BY DEF t, Sale
<1> QED BY <1>3, <1>4, <1>5, <1>6

(* A release, likewise.                                                       *)
LEMMA ReleaseKeeps ==
  ASSUME NEW s \in StockRow, NEW q \in Nat
  PROVE  /\ Release(s, q) \in StockRow
         /\ Check(s) /\ CanRelease(s, q) => Check(Release(s, q))
         /\ Reconciles(s) => Reconciles(Release(s, q))
<1> DEFINE t == Moved(Shift(s, 0, -q, q), "RELEASE", -q)
<1>1. "RELEASE" \in MovementType /\ q \in Int /\ -q \in Int /\ 0 \in Int
  BY DEF MovementType
<1>2. /\ t \in StockRow
      /\ t.available = s.available + (0)
      /\ t.reserved = s.reserved + (-q)
      /\ t.cache = s.cache + (q)
      /\ t.moved = [s.moved EXCEPT !["RELEASE"] = @ + (-q)]
  BY <1>1, BookedEffect
<1> HIDE DEF t
<1>3. Check(s) /\ CanRelease(s, q) => Check(t)
  BY <1>2 DEF Check, CanRelease, StockRow
<1>4. Reconciles(s) => Reconciles(t)
  BY <1>2 DEF Reconciles, StockRow, MovementType
<1> QED BY <1>2, <1>3, <1>4 DEF t, Release

(* The return of what was sold, which needs no guard.                         *)
LEMMA RestockKeeps ==
  ASSUME NEW s \in StockRow, NEW q \in Nat
  PROVE  /\ Restock(s, q) \in StockRow
         /\ Check(s) => Check(Restock(s, q))
         /\ Reconciles(s) => Reconciles(Restock(s, q))
<1> DEFINE t == Moved(Shift(s, q, 0, q), "ADJUSTMENT", q)
<1>1. "ADJUSTMENT" \in MovementType /\ q \in Int /\ -q \in Int /\ 0 \in Int
  BY DEF MovementType
<1>2. /\ t \in StockRow
      /\ t.available = s.available + (q)
      /\ t.reserved = s.reserved + (0)
      /\ t.cache = s.cache + (q)
      /\ t.moved = [s.moved EXCEPT !["ADJUSTMENT"] = @ + (q)]
  BY <1>1, BookedEffect
<1> HIDE DEF t
<1>3. Check(s) => Check(t)
  BY <1>2 DEF Check, StockRow
<1>4. Reconciles(s) => Reconciles(t)
  BY <1>2 DEF Reconciles, StockRow, MovementType
<1>5. /\ CheckLowStock(t) \in StockRow
      /\ Check(t) => Check(CheckLowStock(t))
      /\ Reconciles(t) => Reconciles(CheckLowStock(t))
  BY <1>2, CheckLowStockKeeps
<1>6. Restock(s, q) = CheckLowStock(t)
  BY DEF t, Restock
<1> QED BY <1>3, <1>4, <1>5, <1>6

(* A write of the sizes moves no balance.                                     *)
LEMMA ResizedKeeps ==
  ASSUME NEW s \in StockRow, NEW sizes \in [Size -> Int]
  PROVE  /\ Resized(s, sizes) \in StockRow
         /\ Resized(s, sizes).available = s.available
         /\ Resized(s, sizes).reserved = s.reserved
         /\ Resized(s, sizes).cache = s.cache
         /\ Resized(s, sizes).moved = s.moved
         /\ Check(s) => Check(Resized(s, sizes))
         /\ Reconciles(s) => Reconciles(Resized(s, sizes))
BY DEF Resized, StockRow, Check, Reconciles

(* A correction by hand, under the guard of adjust.                           *)
LEMMA AdjustedKeeps ==
  ASSUME NEW s \in StockRow, NEW type \in {"PURCHASE", "ADJUSTMENT", "DAMAGE"},
         NEW size \in Size \cup {NoSize}, NEW change \in Int
  PROVE  /\ Adjusted(s, type, size, change) \in StockRow
         /\ Check(s) /\ CanAdjust(s, size, change) =>
              Check(Adjusted(s, type, size, change))
         /\ Reconciles(s) => Reconciles(Adjusted(s, type, size, change))
<1> DEFINE t == Shift(s, change, 0, change)
           u == Resized(t, SizesAfter(s, size, change))
           v == Moved(u, type, change)
<1>1. type \in MovementType /\ 0 \in Int
  BY DEF MovementType
<1>2. /\ t \in StockRow
      /\ t.available = s.available + change
      /\ t.reserved = s.reserved + 0
      /\ t.cache = s.cache + change
      /\ t.moved = s.moved
  BY <1>1, ShiftEffect
<1>3. SizesAfter(s, size, change) \in [Size -> Int]
  BY DEF SizesAfter, StockRow
<1> HIDE DEF t
<1>4. /\ u \in StockRow
      /\ u.available = t.available
      /\ u.reserved = t.reserved
      /\ u.cache = t.cache
      /\ u.moved = t.moved
  BY <1>2, <1>3, ResizedKeeps
<1> HIDE DEF u
<1>5. /\ v \in StockRow
      /\ v.available = u.available
      /\ v.reserved = u.reserved
      /\ v.cache = u.cache
      /\ v.moved = [u.moved EXCEPT ![type] = @ + change]
  BY <1>1, <1>4, MovedEffect
<1> HIDE DEF v
<1>6. Check(s) /\ CanAdjust(s, size, change) => Check(v)
  BY <1>2, <1>4, <1>5 DEF Check, CanAdjust, StockRow
<1>7. Reconciles(s) => Reconciles(v)
  <2>1. v.moved = [s.moved EXCEPT ![type] = @ + change]
    BY <1>2, <1>4, <1>5
  <2>2. /\ v.available = s.available + change
        /\ v.reserved = s.reserved
        /\ v.cache = s.cache + change
    BY <1>2, <1>4, <1>5 DEF StockRow
  <2> QED BY <2>1, <2>2 DEF Reconciles, StockRow, MovementType
<1>8. /\ CheckLowStock(v) \in StockRow
      /\ Check(v) => Check(CheckLowStock(v))
      /\ Reconciles(v) => Reconciles(CheckLowStock(v))
  BY <1>5, CheckLowStockKeeps
<1>9. Adjusted(s, type, size, change) = CheckLowStock(v)
  BY DEF t, u, v, Adjusted
<1> QED BY <1>6, <1>7, <1>8, <1>9

------------------------------------------------------------------------------
(* What a request in flight holds, by the endpoint it is serving.             *)
LEMMA CallByOp ==
  ASSUME NEW r \in Call
  PROVE  /\ r.op = "create" => r \in CreateCall
         /\ r.op = "cancel" => r \in CancelCall
         /\ r.op \in {"advance", "deliver"} => r \in VerbCall
         /\ r.op \in {"payhere", "installments", "cod", "stripe", "mark",
                      "reject"} => r \in PayCall
         /\ r.op = "notify" => r \in NotifyCall
         /\ r.op = "assign" => r \in AssignCall
         /\ r.op = "act" => r \in ActCall
         /\ r.op = "floor" => r \in FloorCall
BY DEF Call, Idle, CreateCall, CancelCall, VerbCall, PayCall, NotifyCall,
       AssignCall, ActCall, FloorCall

(* How a step may leave one product's row.                                    *)
Kept(s, t) ==
  /\ t \in StockRow
  /\ Check(s) => Check(t)
  /\ Reconciles(s) => Reconciles(t)

StockKept ==
  /\ stock' \in [Product -> StockRow]
  /\ \A p \in Product : Kept(stock[p], stock'[p])

(* The sizes a checkout writes are sizes.                                     *)
LEMMA SizesWrittenType ==
  ASSUME NEW o \in Order, NEW copy \in [Size -> Int], NEW q \in Nat
  PROVE  SizesWritten(o, copy, q) \in [Size -> Int]
<1>1. CASE CartSize[o] = NoSize
  BY <1>1 DEF SizesWritten
<1>2. CASE CartSize[o] # NoSize
  <2>1. CartSize[o] \in Size
    BY <1>2, CartAssumption
  <2>2. Floor0(copy[CartSize[o]] - q) \in Int
    BY <2>1 DEF Floor0
  <2>3. SizesWritten(o, copy, q) =
          [copy EXCEPT ![CartSize[o]] = Floor0(copy[CartSize[o]] - q)]
    BY <1>2, Zenon DEF SizesWritten
  <2> QED BY <2>2, <2>3
<1> QED BY <1>1, <1>2

(* Checkout: every line reserved, or no row touched.                          *)
LEMMA CreateKeepsStock ==
  ASSUME TypeOK, NEW c \in Slot, CreateCommit(c)
  PROVE  StockKept
<1> DEFINE o == call[c].order
           copy(p) == SizesWritten(o, call[c].sizes[p], Cart[o][p])
<1>1. call[c] \in CreateCall
  BY CallByOp DEF TypeOK, CreateCommit
<1>2. o \in Order /\ \A p \in Product : call[c].sizes[p] \in [Size -> Int]
  BY <1>1 DEF CreateCall
<1>3. \A p \in Product : stock[p] \in StockRow /\ Cart[o][p] \in Nat
  BY <1>2, LinesAreProducts DEF TypeOK
<1>4. ASSUME NEW p \in Product
      PROVE  copy(p) \in [Size -> Int]
  BY <1>2, <1>3, SizesWrittenType
<1> HIDE DEF o, copy
<1>5. CASE \A p \in Lines(o) : CanReserve(stock[p], Cart[o][p])
  <2>1. stock' = [p \in Product |->
          IF p \in Lines(o) /\ CartSize[o] # NoSize
          THEN Resized(OnLines(o, Reserve)[p], copy(p))
          ELSE OnLines(o, Reserve)[p]]
    BY <1>5 DEF CreateCommit, o, copy
  <2>2. ASSUME NEW p \in Product
        PROVE  Kept(stock[p], stock'[p])
    <3> DEFINE t == Reserve(stock[p], Cart[o][p])
    <3>1. stock[p] \in StockRow /\ Kept(stock[p], stock[p])
      BY <1>3 DEF Kept
    <3>2. p \in Lines(o) => Kept(stock[p], t)
      BY <1>3, <1>5, ReserveKeeps DEF Kept
    <3>3. OnLines(o, Reserve)[p] = IF p \in Lines(o) THEN t ELSE stock[p]
      BY DEF OnLines
    <3> HIDE DEF t
    <3>4. p \in Lines(o) => Kept(stock[p], Resized(t, copy(p)))
      BY <1>4, <3>2, ResizedKeeps DEF Kept
    <3> QED BY <2>1, <3>1, <3>2, <3>3, <3>4
  <2> QED BY <2>1, <2>2 DEF Kept, StockKept
<1>6. CASE ~ \A p \in Lines(o) : CanReserve(stock[p], Cart[o][p])
  BY <1>3, <1>6 DEF CreateCommit, o, Kept, TypeOK, StockKept
<1> QED BY <1>5, <1>6

(* Cancellation: every line released or returned, or no row touched.          *)
LEMMA CancelKeepsStock ==
  ASSUME TypeOK, NEW c \in Slot, CancelCommit(c)
  PROVE  StockKept
<1> DEFINE r == call[c]
           o == r.order
           Back(s, q) == WithSize(o, IF Releases(r.saw) THEN Release(s, q)
                                                        ELSE Restock(s, q), q)
<1>0. r.op = "cancel"
  BY Zenon DEF CancelCommit
<1>1. o \in Order
  <2>1. r \in Call
    BY DEF TypeOK
  <2> HIDE DEF r
  <2> QED BY <1>0, <2>1, CallByOp DEF CancelCall
<1>2. \A p \in Product : stock[p] \in StockRow /\ Cart[o][p] \in Nat
  BY <1>1, LinesAreProducts DEF TypeOK
<1>3. ASSUME NEW s \in StockRow, NEW t, Kept(s, t), NEW q \in Nat
      PROVE  Kept(s, WithSize(o, t, q))
  <2>1. CASE CartSize[o] = NoSize
    BY <1>3, <2>1 DEF WithSize
  <2>2. CASE CartSize[o] # NoSize
    <3> DEFINE sizes == [t.sizes EXCEPT ![CartSize[o]] = @ + q]
    <3>1. t \in StockRow /\ CartSize[o] \in Size
      BY <1>1, <1>3, <2>2, CartAssumption DEF Kept
    <3>2. sizes \in [Size -> Int]
      BY <3>1 DEF StockRow
    <3> HIDE DEF sizes
    <3>3. Kept(s, Resized(t, sizes))
      BY <1>3, <3>1, <3>2, ResizedKeeps DEF Kept
    <3> QED BY <2>2, <3>3, Zenon DEF WithSize, sizes
  <2> QED BY <2>1, <2>2
<1>4. CASE Releases(r.saw) =>
             \A p \in Lines(o) : CanRelease(stock[p], Cart[o][p])
  <2>1. stock' = [p \in Product |-> IF p \in Lines(o)
                    THEN Back(stock[p], Cart[o][p]) ELSE stock[p]]
    BY <1>4, Zenon DEF CancelCommit, OnLines
  <2>2. ASSUME NEW p \in Product
        PROVE  Kept(stock[p], stock'[p])
    <3> DEFINE t == IF Releases(r.saw) THEN Release(stock[p], Cart[o][p])
                                       ELSE Restock(stock[p], Cart[o][p])
    <3>1. p \in Lines(o) => Kept(stock[p], t)
      <4>1. CASE Releases(r.saw)
        BY <1>2, <1>4, <4>1, ReleaseKeeps DEF Kept
      <4>2. CASE ~Releases(r.saw)
        BY <1>2, <4>2, RestockKeeps DEF Kept
      <4> QED BY <4>1, <4>2
    <3> HIDE DEF t
    <3>2. p \in Lines(o) => Kept(stock[p], WithSize(o, t, Cart[o][p]))
      BY <1>2, <1>3, <3>1
    <3>3. stock'[p] = IF p \in Lines(o) THEN WithSize(o, t, Cart[o][p])
                                        ELSE stock[p]
      BY <2>1 DEF t
    <3> HIDE DEF o
    <3>4. Kept(stock[p], stock[p])
      BY <1>2 DEF Kept
    <3> QED BY <3>2, <3>3, <3>4
  <2> QED BY <2>1, <2>2 DEF Kept, StockKept
<1>5. CASE ~ (Releases(r.saw) =>
                \A p \in Lines(o) : CanRelease(stock[p], Cart[o][p]))
  <2>1. UNCHANGED stock
    BY <1>5, Zenon DEF CancelCommit
  <2> QED BY <1>2, <2>1 DEF Kept, TypeOK, StockKept
<1> QED BY <1>4, <1>5

(* Confirmation: every line sold, or no row touched.                          *)
LEMMA ConfirmKeepsStock ==
  ASSUME TypeOK, NEW o \in Order, ConfirmOrder(o)
  PROVE  StockKept
<1>1. \A p \in Product : stock[p] \in StockRow /\ Cart[o][p] \in Nat
  BY LinesAreProducts DEF TypeOK
<1>2. CASE Confirmable(o) /\ ~SaleFails(o)
  <2>1. stock' = [p \in Product |-> IF p \in Lines(o)
                    THEN Sale(stock[p], Cart[o][p]) ELSE stock[p]]
    BY <1>2, Zenon DEF ConfirmOrder, OnLines
  <2>2. ASSUME NEW p \in Product
        PROVE  Kept(stock[p], stock'[p])
    <3>1. p \in Lines(o) => CanSell(stock[p], Cart[o][p])
      BY <1>2 DEF SaleFails
    <3>2. p \in Lines(o) => Kept(stock[p], Sale(stock[p], Cart[o][p]))
      BY <1>1, <3>1, SaleKeeps DEF Kept
    <3>3. Kept(stock[p], stock[p])
      BY <1>1 DEF Kept
    <3> QED BY <2>1, <3>2, <3>3
  <2> QED BY <2>1, <2>2 DEF Kept, StockKept
<1>3. CASE ~(Confirmable(o) /\ ~SaleFails(o))
  <2>1. UNCHANGED stock
    BY <1>3 DEF ConfirmOrder
  <2> QED BY <1>1, <2>1 DEF Kept, TypeOK, StockKept
<1> QED BY <1>2, <1>3

(* A step that writes one row keeps the stock when it keeps that row.         *)
LEMMA RowReplaced ==
  ASSUME TypeOK, NEW p \in Product, NEW t, Kept(stock[p], t),
         stock' = [stock EXCEPT ![p] = t]
  PROVE  StockKept
<1>1. \A q \in Product : stock[q] \in StockRow /\ Kept(stock[q], stock[q])
  BY DEF TypeOK, Kept
<1> QED BY <1>1 DEF TypeOK, Kept, StockKept

(* The corrections by hand write one row each.                                *)
LEMMA AdjustKeepsStock ==
  ASSUME TypeOK, NEW p \in Product,
         NEW type \in {"PURCHASE", "ADJUSTMENT", "DAMAGE"},
         NEW size \in Size \cup {NoSize},
         NEW change \in -MaxMoved .. MaxMoved,
         Adjust(p, type, size, change)
  PROVE  StockKept
<1>1. change \in Int /\ stock[p] \in StockRow
  BY StockAssumption DEF TypeOK
<1>2. Kept(stock[p], Adjusted(stock[p], type, size, change))
  BY <1>1, AdjustedKeeps DEF Adjust, Kept
<1>3. stock' = [stock EXCEPT ![p] = Adjusted(stock[p], type, size, change)]
  BY DEF Adjust
<1> QED BY <1>2, <1>3, RowReplaced

(* A new minimum moves no balance.                                            *)
LEMMA SetMinimumKeepsStock ==
  ASSUME TypeOK, NEW p \in Product, NEW minimum \in 0 .. MaxMoved,
         SetMinimum(p, minimum)
  PROVE  StockKept
<1> DEFINE s == [stock[p] EXCEPT !.minimum = minimum, !.notified = FALSE]
<1>1. minimum \in Nat /\ stock[p] \in StockRow
  BY StockAssumption DEF TypeOK
<1>2. Kept(stock[p], s)
  BY <1>1 DEF StockRow, Kept, Check, Reconciles
<1>3. stock' = [stock EXCEPT ![p] = CheckLowStock(s)]
  BY DEF SetMinimum
<1> HIDE DEF s
<1>4. Kept(stock[p], CheckLowStock(s))
  BY <1>2, CheckLowStockKeeps DEF Kept
<1> QED BY <1>3, <1>4, RowReplaced

(* Editing the sizes rewrites the balances without a movement, so it keeps    *)
(* the types and the CHECK constraint, and not the ledger.                    *)
LEMMA EditSizesKeepsStock ==
  ASSUME TypeOK, NEW p \in Product, NEW sizes \in [Size -> 0 .. MaxMoved],
         NEW total \in 0 .. MaxMoved, EditSizes(p, sizes, total)
  PROVE  /\ stock' \in [Product -> StockRow]
         /\ StockFloor => StockFloor'
         /\ "edit_sizes" \in Ops
<1> DEFINE s == [stock[p] EXCEPT !.available = total, !.cache = total,
                                 !.sizes = sizes]
<1>1. stock[p] \in StockRow /\ sizes \in [Size -> Int] /\ total \in Int
  BY StockAssumption DEF TypeOK
<1>2. s \in StockRow
  BY <1>1 DEF StockRow
<1>3. Check(s) /\ stock' = [stock EXCEPT ![p] = s] /\ "edit_sizes" \in Ops
  BY DEF EditSizes
<1> HIDE DEF s
<1> QED BY <1>2, <1>3 DEF TypeOK, StockFloor

------------------------------------------------------------------------------
(* The floor: a legal action on a task leaves a task.                         *)
LEMMA Stages ==
  /\ Stage = {"CUTTING", "STITCHING", "FINISHING", "QUALITY_CHECK"}
  /\ \A i \in 1..4 : StageOrder[i] \in Stage
BY DEF Stage, StageOrder

(* Every stage before the last has a next one.                                *)
LEMMA NextStageType ==
  ASSUME NEW stage \in Stage, stage # "QUALITY_CHECK"
  PROVE  NextStage(stage) \in Stage
<1>1. \E i \in 1..3 : StageOrder[i] = stage
  <2>1. StageOrder[1] = "CUTTING" /\ StageOrder[2] = "STITCHING"
        /\ StageOrder[3] = "FINISHING"
    BY DEF StageOrder
  <2> QED BY <2>1, Stages
<1> DEFINE i == CHOOSE j \in 1..3 : StageOrder[j] = stage
<1>2. i \in 1..3
  BY <1>1
<1> HIDE DEF i
<1>3. StageOrder[1 + i] \in Stage
  BY <1>2, Stages
<1> QED BY <1>3 DEF NextStage, i

(* A task that was made is a row, and not the missing one.                    *)
LEMMA TaskMadeIsRow == TaskMade \subseteq TaskRow /\ NoTask \notin TaskMade
BY Stages DEF TaskRow, TaskMade, NoTask

(* Acting on a task leaves a task.                                            *)
LEMMA ActedType ==
  ASSUME NEW t \in TaskMade, NEW action \in TaskAction, Legal(action, t)
  PROVE  Acted(t, action) \in TaskMade
<1> DEFINE next == ApplyAction(action, t)
<1>1. next.stage \in Stage /\ next.status \in TaskStatus
  <2>1. t.stage \in Stage
    BY DEF TaskMade
  <2>2. action = "advance" => NextStage(t.stage) \in Stage
    BY <2>1, NextStageType DEF Legal
  <2>3. "FINISHING" \in Stage
    BY Stages
  <2> QED BY <2>1, <2>2, <2>3 DEF ApplyAction, TaskAction, TaskStatus
<1> DEFINE a == next.stage
           b == next.status
           d == t.started \/ action = "start"
<1>2. Acted(t, action) = [t EXCEPT !.stage = a, !.status = b, !.started = d]
  BY DEF Acted
<1>3. d \in BOOLEAN
  OBVIOUS
<1> HIDE DEF next, a, b, d
<1>4. a \in Stage /\ b \in TaskStatus
  BY <1>1 DEF a, b
<1> QED BY <1>2, <1>3, <1>4 DEF TaskMade

(* The UPDATE of one task leaves the others as they were.                     *)
LEMMA UpdatedType ==
  ASSUME TypeOK, NEW o \in Order, NEW p \in Product, tasks[o][p] # NoTask,
         NEW next \in TaskMade
  PROVE  /\ Updated(o, p, next) \in [Product -> TaskRow]
         /\ \A q \in Product :
              tasks[o][q] # NoTask => Updated(o, p, next)[q] # NoTask
<1> DEFINE t == tasks[o][p]
           d == t.started \/ next.started
           u == [t EXCEPT !.stage = next.stage, !.status = next.status,
                          !.started = d]
<1>1. t \in TaskMade
  BY DEF TypeOK, TaskRow
<1>2. Updated(o, p, next) = [tasks[o] EXCEPT ![p] = u]
  BY DEF Updated, TypeOK
<1>3. d \in BOOLEAN
  OBVIOUS
<1>4. next.stage \in Stage /\ next.status \in TaskStatus
  BY DEF TaskMade
<1> HIDE DEF t, d
<1>5. u \in TaskMade
  BY <1>1, <1>3, <1>4 DEF TaskMade
<1> HIDE DEF u
<1> QED BY <1>2, <1>5, TaskMadeIsRow DEF TypeOK

------------------------------------------------------------------------------
(* The inductive invariant of the types: the floor's requests are about tasks *)
(* that exist, which is why what they write is a task again.                  *)
FloorOp == {"assign", "act", "floor"}
FloorHasTask ==
  \A c \in Slot :
    call[c].op \in FloorOp => tasks[call[c].order][call[c].product] # NoTask
IInv == TypeOK /\ FloorHasTask

TasksStay ==
  \A o \in Order, p \in Product :
    tasks[o][p] # NoTask => tasks'[o][p] # NoTask

(* A step of one request that removes no task.                                *)
LEMMA CallStep ==
  ASSUME IInv, NEW c \in Slot, NEW r \in Call, call' = [call EXCEPT ![c] = r],
         TasksStay,
         r.op \in FloorOp => tasks'[r.order][r.product] # NoTask
  PROVE  call' \in [Slot -> Call] /\ FloorHasTask'
<1>1. call' \in [Slot -> Call]
  BY DEF IInv, TypeOK
<1>2. ASSUME NEW d \in Slot, call'[d].op \in FloorOp
      PROVE  tasks'[call'[d].order][call'[d].product] # NoTask
  <2>1. CASE d = c
    BY <1>2, <2>1 DEF IInv, TypeOK
  <2>2. CASE d # c
    <3> DEFINE q == call[d]
    <3>1. call'[d] = q /\ q \in Call /\ q.op \in FloorOp
      BY <1>2, <2>2 DEF IInv, TypeOK
    <3>2. tasks[q.order][q.product] # NoTask
      BY <3>1 DEF IInv, FloorHasTask
    <3> HIDE DEF q
    <3>3. q.order \in Order /\ q.product \in Product
      BY <3>1, CallByOp DEF FloorOp, AssignCall, ActCall, FloorCall
    <3> QED BY <3>1, <3>2, <3>3 DEF TasksStay
  <2> QED BY <2>1, <2>2
<1> QED BY <1>1, <1>2 DEF FloorHasTask

(* A step that ends a request.                                                *)
LEMMA IdleStep ==
  ASSUME IInv, NEW c \in Slot, call' = [call EXCEPT ![c] = Idle], TasksStay
  PROVE  call' \in [Slot -> Call] /\ FloorHasTask'
<1>1. Idle \in Call /\ Idle.op \notin FloorOp
  BY DEF Call, Idle, FloorOp
<1> QED BY <1>1, CallStep

(* A first step that only reads.                                              *)
LEMMA ReadStep ==
  ASSUME IInv, NEW c \in Slot, NEW r \in Call, call' = [call EXCEPT ![c] = r],
         r.op \in FloorOp => tasks[r.order][r.product] # NoTask,
         UNCHANGED <<stock, orderTables, moneyTables, crashes>>
  PROVE  IInv'
<1>1. TasksStay
  BY DEF TasksStay, orderTables
<1>2. r.op \in FloorOp => tasks'[r.order][r.product] # NoTask
  BY DEF orderTables
<1>3. call' \in [Slot -> Call] /\ FloorHasTask'
  BY <1>1, <1>2, CallStep
<1> QED BY <1>3 DEF IInv, TypeOK, orderTables, moneyTables

(* Create: what it reads is typed.                                            *)
LEMMA CreateReadTypes ==
  ASSUME IInv, NEW c \in Slot, NEW o \in Order, CreateRead(c, o)
  PROVE  IInv'
<1> DEFINE r == [op |-> "create", order |-> o,
                 sizes |-> [p \in Product |-> stock[p].sizes]]
<1>1. r \in Call /\ r.op \notin FloorOp
  BY DEF Call, CreateCall, FloorOp, IInv, TypeOK, StockRow
<1>2. /\ call' = [call EXCEPT ![c] = r]
      /\ UNCHANGED <<stock, orderTables, moneyTables, crashes>>
  BY DEF CreateRead
<1> HIDE DEF r
<1> QED BY <1>1, <1>2, ReadStep

(* Cancel: what it reads is typed.                                            *)
LEMMA CancelReadTypes ==
  ASSUME IInv, NEW c \in Slot, NEW o \in Order,
         NEW actor, NEW acknowledgeRefund,
         CancelRead(c, o, actor, acknowledgeRefund)
  PROVE  IInv'
<1> DEFINE r == [op |-> "cancel", order |-> o, saw |-> orders[o],
                 pay |-> payment[o], partPaid |-> dues[o] = "COMPLETED"]
<1>1. orders[o] \in OrderStatus /\ (dues[o] = "COMPLETED") \in BOOLEAN
  BY DEF CancelRead, IInv, TypeOK, AnyStatus
<1>2. r \in CancelCall
  BY <1>1 DEF CancelCall, IInv, TypeOK
<1>3. r \in Call /\ r.op \notin FloorOp
  BY <1>2 DEF Call, FloorOp
<1>4. /\ call' = [call EXCEPT ![c] = r]
      /\ UNCHANGED <<stock, orderTables, moneyTables, crashes>>
  BY DEF CancelRead
<1> HIDE DEF r
<1> QED BY <1>3, <1>4, ReadStep

(* Advance and deliver: what they read is typed.                              *)
LEMMA VerbReadTypes ==
  ASSUME IInv, NEW c \in Slot, NEW o \in Order,
         NEW verb \in {"advance", "deliver"}, VerbRead(c, o, verb)
  PROVE  IInv'
<1> DEFINE r == [op |-> verb, order |-> o]
<1>1. r \in Call /\ r.op \notin FloorOp
  BY DEF Call, VerbCall, FloorOp
<1>2. /\ call' = [call EXCEPT ![c] = r]
      /\ UNCHANGED <<stock, orderTables, moneyTables, crashes>>
  BY DEF VerbRead
<1> HIDE DEF r
<1> QED BY <1>1, <1>2, ReadStep

(* The payment endpoints: what they read is typed.                            *)
LEMMA PayReadTypes ==
  ASSUME IInv, NEW c \in Slot, NEW o \in Order,
         NEW op \in {"payhere", "installments", "cod", "mark", "reject"},
         PayRead(c, o, op)
  PROVE  IInv'
<1> DEFINE r == [op |-> op, order |-> o, step |-> "write"]
<1>1. r \in Call /\ r.op \notin FloorOp
  BY DEF Call, PayCall, FloorOp
<1>2. /\ call' = [call EXCEPT ![c] = r]
      /\ UNCHANGED <<stock, orderTables, moneyTables, crashes>>
  BY DEF PayRead, moneyTables
<1> HIDE DEF r
<1> QED BY <1>1, <1>2, ReadStep

(* Assign: what it reads is typed.                                            *)
LEMMA AssignReadTypes ==
  ASSUME IInv, NEW c \in Slot, NEW o \in Order, NEW p \in Product,
         NEW w \in Worker, AssignRead(c, o, p, w)
  PROVE  IInv'
<1> DEFINE r == [op |-> "assign", order |-> o, product |-> p, worker |-> w]
<1>1. r \in Call
  BY DEF Call, AssignCall
<1>2. /\ call' = [call EXCEPT ![c] = r]
      /\ UNCHANGED <<stock, orderTables, moneyTables, crashes>>
      /\ tasks[r.order][r.product] # NoTask
  BY DEF AssignRead, Assignable
<1> HIDE DEF r
<1> QED BY <1>1, <1>2, ReadStep

(* Act: the task it means to write is a task.                                 *)
LEMMA ActReadTypes ==
  ASSUME IInv, NEW c \in Slot, NEW o \in Order, NEW p \in Product,
         NEW action \in TaskAction, NEW actor, ActRead(c, o, p, action, actor)
  PROVE  IInv'
<1> DEFINE next == Acted(tasks[o][p], action)
           r == [op |-> "act", order |-> o, product |-> p, next |-> next]
<1>1. tasks[o][p] \in TaskMade /\ Legal(action, tasks[o][p])
  BY DEF ActRead, MayAct, IInv, TypeOK, TaskRow
<1>2. next \in TaskMade
  BY <1>1, ActedType
<1>3. /\ call' = [call EXCEPT ![c] = r]
      /\ UNCHANGED <<stock, orderTables, moneyTables, crashes>>
      /\ tasks[r.order][r.product] # NoTask
  BY DEF ActRead
<1> HIDE DEF next
<1>4. r \in Call
  BY <1>2 DEF Call, ActCall
<1> HIDE DEF r
<1> QED BY <1>3, <1>4, ReadStep

(* The Stripe event: the installment it pays is typed.                        *)
LEMMA StripeSucceededTypes ==
  ASSUME IInv, NEW c \in Slot, NEW o \in Order, StripeSucceeded(c, o)
  PROVE  IInv'
<1> DEFINE r == [op |-> "stripe", order |-> o, step |-> "settle"]
<1>1. r \in Call /\ r.op \notin FloorOp
  BY DEF Call, PayCall, FloorOp
<1>2. call' = [call EXCEPT ![c] = r] /\ TasksStay
  BY DEF StripeSucceeded, orderTables, TasksStay
<1> HIDE DEF r
<1>3. call' \in [Slot -> Call] /\ FloorHasTask'
  BY <1>1, <1>2, CallStep
<1> QED BY <1>3 DEF StripeSucceeded, IInv, TypeOK, orderTables, PaymentStatus

(* The PayHere notification: the event it records is typed.                   *)
LEMMA NotifyRecordTypes ==
  ASSUME IInv, NEW c \in Slot, NEW o \in Order, NEW t \in Txn,
         NEW code \in StatusCode, NotifyRecord(c, o, t, code)
  PROVE  IInv'
<1> DEFINE r == [op |-> "notify", order |-> o, txn |-> t, code |-> code,
                 step |-> "write"]
<1>1. r \in Call /\ r.op \notin FloorOp
  BY DEF Call, NotifyCall, FloorOp
<1>2. call' = [call EXCEPT ![c] = r] /\ TasksStay
  BY DEF NotifyRecord, orderTables, TasksStay
<1> HIDE DEF r
<1>3. call' \in [Slot -> Call] /\ FloorHasTask'
  BY <1>1, <1>2, CallStep
<1>4. events' \in [Event -> {"ABSENT", "RECORDED", "PROCESSED"}]
  BY DEF NotifyRecord, IInv, TypeOK
<1> QED BY <1>3, <1>4 DEF NotifyRecord, IInv, TypeOK, orderTables

------------------------------------------------------------------------------
(* The later steps.                                                           *)
LEMMA CountedType ==
  ASSUME TypeOK, NEW o \in Order,
         NEW type \in {"RESERVE", "SALE", "RELEASE", "ADJUSTMENT"}
  PROVE  Counted(o, type)
           \in [Order -> [{"RESERVE", "SALE", "RELEASE", "ADJUSTMENT"} -> Nat]]
BY DEF Counted, TypeOK

(* A move of an order and its history row are typed.                          *)
LEMMA MoveType ==
  ASSUME TypeOK, NEW o \in Order, NEW from \in AnyStatus, NEW to \in AnyStatus
  PROVE  /\ [orders EXCEPT ![o] = to] \in [Order -> AnyStatus]
         /\ [trail EXCEPT ![o] = <<from, to>>]
              \in [Order -> AnyStatus \X AnyStatus]
<1>1. /\ orders \in [Order -> AnyStatus]
      /\ trail \in [Order -> AnyStatus \X AnyStatus]
  BY DEF TypeOK, AnyStatus
<1> DEFINE pair == <<from, to>>
<1>2. pair \in AnyStatus \X AnyStatus
  OBVIOUS
<1> HIDE DEF pair
<1>3. [trail EXCEPT ![o] = pair] \in [Order -> AnyStatus \X AnyStatus]
  BY <1>1, <1>2
<1> QED BY <1>1, <1>3 DEF pair

(* Create commits typed rows.                                                 *)
LEMMA CreateCommitTypes ==
  ASSUME IInv, NEW c \in Slot, CreateCommit(c)
  PROVE  IInv'
<1> DEFINE o == call[c].order
<1>1. o \in Order
  BY CallByOp DEF IInv, TypeOK, CreateCommit, CreateCall
<1>2. stock' \in [Product -> StockRow]
  BY CreateKeepsStock DEF IInv, StockKept
<1>3. call' \in [Slot -> Call] /\ FloorHasTask'
  BY IdleStep DEF CreateCommit, TasksStay
<1>4. Counted(o, "RESERVE")
        \in [Order -> [{"RESERVE", "SALE", "RELEASE", "ADJUSTMENT"} -> Nat]]
  BY <1>1, CountedType DEF IInv
<1>5. /\ \/ /\ orders' = [orders EXCEPT ![o] = "PENDING"]
            /\ trail' = [trail EXCEPT ![o] = <<"ABSENT", "PENDING">>]
            /\ rows' = Counted(o, "RESERVE")
         \/ UNCHANGED <<orders, trail, rows>>
      /\ UNCHANGED <<tasks, moneyTables, crashes>>
  BY Zenon DEF CreateCommit
<1> HIDE DEF o
<1>6. "PENDING" \in AnyStatus /\ "ABSENT" \in AnyStatus
  BY DEF AnyStatus, OrderStatus
<1>7. /\ orders' \in [Order -> AnyStatus]
      /\ trail' \in [Order -> AnyStatus \X AnyStatus]
  <2>1. /\ orders \in [Order -> AnyStatus]
        /\ trail \in [Order -> AnyStatus \X AnyStatus]
    BY DEF IInv, TypeOK, AnyStatus
  <2>2. /\ [orders EXCEPT ![o] = "PENDING"] \in [Order -> AnyStatus]
        /\ [trail EXCEPT ![o] = <<"ABSENT", "PENDING">>]
             \in [Order -> AnyStatus \X AnyStatus]
    BY <1>1, <1>6, MoveType DEF IInv
  <2> QED BY <1>5, <2>1, <2>2, Zenon
<1>8. rows' \in [Order -> [{"RESERVE", "SALE", "RELEASE", "ADJUSTMENT"} -> Nat]]
  BY <1>4, <1>5, Zenon DEF IInv, TypeOK
<1> QED BY <1>2, <1>3, <1>5, <1>7, <1>8
        DEF IInv, TypeOK, moneyTables, AnyStatus

(* Cancel commits typed rows, whatever it had read.                           *)
LEMMA CancelCommitTypes ==
  ASSUME IInv, NEW c \in Slot, CancelCommit(c)
  PROVE  IInv'
<1> DEFINE r == call[c]
           o == r.order
<1>1. r.op = "cancel" /\ r \in Call
  BY Zenon DEF CancelCommit, IInv, TypeOK
<1>2. stock' \in [Product -> StockRow]
  BY CancelKeepsStock DEF IInv, StockKept
<1>3. call' = [call EXCEPT ![c] = Idle] /\ UNCHANGED <<tasks, events, gateway,
                                                       crashes>>
  BY Zenon DEF CancelCommit
<1>4. call' \in [Slot -> Call] /\ FloorHasTask'
  BY <1>3, IdleStep DEF TasksStay
<1>5. \/ /\ orders' = [orders EXCEPT ![o] = "CANCELLED"]
         /\ trail' = [trail EXCEPT ![o] = <<r.saw, "CANCELLED">>]
         /\ rows' = IF Releases(r.saw) THEN Counted(o, "RELEASE")
                                       ELSE Counted(o, "ADJUSTMENT")
         /\ payment' = [payment EXCEPT
              ![o] = CancelledPayment(payment[o], r.pay, r.partPaid)]
         /\ dues' = [dues EXCEPT ![o] = CancelledDues(dues[o], r.pay)]
      \/ UNCHANGED <<orders, trail, rows, payment, dues>>
  BY Zenon DEF CancelCommit
<1> HIDE DEF r
<1>6. r \in CancelCall
  BY <1>1, CallByOp
<1>7. o \in Order /\ r.saw \in OrderStatus /\ r.pay \in PaymentRow
  BY <1>6 DEF CancelCall
<1>8. CancelledPayment(payment[o], r.pay, r.partPaid) \in PaymentRow
  <2> DEFINE now == payment[o]
  <2>1. now \in PaymentRow
    BY <1>7 DEF IInv, TypeOK
  <2> HIDE DEF now
  <2>2. \A status \in PaymentStatus :
          [now EXCEPT !.status = status] \in PaymentRow
    BY <2>1 DEF PaymentRow
  <2>3. "REFUNDED" \in PaymentStatus /\ "FAILED" \in PaymentStatus
    BY DEF PaymentStatus
  <2>4. \/ CancelledPayment(now, r.pay, r.partPaid) = now
        \/ CancelledPayment(now, r.pay, r.partPaid) =
             [now EXCEPT !.status = "REFUNDED"]
        \/ CancelledPayment(now, r.pay, r.partPaid) =
             [now EXCEPT !.status = "FAILED"]
    BY DEF CancelledPayment
  <2>5. CancelledPayment(now, r.pay, r.partPaid) \in PaymentRow
    BY <2>1, <2>2, <2>3, <2>4
  <2> QED BY <2>5 DEF now
<1>9. CancelledDues(dues[o], r.pay) \in {"NONE"} \cup PaymentStatus
  BY <1>7 DEF CancelledDues, IInv, TypeOK, PaymentStatus
<1>10. /\ Counted(o, "RELEASE")
            \in [Order -> [{"RESERVE", "SALE", "RELEASE", "ADJUSTMENT"} -> Nat]]
       /\ Counted(o, "ADJUSTMENT")
            \in [Order -> [{"RESERVE", "SALE", "RELEASE", "ADJUSTMENT"} -> Nat]]
  BY <1>7, CountedType DEF IInv
<1> HIDE DEF o
<1>11. /\ orders' \in [Order -> AnyStatus]
       /\ trail' \in [Order -> AnyStatus \X AnyStatus]
  <2>1. /\ orders \in [Order -> AnyStatus]
        /\ trail \in [Order -> AnyStatus \X AnyStatus]
    BY DEF IInv, TypeOK, AnyStatus
  <2>2. "CANCELLED" \in AnyStatus /\ r.saw \in AnyStatus
    BY <1>7 DEF AnyStatus, OrderStatus
  <2>3. /\ [orders EXCEPT ![o] = "CANCELLED"] \in [Order -> AnyStatus]
        /\ [trail EXCEPT ![o] = <<r.saw, "CANCELLED">>]
             \in [Order -> AnyStatus \X AnyStatus]
    BY <1>7, <2>2, MoveType DEF IInv
  <2> QED BY <1>5, <2>1, <2>3, Zenon
<1>12. /\ rows' \in [Order ->
            [{"RESERVE", "SALE", "RELEASE", "ADJUSTMENT"} -> Nat]]
       /\ payment' \in [Order -> PaymentRow]
       /\ dues' \in [Order -> {"NONE"} \cup PaymentStatus]
  <2> DEFINE row == CancelledPayment(payment[o], r.pay, r.partPaid)
             due == CancelledDues(dues[o], r.pay)
  <2>1. [payment EXCEPT ![o] = row] \in [Order -> PaymentRow]
    BY <1>8 DEF IInv, TypeOK
  <2>2. [dues EXCEPT ![o] = due] \in [Order -> {"NONE"} \cup PaymentStatus]
    BY <1>9 DEF IInv, TypeOK
  <2> QED BY <1>5, <1>10, <2>1, <2>2, Zenon DEF IInv, TypeOK
<1> QED BY <1>2, <1>3, <1>4, <1>11, <1>12 DEF IInv, TypeOK, AnyStatus

(* Advance and deliver commit a status of the enumeration.                    *)
LEMMA VerbCommitTypes ==
  ASSUME IInv, NEW c \in Slot, VerbCommit(c)
  PROVE  IInv'
<1> DEFINE o == call[c].order
           from == IF call[c].op = "advance" THEN "CONFIRMED" ELSE "COMPLETED"
           to   == IF call[c].op = "advance" THEN "COMPLETED" ELSE "DELIVERED"
<1>1. o \in Order
  BY CallByOp DEF IInv, TypeOK, VerbCommit, VerbCall
<1>2. from \in AnyStatus /\ to \in AnyStatus
  BY DEF AnyStatus, OrderStatus
<1>3. /\ orders' = [orders EXCEPT ![o] = to]
      /\ trail' = [trail EXCEPT ![o] = <<from, to>>]
      /\ call' = [call EXCEPT ![c] = Idle]
      /\ UNCHANGED <<stock, rows, tasks, moneyTables, crashes>>
  BY DEF VerbCommit
<1> HIDE DEF o, from, to
<1>4. /\ orders' \in [Order -> AnyStatus]
      /\ trail' \in [Order -> AnyStatus \X AnyStatus]
  BY <1>1, <1>2, <1>3, MoveType DEF IInv
<1>5. call' \in [Slot -> Call] /\ FloorHasTask'
  BY <1>3, IdleStep DEF TasksStay
<1> QED BY <1>3, <1>4, <1>5 DEF IInv, TypeOK, moneyTables

(* Assign writes a worker into a task that exists.                            *)
LEMMA AssignWriteTypes ==
  ASSUME IInv, NEW c \in Slot, AssignWrite(c)
  PROVE  IInv'
<1> DEFINE o == call[c].order
           p == call[c].product
           t == [tasks[o][p] EXCEPT !.worker = call[c].worker]
<1>1. call[c] \in AssignCall /\ tasks[o][p] # NoTask
  BY CallByOp DEF IInv, TypeOK, AssignWrite, FloorHasTask, FloorOp
<1>2. o \in Order /\ p \in Product /\ call[c].worker \in Worker
  BY <1>1 DEF AssignCall
<1>3. tasks[o][p] \in TaskMade
  BY <1>1, <1>2 DEF IInv, TypeOK, TaskRow
<1>4. t \in TaskMade
  BY <1>2, <1>3 DEF TaskMade
<1>5. /\ tasks' = [tasks EXCEPT ![o][p] = t]
      /\ call' = [call EXCEPT ![c] = Idle]
      /\ UNCHANGED <<stock, orders, trail, rows, moneyTables, crashes>>
  BY DEF AssignWrite
<1> HIDE DEF o, p, t
<1>6. tasks' \in [Order -> [Product -> TaskRow]] /\ TasksStay
  BY <1>2, <1>4, <1>5, TaskMadeIsRow DEF IInv, TypeOK, TasksStay
<1>7. call' \in [Slot -> Call] /\ FloorHasTask'
  BY <1>5, <1>6, IdleStep
<1> QED BY <1>5, <1>6, <1>7 DEF IInv, TypeOK, moneyTables

(* Act holds a task and the status it read.                                   *)
LEMMA ActUpdateTypes ==
  ASSUME IInv, NEW c \in Slot, ActUpdate(c)
  PROVE  IInv'
<1> DEFINE r == call[c]
           q == [op |-> "floor", order |-> r.order, product |-> r.product,
                 next |-> r.next, saw |-> orders[r.order],
                 target |-> "UNREAD"]
<1>1. /\ r \in ActCall
      /\ tasks[r.order][r.product] # NoTask
  BY CallByOp DEF IInv, TypeOK, ActUpdate, FloorHasTask, FloorOp
<1>2. r.order \in Order /\ r.product \in Product /\ r.next \in TaskMade
  BY <1>1 DEF ActCall
<1>3. /\ call' = [call EXCEPT ![c] = q]
      /\ UNCHANGED <<stock, orderTables, moneyTables, crashes>>
  BY Zenon DEF ActUpdate
<1>4. q \in Call
  BY <1>2 DEF Call, FloorCall, IInv, TypeOK
<1>5. tasks[q.order][q.product] # NoTask
  BY <1>1
<1> HIDE DEF r, q
<1> QED BY <1>3, <1>4, <1>5, ReadStep

(* Act holds a target the order may be given.                                 *)
LEMMA ActDeriveTypes ==
  ASSUME IInv, NEW c \in Slot, ActDerive(c)
  PROVE  IInv'
<1> DEFINE r == call[c]
           target == SyncTarget(r.saw, Updated(r.order, r.product, r.next))
           q == [r EXCEPT !.target = target]
<1>1. /\ r \in FloorCall
      /\ tasks[r.order][r.product] # NoTask
  BY CallByOp DEF IInv, TypeOK, ActDerive, FloorHasTask, FloorOp
<1>2. target \in OrderStatus \cup {"NONE"}
  BY DEF SyncTarget, Derive, OrderStatus
<1>3. /\ \/ call' = [call EXCEPT ![c] = q]
         \/ call' = [call EXCEPT ![c] = Idle]
      /\ UNCHANGED <<stock, orderTables, moneyTables, crashes>>
  BY Zenon DEF ActDerive
<1> HIDE DEF target, r
<1>4. q \in FloorCall
  BY <1>1, <1>2 DEF FloorCall
<1>5. q \in Call
  BY <1>4 DEF Call
<1>6. q.order = r.order /\ q.product = r.product
  BY <1>1 DEF FloorCall
<1>7. tasks[q.order][q.product] # NoTask
  BY <1>1, <1>6
<1>8. Idle \in Call /\ Idle.op \notin FloorOp
  BY DEF Call, Idle, FloorOp
<1> HIDE DEF q
<1> QED BY <1>3, <1>5, <1>7, <1>8, ReadStep

(* Act commits a task and a status of the enumeration.                        *)
LEMMA ActCommitTypes ==
  ASSUME IInv, NEW c \in Slot, ActCommit(c)
  PROVE  IInv'
<1> DEFINE r == call[c]
           o == r.order
           u == Updated(o, r.product, r.next)
<1>1. r \in FloorCall /\ tasks[o][r.product] # NoTask
  BY CallByOp DEF IInv, TypeOK, ActCommit, FloorHasTask, FloorOp
<1>2. /\ o \in Order /\ r.product \in Product /\ r.next \in TaskMade
      /\ r.saw \in AnyStatus /\ r.target \in OrderStatus \cup {"NONE"}
  BY <1>1 DEF FloorCall, ActCommit
<1>3. /\ u \in [Product -> TaskRow]
      /\ \A q \in Product : tasks[o][q] # NoTask => u[q] # NoTask
  BY <1>1, <1>2, UpdatedType DEF IInv
<1>4. /\ tasks' = [tasks EXCEPT ![o] = u]
      /\ \/ UNCHANGED <<orders, trail>>
         \/ /\ r.target # "NONE"
            /\ orders' = [orders EXCEPT ![o] = r.target]
            /\ trail' = [trail EXCEPT ![o] = <<r.saw, r.target>>]
      /\ call' = [call EXCEPT ![c] = Idle]
      /\ UNCHANGED <<stock, rows, moneyTables, crashes>>
  BY Zenon DEF ActCommit
<1> HIDE DEF u, o, r
<1>5. tasks' \in [Order -> [Product -> TaskRow]] /\ TasksStay
  BY <1>2, <1>3, <1>4 DEF IInv, TypeOK, TasksStay
<1>6. call' \in [Slot -> Call] /\ FloorHasTask'
  BY <1>4, <1>5, IdleStep
<1>7. /\ orders' \in [Order -> AnyStatus]
      /\ trail' \in [Order -> AnyStatus \X AnyStatus]
  <2>1. r.target # "NONE" => r.target \in AnyStatus
    BY <1>2 DEF AnyStatus
  <2>2. r.target # "NONE" =>
          /\ [orders EXCEPT ![o] = r.target] \in [Order -> AnyStatus]
          /\ [trail EXCEPT ![o] = <<r.saw, r.target>>]
               \in [Order -> AnyStatus \X AnyStatus]
    BY <1>2, <2>1, MoveType DEF IInv
  <2>3. /\ orders \in [Order -> AnyStatus]
        /\ trail \in [Order -> AnyStatus \X AnyStatus]
    BY DEF IInv, TypeOK
  <2> QED BY <1>4, <2>2, <2>3, Zenon
<1> QED BY <1>4, <1>5, <1>6, <1>7 DEF IInv, TypeOK, moneyTables

(* The payment rows written are typed.                                        *)
LEMMA PayWriteTypes ==
  ASSUME IInv, NEW c \in Slot, PayWrite(c)
  PROVE  IInv'
<1> DEFINE r == call[c]
           o == r.order
           row == Written(r.op, payment[o])
           q == IF Confirms(r.op) THEN [r EXCEPT !.step = "confirm"] ELSE Idle
<1>1. /\ r \in PayCall
      /\ r.op \in {"payhere", "installments", "cod", "mark", "reject"}
  BY CallByOp DEF IInv, TypeOK, PayWrite
<1>2. o \in Order
  BY <1>1 DEF PayCall
<1>3. q \in Call /\ q.op \notin FloorOp
  BY <1>1 DEF Call, PayCall, Idle, FloorOp
<1>4. row \in PaymentRow
  <2> DEFINE now == payment[o]
  <2>1. now \in PaymentRow
    BY <1>2 DEF IInv, TypeOK
  <2> HIDE DEF now
  <2>2. /\ [now EXCEPT !.status = "COMPLETED"] \in PaymentRow
        /\ [now EXCEPT !.status = "FAILED"] \in PaymentRow
    BY <2>1 DEF PaymentRow, PaymentStatus
  <2>3. \A method \in Method : Upserted(now, method) \in PaymentRow
    BY <2>1 DEF Upserted, PaymentRow, PaymentStatus
  <2>4. Written(r.op, now) \in PaymentRow
    BY <1>1, <2>2, <2>3 DEF Written, Method
  <2> QED BY <2>4 DEF now
<1>5. OpenTo(gateway[o]) \in [Txn -> {"NONE", "OPEN", "PAID", "DECLINED"}]
  BY <1>2 DEF OpenTo, IInv, TypeOK
<1>6. /\ payment' = [payment EXCEPT ![o] = row]
      /\ dues' = IF r.op = "installments" THEN [dues EXCEPT ![o] = "PENDING"]
                                          ELSE dues
      /\ gateway' = IF r.op = "payhere"
                    THEN [gateway EXCEPT ![o] = OpenTo(gateway[o])] ELSE gateway
      /\ call' = [call EXCEPT ![c] = q]
      /\ UNCHANGED <<stock, orderTables, events, crashes>>
  BY DEF PayWrite, IInv, TypeOK
<1> HIDE DEF r, o, row, q
<1>7. call' \in [Slot -> Call] /\ FloorHasTask'
  BY <1>3, <1>6, CallStep DEF TasksStay, orderTables
<1>8. /\ payment' \in [Order -> PaymentRow]
      /\ dues' \in [Order -> {"NONE"} \cup PaymentStatus]
      /\ gateway' \in
           [Order -> [Txn -> {"NONE", "OPEN", "PAID", "DECLINED"}]]
  BY <1>2, <1>4, <1>5, <1>6 DEF IInv, TypeOK, PaymentStatus
<1> QED BY <1>6, <1>7, <1>8 DEF IInv, TypeOK, orderTables

(* confirmOrder leaves typed rows and removes no task.                        *)
LEMMA ConfirmTypes ==
  ASSUME IInv, NEW o \in Order, ConfirmOrder(o)
  PROVE  /\ stock' \in [Product -> StockRow]
         /\ orders' \in [Order -> AnyStatus]
         /\ trail' \in [Order -> AnyStatus \X AnyStatus]
         /\ rows' \in [Order ->
              [{"RESERVE", "SALE", "RELEASE", "ADJUSTMENT"} -> Nat]]
         /\ tasks' \in [Order -> [Product -> TaskRow]]
         /\ TasksStay
<1>1. stock' \in [Product -> StockRow]
  BY ConfirmKeepsStock DEF IInv, StockKept
<1>2. /\ orders \in [Order -> AnyStatus]
      /\ trail \in [Order -> AnyStatus \X AnyStatus]
      /\ rows \in [Order ->
           [{"RESERVE", "SALE", "RELEASE", "ADJUSTMENT"} -> Nat]]
      /\ tasks \in [Order -> [Product -> TaskRow]]
  BY DEF IInv, TypeOK
<1>3. "PENDING" \in AnyStatus /\ "CONFIRMED" \in AnyStatus
  BY DEF AnyStatus, OrderStatus
<1>4. /\ [orders EXCEPT ![o] = "CONFIRMED"] \in [Order -> AnyStatus]
      /\ [trail EXCEPT ![o] = <<"PENDING", "CONFIRMED">>]
           \in [Order -> AnyStatus \X AnyStatus]
  BY <1>3, MoveType DEF IInv
<1>5. Counted(o, "SALE") \in
        [Order -> [{"RESERVE", "SALE", "RELEASE", "ADJUSTMENT"} -> Nat]]
  BY CountedType DEF IInv
<1>6. /\ TasksForOrder(o) \in [Product -> TaskRow]
      /\ \A p \in Product :
           tasks[o][p] # NoTask => TasksForOrder(o)[p] # NoTask
  <2>1. CASE TasksOf(o) # {}
    BY <1>2, <2>1 DEF TasksForOrder
  <2>2. CASE TasksOf(o) = {}
    <3>1. \A p \in Product : tasks[o][p] = NoTask
      BY <2>2 DEF TasksOf
    <3>2. FreshTasks(o) \in [Product -> TaskRow]
      BY Stages DEF FreshTasks, TaskRow, TaskMade, TaskStatus
    <3> QED BY <2>2, <3>1, <3>2 DEF TasksForOrder
  <2> QED BY <2>1, <2>2
<1>7. [tasks EXCEPT ![o] = TasksForOrder(o)] \in [Order -> [Product -> TaskRow]]
  BY <1>2, <1>6
<1>8. \/ /\ orders' = [orders EXCEPT ![o] = "CONFIRMED"]
         /\ trail' = [trail EXCEPT ![o] = <<"PENDING", "CONFIRMED">>]
         /\ rows' = Counted(o, "SALE")
         /\ tasks' = [tasks EXCEPT ![o] = TasksForOrder(o)]
      \/ UNCHANGED <<orders, trail, rows, tasks>>
  BY Zenon DEF ConfirmOrder
<1>9. TasksStay
  BY <1>2, <1>6, <1>8 DEF TasksStay
<1> QED BY <1>1, <1>2, <1>4, <1>5, <1>7, <1>8, <1>9, Zenon

(* So does the request that calls it for COD, an admin or Stripe.             *)
LEMMA PayConfirmTypes ==
  ASSUME IInv, NEW c \in Slot, PayConfirm(c)
  PROVE  IInv'
<1>1. call[c].order \in Order
  BY CallByOp DEF IInv, TypeOK, PayConfirm, PayCall
<1>2. /\ ConfirmOrder(call[c].order)
      /\ call' = [call EXCEPT ![c] = Idle]
      /\ UNCHANGED <<moneyTables, crashes>>
  BY Zenon DEF PayConfirm
<1>3. /\ stock' \in [Product -> StockRow]
      /\ orders' \in [Order -> AnyStatus]
      /\ trail' \in [Order -> AnyStatus \X AnyStatus]
      /\ rows' \in [Order ->
           [{"RESERVE", "SALE", "RELEASE", "ADJUSTMENT"} -> Nat]]
      /\ tasks' \in [Order -> [Product -> TaskRow]]
      /\ TasksStay
  BY <1>1, <1>2, ConfirmTypes
<1>4. call' \in [Slot -> Call] /\ FloorHasTask'
  BY <1>2, <1>3, IdleStep
<1> QED BY <1>2, <1>3, <1>4 DEF IInv, TypeOK, moneyTables

(* A payment row with another status is a payment row.                        *)
LEMMA StatusWritten ==
  ASSUME NEW row \in PaymentRow, NEW status \in PaymentStatus
  PROVE  [row EXCEPT !.status = status] \in PaymentRow
BY DEF PaymentRow

(* Settling a Stripe payment writes a payment row.                            *)
LEMMA StripeSettleTypes ==
  ASSUME IInv, NEW c \in Slot, StripeSettle(c)
  PROVE  IInv'
<1> DEFINE r == [call[c] EXCEPT !.step = "confirm"]
           row == [payment[call[c].order] EXCEPT !.status = "PENDING"]
<1>1. call[c] \in PayCall
  BY CallByOp DEF IInv, TypeOK, StripeSettle
<1>2. r \in Call /\ r.op \notin FloorOp
  BY <1>1 DEF Call, PayCall, FloorOp
<1>3. call[c].order \in Order /\ row \in PaymentRow
  <2>1. call[c].order \in Order
    BY <1>1 DEF PayCall
  <2>2. payment[call[c].order] \in PaymentRow /\ "PENDING" \in PaymentStatus
    BY <2>1 DEF IInv, TypeOK, PaymentStatus
  <2> QED BY <2>1, <2>2, StatusWritten
<1>4. /\ call' = [call EXCEPT ![c] = r]
      /\ payment' = [payment EXCEPT ![call[c].order] = row]
      /\ UNCHANGED <<stock, orderTables, dues, events, gateway, crashes>>
  BY DEF StripeSettle
<1> HIDE DEF r, row
<1>5. call' \in [Slot -> Call] /\ FloorHasTask'
  BY <1>2, <1>4, CallStep DEF TasksStay, orderTables
<1>6. payment' \in [Order -> PaymentRow]
  BY <1>3, <1>4 DEF IInv, TypeOK
<1> QED BY <1>4, <1>5, <1>6 DEF IInv, TypeOK, orderTables

(* A PayHere notification writes a payment row.                               *)
LEMMA NotifyWriteTypes ==
  ASSUME IInv, NEW c \in Slot, NotifyWrite(c)
  PROVE  IInv'
<1> DEFINE r == [call[c] EXCEPT
                   !.step = IF call[c].code = "2" THEN "confirm" ELSE "finish"]
           status == IF call[c].code = "2" THEN "COMPLETED" ELSE "FAILED"
           row == [payment[call[c].order] EXCEPT !.status = status]
<1>1. call[c] \in NotifyCall
  BY CallByOp DEF IInv, TypeOK, NotifyWrite
<1>2. r \in Call /\ r.op \notin FloorOp
  BY <1>1 DEF Call, NotifyCall, FloorOp
<1>3. call[c].order \in Order /\ row \in PaymentRow
  <2>1. call[c].order \in Order
    BY <1>1 DEF NotifyCall
  <2>2. payment[call[c].order] \in PaymentRow /\ status \in PaymentStatus
    BY <2>1 DEF IInv, TypeOK, PaymentStatus
  <2> HIDE DEF status
  <2> QED BY <2>1, <2>2, StatusWritten
<1>4. /\ call' = [call EXCEPT ![c] = r]
      /\ payment' = [payment EXCEPT ![call[c].order] = row]
      /\ UNCHANGED <<stock, orderTables, dues, events, gateway, crashes>>
  BY DEF NotifyWrite
<1> HIDE DEF r, row
<1>5. call' \in [Slot -> Call] /\ FloorHasTask'
  BY <1>2, <1>4, CallStep DEF TasksStay, orderTables
<1>6. payment' \in [Order -> PaymentRow]
  BY <1>3, <1>4 DEF IInv, TypeOK
<1> QED BY <1>4, <1>5, <1>6 DEF IInv, TypeOK, orderTables

(* And confirms the order like the other paths.                               *)
LEMMA NotifyConfirmTypes ==
  ASSUME IInv, NEW c \in Slot, NotifyConfirm(c)
  PROVE  IInv'
<1> DEFINE q == IF ConfirmThrows(call[c].order) THEN Idle
                ELSE [call[c] EXCEPT !.step = "finish"]
<1>1. call[c] \in NotifyCall
  BY CallByOp, Zenon DEF IInv, TypeOK, NotifyConfirm
<1>2. call[c].order \in Order
  BY <1>1 DEF NotifyCall
<1>3. q \in Call /\ q.op \notin FloorOp
  BY <1>1 DEF Call, NotifyCall, Idle, FloorOp
<1>4. /\ ConfirmOrder(call[c].order)
      /\ call' = [call EXCEPT ![c] = q]
      /\ UNCHANGED <<moneyTables, crashes>>
  BY Zenon DEF NotifyConfirm
<1> HIDE DEF q
<1>5. /\ stock' \in [Product -> StockRow]
      /\ orders' \in [Order -> AnyStatus]
      /\ trail' \in [Order -> AnyStatus \X AnyStatus]
      /\ rows' \in [Order ->
           [{"RESERVE", "SALE", "RELEASE", "ADJUSTMENT"} -> Nat]]
      /\ tasks' \in [Order -> [Product -> TaskRow]]
      /\ TasksStay
  BY <1>2, <1>4, ConfirmTypes
<1>6. call' \in [Slot -> Call] /\ FloorHasTask'
  BY <1>3, <1>4, <1>5, CallStep
<1> QED BY <1>4, <1>5, <1>6 DEF IInv, TypeOK, moneyTables

(* Marking the event processed.                                               *)
LEMMA NotifyFinishTypes ==
  ASSUME IInv, NEW c \in Slot, NotifyFinish(c)
  PROVE  IInv'
<1> DEFINE e == <<call[c].order, call[c].txn, call[c].code>>
<1>1. /\ events' = [events EXCEPT ![e] = "PROCESSED"]
      /\ call' = [call EXCEPT ![c] = Idle]
      /\ UNCHANGED <<stock, orderTables, payment, dues, gateway, crashes>>
  BY DEF NotifyFinish
<1> HIDE DEF e
<1>2. call' \in [Slot -> Call] /\ FloorHasTask'
  BY <1>1, IdleStep DEF TasksStay, orderTables
<1>3. events' \in [Event -> {"ABSENT", "RECORDED", "PROCESSED"}]
  BY <1>1 DEF IInv, TypeOK
<1> QED BY <1>1, <1>2, <1>3 DEF IInv, TypeOK, orderTables

(* One case per later step.                                                   *)
LEMMA ContinueTypes ==
  ASSUME IInv, NEW c \in Slot, Continue(c)
  PROVE  IInv'
<1>1. CASE CreateCommit(c)
  BY <1>1, CreateCommitTypes
<1>2. CASE CancelCommit(c)
  BY <1>2, CancelCommitTypes
<1>3. CASE VerbCommit(c)
  BY <1>3, VerbCommitTypes
<1>4. CASE AssignWrite(c)
  BY <1>4, AssignWriteTypes
<1>5. CASE ActUpdate(c)
  BY <1>5, ActUpdateTypes
<1>6. CASE ActCommit(c)
  BY <1>6, ActCommitTypes
<1>13. CASE ActDerive(c)
  BY <1>13, ActDeriveTypes
<1>7. CASE PayWrite(c)
  BY <1>7, PayWriteTypes
<1>8. CASE PayConfirm(c)
  BY <1>8, PayConfirmTypes
<1>9. CASE StripeSettle(c)
  BY <1>9, StripeSettleTypes
<1>10. CASE NotifyWrite(c)
  BY <1>10, NotifyWriteTypes
<1>11. CASE NotifyConfirm(c)
  BY <1>11, NotifyConfirmTypes
<1>12. CASE NotifyFinish(c)
  BY <1>12, NotifyFinishTypes
<1> QED BY <1>1, <1>2, <1>3, <1>4, <1>5, <1>6, <1>7, <1>8, <1>9, <1>10, <1>11,
           <1>12, <1>13, Zenon DEF Continue

(* One case per first step.                                                   *)
LEMMA AcceptTypes ==
  ASSUME IInv, NEW c \in Slot, Accept(c)
  PROVE  IInv'
<1>1. ASSUME NEW o \in Order
      PROVE  /\ CreateRead(c, o) => IInv'
             /\ \A actor, ack : CancelRead(c, o, actor, ack) => IInv'
             /\ \A verb \in {"advance", "deliver"} :
                  VerbRead(c, o, verb) => IInv'
             /\ \A op \in {"payhere", "installments", "cod", "mark", "reject"} :
                  PayRead(c, o, op) => IInv'
             /\ StripeSucceeded(c, o) => IInv'
             /\ \A t \in Txn, code \in StatusCode :
                  NotifyRecord(c, o, t, code) => IInv'
             /\ \A p \in Product, w \in Worker :
                  AssignRead(c, o, p, w) => IInv'
             /\ \A p \in Product, action \in TaskAction,
                   actor \in Worker \cup {"ADMIN"} :
                  ActRead(c, o, p, action, actor) => IInv'
  BY CreateReadTypes, CancelReadTypes, VerbReadTypes, PayReadTypes,
     StripeSucceededTypes, NotifyRecordTypes, AssignReadTypes, ActReadTypes
<1> QED BY <1>1, Zenon DEF Accept

(* The corrections of the stock.                                              *)
LEMMA StockKeepingTypes ==
  ASSUME IInv, StockKeeping
  PROVE  IInv'
<1>1. ASSUME stock' \in [Product -> StockRow],
             UNCHANGED <<orderTables, moneyTables, call, crashes>>
      PROVE  IInv'
  BY <1>1 DEF IInv, TypeOK, FloorHasTask, orderTables, moneyTables
<1>2. ASSUME NEW p \in Product,
             NEW type \in {"PURCHASE", "ADJUSTMENT", "DAMAGE"},
             NEW size \in Size \cup {NoSize},
             NEW change \in -MaxMoved .. MaxMoved,
             Adjust(p, type, size, change)
      PROVE  IInv'
  BY <1>1, <1>2, AdjustKeepsStock DEF IInv, Adjust, StockKept
<1>3. ASSUME NEW p \in Product, NEW minimum \in 0 .. MaxMoved,
             SetMinimum(p, minimum)
      PROVE  IInv'
  BY <1>1, <1>3, SetMinimumKeepsStock DEF IInv, SetMinimum, StockKept
<1>4. ASSUME NEW p \in Product, NEW sizes \in [Size -> 0 .. MaxMoved],
             NEW total \in 0 .. MaxMoved, EditSizes(p, sizes, total)
      PROVE  IInv'
  BY <1>1, <1>4, EditSizesKeepsStock DEF IInv, EditSizes
<1> QED BY <1>2, <1>3, <1>4, Zenon DEF StockKeeping

(* PayHere's own steps.                                                       *)
LEMMA PayHereTypes ==
  ASSUME IInv, PayHere
  PROVE  IInv'
BY DEF PayHere, Attempt, IInv, TypeOK, FloorHasTask, orderTables

(* A restart leaves every slot idle.                                          *)
LEMMA RestartTypes ==
  ASSUME IInv, Restart
  PROVE  IInv'
<1>1. Idle \in Call /\ Idle.op \notin FloorOp
  BY DEF Call, Idle, FloorOp
<1>2. call' = [c \in Slot |-> Idle] /\ crashes' = crashes + 1
  BY DEF Restart
<1>3. call' \in [Slot -> Call] /\ FloorHasTask'
  BY <1>1, <1>2 DEF FloorHasTask
<1> QED BY <1>2, <1>3 DEF Restart, IInv, TypeOK, orderTables, moneyTables

(* The invariant holds of an empty shop.                                      *)
LEMMA InitTypes == Init => IInv
<1> SUFFICES ASSUME Init PROVE IInv
  OBVIOUS
<1>1. stock \in [Product -> StockRow]
  BY StockAssumption DEF Init, Opened, StockRow, MovementType
<1>2. call \in [Slot -> Call] /\ FloorHasTask
  BY DEF Init, FloorHasTask, FloorOp, Idle, Call
<1>3. /\ orders \in [Order -> AnyStatus]
      /\ trail \in [Order -> AnyStatus \X AnyStatus]
  BY DEF Init, AnyStatus
<1>4. /\ rows \in [Order ->
           [{"RESERVE", "SALE", "RELEASE", "ADJUSTMENT"} -> Nat]]
      /\ tasks \in [Order -> [Product -> TaskRow]]
  BY DEF Init, TaskRow
<1>5. /\ payment \in [Order -> PaymentRow]
      /\ dues \in [Order -> {"NONE"} \cup PaymentStatus]
      /\ events \in [Event -> {"ABSENT", "RECORDED", "PROCESSED"}]
      /\ gateway \in [Order -> [Txn -> {"NONE", "OPEN", "PAID", "DECLINED"}]]
      /\ crashes \in Nat
  BY DEF Init, NoPayment, PaymentRow, Method
<1> QED BY <1>1, <1>2, <1>3, <1>4, <1>5 DEF IInv, TypeOK

(* And every step keeps it.                                                   *)
LEMMA NextTypes == IInv /\ [Next]_vars => IInv'
<1> SUFFICES ASSUME IInv, [Next]_vars PROVE IInv'
  OBVIOUS
<1>1. ASSUME NEW c \in Slot, Accept(c) PROVE IInv'
  BY <1>1, AcceptTypes
<1>2. ASSUME NEW c \in Slot, Continue(c) PROVE IInv'
  BY <1>2, ContinueTypes
<1>3. CASE StockKeeping
  BY <1>3, StockKeepingTypes
<1>4. CASE PayHere
  BY <1>4, PayHereTypes
<1>5. CASE Restart
  BY <1>5, RestartTypes
<1>6. CASE UNCHANGED vars
  BY <1>6 DEF vars, orderTables, moneyTables, IInv, TypeOK, FloorHasTask
<1> QED BY <1>1, <1>2, <1>3, <1>4, <1>5, <1>6, Zenon DEF Next

(* Every variable keeps its type under every interleaving: in particular, no  *)
(* request in flight ever writes a task, a payment row or a status that the   *)
(* columns of schema.prisma could not hold.                                   *)
THEOREM TypeCorrect == Spec => []TypeOK
<1>1. IInv => TypeOK
  BY DEF IInv
<1> QED BY InitTypes, NextTypes, <1>1, PTL DEF Spec

------------------------------------------------------------------------------
LEMMA UnchangedKeepsStock ==
  ASSUME TypeOK, UNCHANGED stock
  PROVE  StockKept
BY DEF TypeOK, StockKept, Kept

(* Of the later steps, three touch the stock.                                 *)
LEMMA ContinueKeepsStock ==
  ASSUME IInv, NEW c \in Slot, Continue(c)
  PROVE  StockKept
<1> USE DEF IInv
<1>1. CASE CreateCommit(c)
  BY <1>1, CreateKeepsStock
<1>2. CASE CancelCommit(c)
  BY <1>2, CancelKeepsStock
<1>3. CASE PayConfirm(c)
  <2>1. call[c].order \in Order
    BY <1>3, CallByOp DEF TypeOK, PayConfirm, PayCall
  <2>2. ConfirmOrder(call[c].order)
    BY <1>3, Zenon DEF PayConfirm
  <2> QED BY <2>1, <2>2, ConfirmKeepsStock
<1>4. CASE NotifyConfirm(c)
  <2>1. call[c].op = "notify" /\ ConfirmOrder(call[c].order)
    BY <1>4, Zenon DEF NotifyConfirm
  <2>2. call[c].order \in Order
    BY <2>1, CallByOp DEF TypeOK, NotifyCall
  <2> QED BY <2>1, <2>2, ConfirmKeepsStock
<1>5. CASE \/ VerbCommit(c) \/ AssignWrite(c)
           \/ ActUpdate(c) \/ ActDerive(c) \/ ActCommit(c)
           \/ PayWrite(c) \/ StripeSettle(c) \/ NotifyWrite(c)
           \/ NotifyFinish(c)
  <2>1. UNCHANGED stock
    BY <1>5, Zenon DEF VerbCommit, AssignWrite, ActUpdate, ActDerive, ActCommit,
                       PayWrite,
                       StripeSettle, NotifyWrite, NotifyFinish
  <2> QED BY <2>1, UnchangedKeepsStock
<1> QED BY <1>1, <1>2, <1>3, <1>4, <1>5, Zenon DEF Continue

(* Every step keeps each row, or is an edit of the sizes.                     *)
LEMMA StockStep ==
  ASSUME IInv, [Next]_vars
  PROVE  \/ StockKept
         \/ "edit_sizes" \in Ops /\ (StockFloor => StockFloor')
<1> USE DEF IInv
<1>1. ASSUME NEW c \in Slot, Accept(c) PROVE StockKept
  <2>1. UNCHANGED stock
    BY <1>1, Zenon DEF Accept, CreateRead, CancelRead, VerbRead, PayRead,
                StripeSucceeded, NotifyRecord, AssignRead, ActRead
  <2> QED BY <2>1, UnchangedKeepsStock
<1>2. ASSUME NEW c \in Slot, Continue(c) PROVE StockKept
  BY <1>2, ContinueKeepsStock
<1>3. CASE StockKeeping
  <2>1. ASSUME NEW p \in Product,
               NEW type \in {"PURCHASE", "ADJUSTMENT", "DAMAGE"},
               NEW size \in Size \cup {NoSize},
               NEW change \in -MaxMoved .. MaxMoved,
               Adjust(p, type, size, change)
        PROVE  StockKept
    BY <2>1, AdjustKeepsStock
  <2>2. ASSUME NEW p \in Product, NEW minimum \in 0 .. MaxMoved,
               SetMinimum(p, minimum)
        PROVE  StockKept
    BY <2>2, SetMinimumKeepsStock
  <2>3. ASSUME NEW p \in Product, NEW sizes \in [Size -> 0 .. MaxMoved],
               NEW total \in 0 .. MaxMoved, EditSizes(p, sizes, total)
        PROVE  "edit_sizes" \in Ops /\ (StockFloor => StockFloor')
    BY <2>3, EditSizesKeepsStock
  <2> QED BY <1>3, <2>1, <2>2, <2>3, Zenon DEF StockKeeping
<1>4. CASE PayHere \/ Restart \/ UNCHANGED vars
  <2>1. UNCHANGED stock
    BY <1>4, Zenon DEF PayHere, Attempt, Restart, vars
  <2> QED BY <2>1, UnchangedKeepsStock
<1> QED BY <1>1, <1>2, <1>3, <1>4, Zenon DEF Next

(* The opening stock is on the shelf, and in the ledger.                      *)
LEMMA StockInit == Init => StockFloor /\ LedgerReconciles
BY StockAssumption
   DEF Init, StockFloor, LedgerReconciles, Opened, Check, Reconciles,
       MovementType

(* BR4, for any number of checkouts, cancellations, webhooks and corrections  *)
(* in flight at once: no balance goes negative and nothing is promised that   *)
(* is not on the shelf.  The guard of each UPDATE is what carries it.         *)
THEOREM StockSafe == Spec => []StockFloor
<1>1. IInv /\ StockFloor /\ [Next]_vars => StockFloor'
  BY StockStep DEF StockFloor, StockKept, Kept
<1> QED BY InitTypes, NextTypes, StockInit, <1>1, PTL DEF Spec

(* What reconcile.ts audits, for any interleaving, as long as nobody edits a  *)
(* product's sizes: both balances are the sums of their movements, and the    *)
(* cache the shop reads is what can be sold.                                  *)
THEOREM LedgerSafe ==
  ASSUME "edit_sizes" \notin Ops
  PROVE  Spec => []LedgerReconciles
<1>1. IInv /\ LedgerReconciles /\ [Next]_vars => LedgerReconciles'
  BY StockStep DEF LedgerReconciles, StockKept, Kept
<1> QED BY InitTypes, NextTypes, StockInit, <1>1, PTL DEF Spec
=============================================================================
