----------------------------- MODULE StockProofs -----------------------------
(* The alert of low stock, the sizes, which checkout writes back from a copy, *)
(* and the promise of the stock as a whole, for every catalogue, every cart   *)
(* and any number of requests.                                                *)
EXTENDS PlatformProofs

------------------------------------------------------------------------------
(* What each operation on a row does to the alert and to the sizes.           *)

(* A step from s to t leaves the alert right: it checked it last, or it moved *)
(* nothing the alert looks at.                                                *)
Alarmed(s, t) ==
  \/ t.notified <=> IsLow(t)
  \/ /\ t.notified = s.notified
     /\ t.available = s.available
     /\ t.minimum = s.minimum
SizesFit(s) == \A z \in Size : s.sizes[z] >= 0

(* An update of the balances and its movement row touch neither the minimum,  *)
(* nor the flag, nor the sizes.                                               *)
LEMMA BookedLeaves ==
  ASSUME NEW s \in StockRow, NEW a \in Int, NEW r \in Int, NEW c \in Int,
         NEW type \in MovementType, NEW change \in Int
  PROVE  /\ Moved(Shift(s, a, r, c), type, change).minimum = s.minimum
         /\ Moved(Shift(s, a, r, c), type, change).notified = s.notified
         /\ Moved(Shift(s, a, r, c), type, change).sizes = s.sizes
<1> DEFINE t == Shift(s, a, r, c)
           A == s.available + a
           R == s.reserved + r
           C == s.cache + c
<1>1. t = [s EXCEPT !.available = A, !.reserved = R, !.cache = C]
  BY DEF Shift
<1>2. t \in StockRow
  BY ShiftEffect
<1> HIDE DEF A, R, C
<1>3. t.minimum = s.minimum /\ t.notified = s.notified /\ t.sizes = s.sizes
  BY <1>1 DEF StockRow
<1> HIDE DEF t
<1>4. /\ Moved(t, type, change).minimum = t.minimum
      /\ Moved(t, type, change).notified = t.notified
      /\ Moved(t, type, change).sizes = t.sizes
  BY <1>2 DEF Moved, StockRow
<1>5. /\ Moved(t, type, change).minimum = s.minimum
      /\ Moved(t, type, change).notified = s.notified
      /\ Moved(t, type, change).sizes = s.sizes
  BY <1>3, <1>4
<1> QED BY <1>5 DEF t

(* After the check the flag says whether the stock is low.                    *)
LEMMA CheckLowStockAlarms ==
  ASSUME NEW s \in StockRow
  PROVE  /\ CheckLowStock(s).notified <=> IsLow(CheckLowStock(s))
         /\ CheckLowStock(s).sizes = s.sizes
<1>1. IsLow(s) \in BOOLEAN
  BY DEF IsLow
<1> DEFINE b == IsLow(s)
<1>2. CheckLowStock(s) = [s EXCEPT !.notified = b]
  BY DEF CheckLowStock
<1>3. b <=> s.available <= s.minimum
  BY DEF IsLow
<1> HIDE DEF b
<1>4. /\ CheckLowStock(s).notified = b
      /\ CheckLowStock(s).available = s.available
      /\ CheckLowStock(s).minimum = s.minimum
      /\ CheckLowStock(s).sizes = s.sizes
  BY <1>2 DEF StockRow
<1>5. IsLow(CheckLowStock(s)) <=> s.available <= s.minimum
  BY <1>4 DEF IsLow
<1> QED BY <1>3, <1>4, <1>5

(* The order paths: a reservation and its release move what can be sold and   *)
(* not what is on the shelf; a sale and a return check the stock last.        *)
LEMMA ReserveAlarms ==
  ASSUME NEW s \in StockRow, NEW q \in Nat
  PROVE  Alarmed(s, Reserve(s, q)) /\ Reserve(s, q).sizes = s.sizes
<1> DEFINE t == Moved(Shift(s, 0, q, -q), "RESERVE", q)
<1>1. "RESERVE" \in MovementType /\ q \in Int /\ -q \in Int /\ 0 \in Int
  BY DEF MovementType
<1>2. /\ t \in StockRow
      /\ t.available = s.available + 0
      /\ t.reserved = s.reserved + q
      /\ t.cache = s.cache + (-q)
      /\ t.moved = [s.moved EXCEPT !["RESERVE"] = @ + q]
  BY <1>1, BookedEffect
<1>3. t.minimum = s.minimum /\ t.notified = s.notified /\ t.sizes = s.sizes
  BY <1>1, BookedLeaves
<1>4. Reserve(s, q) = t
  BY DEF Reserve
<1> HIDE DEF t
<1>5. t.available = s.available
  BY <1>2 DEF StockRow
<1> QED BY <1>3, <1>4, <1>5 DEF Alarmed

LEMMA ReleaseAlarms ==
  ASSUME NEW s \in StockRow, NEW q \in Nat
  PROVE  Alarmed(s, Release(s, q)) /\ Release(s, q).sizes = s.sizes
<1> DEFINE t == Moved(Shift(s, 0, -q, q), "RELEASE", -q)
<1>1. "RELEASE" \in MovementType /\ q \in Int /\ -q \in Int /\ 0 \in Int
  BY DEF MovementType
<1>2. /\ t \in StockRow
      /\ t.available = s.available + 0
      /\ t.reserved = s.reserved + (-q)
      /\ t.cache = s.cache + q
      /\ t.moved = [s.moved EXCEPT !["RELEASE"] = @ + (-q)]
  BY <1>1, BookedEffect
<1>3. t.minimum = s.minimum /\ t.notified = s.notified /\ t.sizes = s.sizes
  BY <1>1, BookedLeaves
<1>4. Release(s, q) = t
  BY DEF Release
<1> HIDE DEF t
<1>5. t.available = s.available
  BY <1>2 DEF StockRow
<1> QED BY <1>3, <1>4, <1>5 DEF Alarmed

LEMMA SaleAlarms ==
  ASSUME NEW s \in StockRow, NEW q \in Nat
  PROVE  Alarmed(s, Sale(s, q)) /\ Sale(s, q).sizes = s.sizes
<1> DEFINE t == Moved(Shift(s, -q, -q, 0), "SALE", -q)
<1>1. "SALE" \in MovementType /\ q \in Int /\ -q \in Int /\ 0 \in Int
  BY DEF MovementType
<1>2. t \in StockRow
  BY <1>1, BookedEffect
<1>3. t.sizes = s.sizes
  BY <1>1, BookedLeaves
<1>4. Sale(s, q) = CheckLowStock(t)
  BY DEF Sale
<1> HIDE DEF t
<1> QED BY <1>2, <1>3, <1>4, CheckLowStockAlarms DEF Alarmed

LEMMA RestockAlarms ==
  ASSUME NEW s \in StockRow, NEW q \in Nat
  PROVE  Alarmed(s, Restock(s, q)) /\ Restock(s, q).sizes = s.sizes
<1> DEFINE t == Moved(Shift(s, q, 0, q), "ADJUSTMENT", q)
<1>1. "ADJUSTMENT" \in MovementType /\ q \in Int /\ 0 \in Int
  BY DEF MovementType
<1>2. t \in StockRow
  BY <1>1, BookedEffect
<1>3. t.sizes = s.sizes
  BY <1>1, BookedLeaves
<1>4. Restock(s, q) = CheckLowStock(t)
  BY DEF Restock
<1> HIDE DEF t
<1> QED BY <1>2, <1>3, <1>4, CheckLowStockAlarms DEF Alarmed

(* Writing the sizes wakes no alert.                                          *)
LEMMA ResizedAlarms ==
  ASSUME NEW s, NEW t \in StockRow, NEW sizes \in [Size -> Int], Alarmed(s, t)
  PROVE  Alarmed(s, Resized(t, sizes)) /\ Resized(t, sizes).sizes = sizes
<1> DEFINE u == Resized(t, sizes)
<1>1. /\ u.notified = t.notified /\ u.available = t.available
      /\ u.minimum = t.minimum /\ u.sizes = sizes
  BY DEF Resized, StockRow
<1> HIDE DEF u
<1>2. Alarmed(s, u)
  BY <1>1 DEF Alarmed, IsLow
<1> QED BY <1>1, <1>2 DEF u

(* A correction by hand checks the stock last, and its guard looks at the     *)
(* size it moves.                                                             *)
LEMMA AdjustedAlarms ==
  ASSUME NEW s \in StockRow, NEW type \in {"PURCHASE", "ADJUSTMENT", "DAMAGE"},
         NEW size \in Size \cup {NoSize}, NEW change \in Int,
         CanAdjust(s, size, change)
  PROVE  /\ Alarmed(s, Adjusted(s, type, size, change))
         /\ SizesFit(s) => SizesFit(Adjusted(s, type, size, change))
<1> DEFINE t == Shift(s, change, 0, change)
           sizes == SizesAfter(s, size, change)
           u == Resized(t, sizes)
           v == Moved(u, type, change)
<1>1. type \in MovementType /\ 0 \in Int
  BY DEF MovementType
<1>2. t \in StockRow
  BY <1>1, ShiftEffect
<1>3. sizes \in [Size -> Int]
  BY DEF SizesAfter, StockRow
<1>4. SizesFit(s) => \A z \in Size : sizes[z] >= 0
  BY DEF SizesFit, SizesAfter, StockRow, CanAdjust
<1>5. Adjusted(s, type, size, change) = CheckLowStock(v)
  BY DEF Adjusted
<1> HIDE DEF t, sizes
<1>6. u \in StockRow /\ u.sizes = sizes
  BY <1>2, <1>3 DEF Resized, StockRow
<1> HIDE DEF u
<1>7. v \in StockRow /\ v.sizes = sizes
  BY <1>1, <1>6 DEF Moved, StockRow
<1> HIDE DEF v
<1>8. /\ CheckLowStock(v).notified <=> IsLow(CheckLowStock(v))
      /\ CheckLowStock(v).sizes = v.sizes
  BY <1>7, CheckLowStockAlarms
<1> QED BY <1>4, <1>5, <1>7, <1>8 DEF Alarmed, SizesFit

------------------------------------------------------------------------------
(* What each transaction does to the rows.  Checkout writes sizes from its    *)
(* copy, so the copies must fit as well.                                      *)
Watched(s, t) ==
  /\ "edit_sizes" \in Ops \/ Alarmed(s, t)
  /\ SizesFit(s) => SizesFit(t)
StockWatched == \A p \in Product : Watched(stock[p], stock'[p])

CopiesFit ==
  \A c \in Slot : call[c].op = "create" =>
    \A p \in Product, z \in Size : call[c].sizes[p][z] >= 0

LEMMA Same == ASSUME NEW s PROVE Watched(s, s)
BY DEF Watched, Alarmed

LEMMA UnchangedWatches == UNCHANGED stock => StockWatched
BY Same DEF StockWatched

(* Math.max(0, ...) of what is left of a copy that fits.                      *)
LEMMA WrittenFits ==
  ASSUME NEW o \in Order, NEW copy \in [Size -> Int], NEW q \in Nat,
         \A z \in Size : copy[z] >= 0
  PROVE  \A z \in Size : SizesWritten(o, copy, q)[z] >= 0
<1>1. CASE CartSize[o] = NoSize
  BY <1>1 DEF SizesWritten
<1>2. CASE CartSize[o] # NoSize
  <2> DEFINE n == Floor0(copy[CartSize[o]] - q)
  <2>1. n >= 0
    BY <1>2, CartAssumption DEF Floor0
  <2>2. SizesWritten(o, copy, q) = [copy EXCEPT ![CartSize[o]] = n]
    BY <1>2, Zenon DEF SizesWritten
  <2> HIDE DEF n
  <2> QED BY <2>1, <2>2
<1> QED BY <1>1, <1>2

LEMMA CreateWatches ==
  ASSUME TypeOK, CopiesFit, NEW c \in Slot, CreateCommit(c)
  PROVE  StockWatched
<1> DEFINE o == call[c].order
           copy(p) == SizesWritten(o, call[c].sizes[p], Cart[o][p])
<1>1. call[c].op = "create" /\ call[c] \in CreateCall
  BY CallByOp DEF TypeOK, CreateCommit
<1>2. o \in Order /\ \A p \in Product : call[c].sizes[p] \in [Size -> Int]
  BY <1>1 DEF CreateCall
<1>3. \A p \in Product : stock[p] \in StockRow /\ Cart[o][p] \in Nat
  BY <1>2, LinesAreProducts DEF TypeOK
<1>4. ASSUME NEW p \in Product
      PROVE  copy(p) \in [Size -> Int] /\ \A z \in Size : copy(p)[z] >= 0
  <2>1. \A z \in Size : call[c].sizes[p][z] >= 0
    BY <1>1 DEF CopiesFit
  <2> QED BY <1>2, <1>3, <2>1, SizesWrittenType, WrittenFits
<1> HIDE DEF o, copy
<1>5. CASE \A p \in Lines(o) : CanReserve(stock[p], Cart[o][p])
  <2>1. stock' = [p \in Product |->
          IF p \in Lines(o) /\ CartSize[o] # NoSize
          THEN Resized(OnLines(o, Reserve)[p], copy(p))
          ELSE OnLines(o, Reserve)[p]]
    BY <1>5 DEF CreateCommit, o, copy
  <2>2. ASSUME NEW p \in Product
        PROVE  Watched(stock[p], stock'[p])
    <3> DEFINE s == stock[p]
               t == Reserve(s, Cart[o][p])
    <3>1. Alarmed(s, t) /\ t.sizes = s.sizes /\ t \in StockRow
      BY <1>3, ReserveAlarms, ReserveKeeps
    <3>2. OnLines(o, Reserve)[p] = IF p \in Lines(o) THEN t ELSE s
      BY DEF OnLines
    <3> HIDE DEF t, s
    <3>3. Alarmed(s, Resized(t, copy(p))) /\ Resized(t, copy(p)).sizes = copy(p)
      BY <1>4, <3>1, ResizedAlarms
    <3>4. Watched(s, t) /\ Watched(s, Resized(t, copy(p))) /\ Watched(s, s)
      BY <1>4, <3>1, <3>3, Same DEF Watched, SizesFit
    <3>5. stock'[p] = s \/ stock'[p] = t \/ stock'[p] = Resized(t, copy(p))
      BY <2>1, <3>2
    <3>6. Watched(s, stock'[p])
      BY <3>4, <3>5
    <3> QED BY <3>6 DEF s
  <2> QED BY <2>2 DEF StockWatched
<1>6. CASE ~ \A p \in Lines(o) : CanReserve(stock[p], Cart[o][p])
  <2>1. UNCHANGED stock
    BY <1>6 DEF CreateCommit, o
  <2> QED BY <2>1, UnchangedWatches
<1> QED BY <1>5, <1>6

(* The units a cancellation returns to a size.                                *)
LEMMA WithSizeWatches ==
  ASSUME NEW o \in Order, NEW s, NEW t \in StockRow, NEW q \in Nat,
         Alarmed(s, t), t.sizes = s.sizes
  PROVE  Watched(s, WithSize(o, t, q))
<1>1. CASE CartSize[o] = NoSize
  BY <1>1 DEF WithSize, Watched, SizesFit
<1>2. CASE CartSize[o] # NoSize
  <2> DEFINE sizes == [t.sizes EXCEPT ![CartSize[o]] = @ + q]
  <2>1. CartSize[o] \in Size
    BY <1>2, CartAssumption
  <2>2. sizes \in [Size -> Int]
    BY <2>1 DEF StockRow
  <2>3. SizesFit(s) => \A z \in Size : sizes[z] >= 0
    BY <2>1 DEF SizesFit, StockRow
  <2>4. WithSize(o, t, q) = Resized(t, sizes)
    BY <1>2 DEF WithSize
  <2> HIDE DEF sizes
  <2>5. Alarmed(s, Resized(t, sizes)) /\ Resized(t, sizes).sizes = sizes
    BY <2>2, ResizedAlarms
  <2> QED BY <2>3, <2>4, <2>5 DEF Watched, SizesFit
<1> QED BY <1>1, <1>2

LEMMA CancelWatches ==
  ASSUME TypeOK, NEW c \in Slot, CancelCommit(c)
  PROVE  StockWatched
<1> DEFINE r == call[c]
           o == r.order
           Back(s, q) == WithSize(o, IF Releases(r.saw) THEN Release(s, q)
                                                        ELSE Restock(s, q), q)
<1>0. r.op = "cancel"
  BY Zenon DEF CancelCommit
<1>1. o \in Order
  <2>1. r \in Call
    BY DEF TypeOK
  <2> HIDE DEF r
  <2> QED BY <1>0, <2>1, CallByOp DEF CancelCall
<1>2. \A p \in Product : stock[p] \in StockRow /\ Cart[o][p] \in Nat
  BY <1>1, LinesAreProducts DEF TypeOK
<1>3. ASSUME NEW s \in StockRow, NEW q \in Nat
      PROVE  Watched(s, Back(s, q))
  <2> DEFINE t == IF Releases(r.saw) THEN Release(s, q) ELSE Restock(s, q)
  <2>1. t \in StockRow /\ Alarmed(s, t) /\ t.sizes = s.sizes
    BY ReleaseKeeps, RestockKeeps, ReleaseAlarms, RestockAlarms
  <2> HIDE DEF t
  <2>2. Watched(s, WithSize(o, t, q))
    BY <1>1, <2>1, WithSizeWatches
  <2> QED BY <2>2 DEF t
<1>4. \/ stock' = OnLines(o, Back)
      \/ UNCHANGED stock
  BY Zenon DEF CancelCommit
<1>5. CASE stock' = OnLines(o, Back)
  <2>1. stock' = [p \in Product |-> IF p \in Lines(o)
                    THEN Back(stock[p], Cart[o][p]) ELSE stock[p]]
    BY <1>5, Zenon DEF OnLines
  <2>2. ASSUME NEW p \in Product
        PROVE  Watched(stock[p], stock'[p])
    <3> DEFINE t == Back(stock[p], Cart[o][p])
    <3>1. Watched(stock[p], t)
      BY <1>2, <1>3
    <3>2. stock'[p] = IF p \in Lines(o) THEN t ELSE stock[p]
      BY <2>1
    <3> HIDE DEF t, o
    <3> QED BY <3>1, <3>2, Same
  <2> QED BY <2>2 DEF StockWatched
<1> QED BY <1>4, <1>5, UnchangedWatches

LEMMA ConfirmWatches ==
  ASSUME TypeOK, NEW o \in Order, ConfirmOrder(o)
  PROVE  StockWatched
<1>1. \A p \in Product : stock[p] \in StockRow /\ Cart[o][p] \in Nat
  BY LinesAreProducts DEF TypeOK
<1>2. CASE stock' = [p \in Product |-> IF p \in Lines(o)
                       THEN Sale(stock[p], Cart[o][p]) ELSE stock[p]]
  <2>1. ASSUME NEW p \in Product
        PROVE  Watched(stock[p], stock'[p])
    <3> DEFINE t == Sale(stock[p], Cart[o][p])
    <3>1. Alarmed(stock[p], t) /\ t.sizes = stock[p].sizes
      BY <1>1, SaleAlarms
    <3>2. stock'[p] = IF p \in Lines(o) THEN t ELSE stock[p]
      BY <1>2
    <3> HIDE DEF t
    <3> QED BY <3>1, <3>2, Same DEF Watched, SizesFit
  <2> QED BY <2>1 DEF StockWatched
<1>3. CASE UNCHANGED stock
  BY <1>3, UnchangedWatches
<1> QED BY <1>2, <1>3, Zenon DEF ConfirmOrder, OnLines

(* A step that writes one row.                                                *)
LEMMA RowWatches ==
  ASSUME TypeOK, NEW p \in Product, NEW t, Watched(stock[p], t),
         stock' = [stock EXCEPT ![p] = t]
  PROVE  StockWatched
<1>1. \A q \in Product : Watched(stock[q], stock[q])
  BY Same
<1>2. \A q \in Product : stock'[q] = IF q = p THEN t ELSE stock[q]
  BY DEF TypeOK
<1>3. \A q \in Product : Watched(stock[q], stock'[q])
  BY <1>1, <1>2
<1> QED BY <1>3 DEF StockWatched

LEMMA StockKeepingWatches ==
  ASSUME TypeOK, StockKeeping
  PROVE  StockWatched
<1>1. ASSUME NEW p \in Product,
             NEW type \in {"PURCHASE", "ADJUSTMENT", "DAMAGE"},
             NEW size \in Size \cup {NoSize},
             NEW change \in -MaxMoved .. MaxMoved,
             Adjust(p, type, size, change)
      PROVE  StockWatched
  <2> DEFINE t == Adjusted(stock[p], type, size, change)
  <2>1. change \in Int /\ stock[p] \in StockRow
    BY StockAssumption DEF TypeOK
  <2>2. /\ CanAdjust(stock[p], size, change)
        /\ stock' = [stock EXCEPT ![p] = t]
    BY <1>1 DEF Adjust
  <2>3. Watched(stock[p], t)
    BY <2>1, <2>2, AdjustedAlarms DEF Watched
  <2> HIDE DEF t
  <2> QED BY <2>2, <2>3, RowWatches
<1>2. ASSUME NEW p \in Product, NEW minimum \in 0 .. MaxMoved,
             SetMinimum(p, minimum)
      PROVE  StockWatched
  <2> DEFINE s == [stock[p] EXCEPT !.minimum = minimum, !.notified = FALSE]
  <2>1. minimum \in Nat /\ stock[p] \in StockRow
    BY StockAssumption DEF TypeOK
  <2>2. s \in StockRow /\ s.sizes = stock[p].sizes
    BY <2>1 DEF StockRow
  <2>3. stock' = [stock EXCEPT ![p] = CheckLowStock(s)]
    BY <1>2 DEF SetMinimum
  <2> HIDE DEF s
  <2>4. Watched(stock[p], CheckLowStock(s))
    BY <2>2, CheckLowStockAlarms DEF Watched, Alarmed, SizesFit
  <2> QED BY <2>3, <2>4, RowWatches
<1>3. ASSUME NEW p \in Product, NEW sizes \in [Size -> 0 .. MaxMoved],
             NEW total \in 0 .. MaxMoved, EditSizes(p, sizes, total)
      PROVE  StockWatched
  <2> DEFINE t == [stock[p] EXCEPT !.available = total, !.cache = total,
                                   !.sizes = sizes]
  <2>1. "edit_sizes" \in Ops /\ stock' = [stock EXCEPT ![p] = t]
    BY <1>3 DEF EditSizes
  <2>2. t.sizes = sizes
    BY DEF TypeOK, StockRow
  <2>3. \A z \in Size : sizes[z] >= 0
    BY StockAssumption
  <2> HIDE DEF t
  <2>4. Watched(stock[p], t)
    BY <2>1, <2>2, <2>3 DEF Watched, SizesFit
  <2> QED BY <2>1, <2>4, RowWatches
<1> QED BY <1>1, <1>2, <1>3, Zenon DEF StockKeeping

(* Every step, provided the copies fit.                                       *)
LEMMA StepWatches ==
  ASSUME IInv, CopiesFit, [Next]_vars
  PROVE  StockWatched
<1> USE DEF IInv
<1>1. ASSUME NEW c \in Slot, Accept(c) PROVE StockWatched
  <2>1. UNCHANGED stock
    BY <1>1, Zenon DEF Accept, CreateRead, CancelRead, VerbRead, PayRead,
                StripeSucceeded, NotifyRecord, AssignRead, ActRead
  <2> QED BY <2>1, UnchangedWatches
<1>2. ASSUME NEW c \in Slot, Continue(c) PROVE StockWatched
  <2>1. CASE CreateCommit(c)
    BY <2>1, CreateWatches
  <2>2. CASE CancelCommit(c)
    BY <2>2, CancelWatches
  <2>3. CASE PayConfirm(c)
    <3>1. call[c].order \in Order
      BY <2>3, CallByOp DEF TypeOK, PayConfirm, PayCall
    <3>2. ConfirmOrder(call[c].order)
      BY <2>3, Zenon DEF PayConfirm
    <3> QED BY <3>1, <3>2, ConfirmWatches
  <2>4. CASE NotifyConfirm(c)
    <3>1. call[c].op = "notify" /\ ConfirmOrder(call[c].order)
      BY <2>4, Zenon DEF NotifyConfirm
    <3>2. call[c].order \in Order
      BY <3>1, CallByOp DEF TypeOK, NotifyCall
    <3> QED BY <3>1, <3>2, ConfirmWatches
  <2>5. CASE \/ VerbCommit(c) \/ AssignWrite(c)
             \/ ActUpdate(c) \/ ActDerive(c) \/ ActCommit(c)
             \/ PayWrite(c) \/ StripeSettle(c) \/ NotifyWrite(c)
             \/ NotifyFinish(c)
    <3>1. UNCHANGED stock
      BY <2>5, Zenon DEF VerbCommit, AssignWrite, ActUpdate, ActDerive,
                         ActCommit, PayWrite, StripeSettle, NotifyWrite,
                         NotifyFinish
    <3> QED BY <3>1, UnchangedWatches
  <2> QED BY <1>2, <2>1, <2>2, <2>3, <2>4, <2>5, Zenon DEF Continue
<1>3. CASE StockKeeping
  BY <1>3, StockKeepingWatches
<1>4. CASE PayHere \/ Restart \/ UNCHANGED vars
  <2>1. UNCHANGED stock
    BY <1>4, Zenon DEF PayHere, Attempt, Restart, vars
  <2> QED BY <2>1, UnchangedWatches
<1> QED BY <1>1, <1>2, <1>3, <1>4, Zenon DEF Next

------------------------------------------------------------------------------
(* The copies: only a checkout takes one, of sizes that fit.                  *)
Copies(q) ==
  q.op = "create" => \A p \in Product, z \in Size : q.sizes[p][z] >= 0

LEMMA CallCopies ==
  ASSUME IInv, CopiesFit, NEW c \in Slot, NEW q,
         call' = [call EXCEPT ![c] = q], Copies(q)
  PROVE  CopiesFit'
<1>1. \A d \in Slot : call'[d] = IF d = c THEN q ELSE call[d]
  BY DEF IInv, TypeOK
<1>2. \A d \in Slot : Copies(call'[d])
  BY <1>1 DEF CopiesFit, Copies
<1> QED BY <1>2 DEF CopiesFit, Copies

LEMMA IdleFits ==
  ASSUME IInv, CopiesFit, NEW c \in Slot, call' = [call EXCEPT ![c] = Idle]
  PROVE  CopiesFit'
<1> DEFINE q == Idle
<1>1. Copies(q) /\ call' = [call EXCEPT ![c] = q]
  BY DEF Copies, Idle
<1> HIDE DEF q
<1> QED BY <1>1, CallCopies

LEMMA AcceptCopies ==
  ASSUME IInv, CopiesFit, SizesNeverNegative, NEW c \in Slot, Accept(c)
  PROVE  CopiesFit'
<1>1. ASSUME NEW o \in Order, CreateRead(c, o) PROVE CopiesFit'
  <2> DEFINE sizes == [p \in Product |-> stock[p].sizes]
             q == [op |-> "create", order |-> o, sizes |-> sizes]
  <2>1. call' = [call EXCEPT ![c] = q]
    BY <1>1 DEF CreateRead
  <2>2. \A p \in Product, z \in Size : sizes[p][z] >= 0
    BY DEF SizesNeverNegative
  <2> HIDE DEF sizes
  <2>3. q.sizes = sizes
    OBVIOUS
  <2>4. Copies(q)
    BY <2>2, <2>3 DEF Copies
  <2> HIDE DEF q
  <2> QED BY <2>1, <2>4, CallCopies
<1>2. ASSUME NEW o \in Order, NEW actor, NEW ack, CancelRead(c, o, actor, ack)
      PROVE  CopiesFit'
  <2> DEFINE q == [op |-> "cancel", order |-> o, saw |-> orders[o],
                  pay |-> payment[o], partPaid |-> dues[o] = "COMPLETED"]
  <2>1. call' = [call EXCEPT ![c] = q] /\ q.op # "create"
    BY <1>2 DEF CancelRead
  <2> HIDE DEF q
  <2> QED BY <2>1, CallCopies DEF Copies
<1>3. ASSUME NEW o \in Order, NEW verb \in {"advance", "deliver"},
             VerbRead(c, o, verb)
      PROVE  CopiesFit'
  <2> DEFINE q == [op |-> verb, order |-> o]
  <2>1. call' = [call EXCEPT ![c] = q] /\ q.op # "create"
    BY <1>3 DEF VerbRead
  <2> HIDE DEF q
  <2> QED BY <2>1, CallCopies DEF Copies
<1>4. ASSUME NEW o \in Order,
             NEW op \in {"payhere", "installments", "cod", "mark", "reject"},
             PayRead(c, o, op)
      PROVE  CopiesFit'
  <2> DEFINE q == [op |-> op, order |-> o, step |-> "write"]
  <2>1. call' = [call EXCEPT ![c] = q] /\ q.op # "create"
    BY <1>4 DEF PayRead
  <2> HIDE DEF q
  <2> QED BY <2>1, CallCopies DEF Copies
<1>5. ASSUME NEW o \in Order, StripeSucceeded(c, o) PROVE CopiesFit'
  <2> DEFINE q == [op |-> "stripe", order |-> o, step |-> "settle"]
  <2>1. call' = [call EXCEPT ![c] = q] /\ q.op # "create"
    BY <1>5 DEF StripeSucceeded
  <2> HIDE DEF q
  <2> QED BY <2>1, CallCopies DEF Copies
<1>6. ASSUME NEW o \in Order, NEW t \in Txn, NEW code \in StatusCode,
             NotifyRecord(c, o, t, code)
      PROVE  CopiesFit'
  <2> DEFINE q == [op |-> "notify", order |-> o, txn |-> t, code |-> code,
                  step |-> "write"]
  <2>1. call' = [call EXCEPT ![c] = q] /\ q.op # "create"
    BY <1>6 DEF NotifyRecord
  <2> HIDE DEF q
  <2> QED BY <2>1, CallCopies DEF Copies
<1>7. ASSUME NEW o \in Order, NEW p \in Product, NEW w \in Worker,
             AssignRead(c, o, p, w)
      PROVE  CopiesFit'
  <2> DEFINE q == [op |-> "assign", order |-> o, product |-> p, worker |-> w]
  <2>1. call' = [call EXCEPT ![c] = q] /\ q.op # "create"
    BY <1>7 DEF AssignRead
  <2> HIDE DEF q
  <2> QED BY <2>1, CallCopies DEF Copies
<1>8. ASSUME NEW o \in Order, NEW p \in Product, NEW action \in TaskAction,
             NEW actor, ActRead(c, o, p, action, actor)
      PROVE  CopiesFit'
  <2> DEFINE q == [op |-> "act", order |-> o, product |-> p,
                  next |-> Acted(tasks[o][p], action)]
  <2>1. call' = [call EXCEPT ![c] = q] /\ q.op # "create"
    BY <1>8 DEF ActRead
  <2> HIDE DEF q
  <2> QED BY <2>1, CallCopies DEF Copies
<1> QED BY <1>1, <1>2, <1>3, <1>4, <1>5, <1>6, <1>7, <1>8, Zenon DEF Accept

LEMMA ContinueCopies ==
  ASSUME IInv, CopiesFit, NEW c \in Slot, Continue(c)
  PROVE  CopiesFit'
<1>1. CASE \/ CreateCommit(c) \/ CancelCommit(c) \/ VerbCommit(c)
           \/ AssignWrite(c) \/ ActCommit(c) \/ PayConfirm(c)
           \/ NotifyFinish(c)
  <2>1. call' = [call EXCEPT ![c] = Idle]
    BY <1>1, Zenon DEF CreateCommit, CancelCommit, VerbCommit, AssignWrite,
                       ActCommit, PayConfirm, NotifyFinish
  <2> QED BY <2>1, IdleFits
<1>2. CASE ActUpdate(c)
  <2> DEFINE r == call[c]
             q == [op |-> "floor", order |-> r.order, product |-> r.product,
                   next |-> r.next, saw |-> orders[r.order],
                   target |-> "UNREAD"]
  <2>1. call' = [call EXCEPT ![c] = q] /\ q.op # "create"
    BY <1>2, Zenon DEF ActUpdate
  <2> HIDE DEF q
  <2> QED BY <2>1, CallCopies DEF Copies
<1>3. CASE ActDerive(c)
  <2> DEFINE r == call[c]
             target == SyncTarget(r.saw, Updated(r.order, r.product, r.next))
             q == [r EXCEPT !.target = target]
  <2>1. /\ r.op = "floor"
        /\ \/ call' = [call EXCEPT ![c] = q]
           \/ call' = [call EXCEPT ![c] = Idle]
    BY <1>3, Zenon DEF ActDerive
  <2>2. r \in FloorCall
    BY <2>1, CallByOp DEF IInv, TypeOK
  <2> HIDE DEF target
  <2>3. q.op # "create"
    BY <2>2 DEF FloorCall
  <2> HIDE DEF q
  <2> QED BY <2>1, <2>3, CallCopies, IdleFits DEF Copies
<1>4. CASE PayWrite(c) \/ StripeSettle(c)
  <2> DEFINE r == call[c]
             q == [r EXCEPT !.step = "confirm"]
  <2>1. /\ r.op \in {"payhere", "installments", "cod", "mark", "reject",
                     "stripe"}
        /\ \/ call' = [call EXCEPT ![c] = q]
           \/ call' = [call EXCEPT ![c] = Idle]
    BY <1>4 DEF PayWrite, StripeSettle
  <2>2. r \in PayCall
    BY <2>1, CallByOp DEF IInv, TypeOK
  <2>3. q.op # "create"
    BY <2>1, <2>2 DEF PayCall
  <2> HIDE DEF q
  <2> QED BY <2>1, <2>3, CallCopies, IdleFits DEF Copies
<1>5. CASE NotifyWrite(c) \/ NotifyConfirm(c)
  <2> DEFINE r == call[c]
  <2>1. /\ r.op = "notify"
        /\ \/ call' = [call EXCEPT ![c] = [r EXCEPT !.step = "confirm"]]
           \/ call' = [call EXCEPT ![c] = [r EXCEPT !.step = "finish"]]
           \/ call' = [call EXCEPT ![c] = Idle]
    BY <1>5, Zenon DEF NotifyWrite, NotifyConfirm
  <2>2. r \in NotifyCall
    BY <2>1, CallByOp DEF IInv, TypeOK
  <2>3. ASSUME NEW step \in {"confirm", "finish"},
               call' = [call EXCEPT ![c] = [r EXCEPT !.step = step]]
        PROVE  CopiesFit'
    <3> DEFINE q == [r EXCEPT !.step = step]
    <3>1. q.op # "create"
      BY <2>2 DEF NotifyCall
    <3>2. call' = [call EXCEPT ![c] = q]
      BY <2>3
    <3> HIDE DEF q
    <3> QED BY <3>1, <3>2, CallCopies DEF Copies
  <2> QED BY <2>1, <2>3, IdleFits
<1> QED BY <1>1, <1>2, <1>3, <1>4, <1>5, Zenon DEF Continue

LEMMA NextCopies ==
  ASSUME IInv, CopiesFit, SizesNeverNegative, [Next]_vars
  PROVE  CopiesFit'
<1>1. ASSUME NEW c \in Slot, Accept(c) PROVE CopiesFit'
  BY <1>1, AcceptCopies
<1>2. ASSUME NEW c \in Slot, Continue(c) PROVE CopiesFit'
  BY <1>2, ContinueCopies
<1>3. CASE StockKeeping \/ PayHere \/ UNCHANGED vars
  <2>1. call' = call
    BY <1>3, Zenon DEF StockKeeping, Adjust, SetMinimum, EditSizes, PayHere,
                       Attempt, vars
  <2> QED BY <2>1 DEF CopiesFit
<1>4. CASE Restart
  <2>1. \A c \in Slot : call'[c] = Idle
    BY <1>4 DEF Restart
  <2> QED BY <2>1 DEF CopiesFit, Idle
<1> QED BY <1>1, <1>2, <1>3, <1>4 DEF Next

LEMMA SizesStart == Init => CopiesFit /\ SizesNeverNegative
BY StockAssumption DEF Init, CopiesFit, SizesNeverNegative, Opened, Idle

------------------------------------------------------------------------------
(* No size is sold or written off below zero, although checkout writes all    *)
(* sizes back from a copy that may be stale: every copy fitted when it was    *)
(* taken, Math.max stands before the write (orders.service.ts:271), and       *)
(* adjust looks at the size it moves.                                         *)
THEOREM SizesSafe == Spec => []SizesNeverNegative
<1> DEFINE SizesInv == CopiesFit /\ SizesNeverNegative
<1>1. Init => SizesInv
  BY SizesStart
<1>2. IInv /\ SizesInv /\ [Next]_vars => SizesInv'
  BY NextCopies, StepWatches
     DEF SizesNeverNegative, StockWatched, Watched, SizesFit
<1>3. SizesInv => SizesNeverNegative
  OBVIOUS
<1> HIDE DEF SizesInv
<1> QED BY InitTypes, NextTypes, <1>1, <1>2, <1>3, PTL DEF Spec

(* FR-018 for every ledgered path and every interleaving: as long as nobody   *)
(* edits a product's sizes, the flag that files the low-stock alert is up     *)
(* exactly while the stock is low, but for a product that was opened empty    *)
(* and has not moved since.                                                   *)
THEOREM AlertSafe ==
  ASSUME "edit_sizes" \notin Ops
  PROVE  Spec => []AlertTracksFloor
<1> DEFINE AlertInv == CopiesFit /\ SizesNeverNegative /\ AlertTracksFloor
<1>1. Init => AlertInv
  <2>1. Init => AlertTracksFloor
    BY StockAssumption DEF Init, AlertTracksFloor, Opened, IsLow
  <2> QED BY <2>1, SizesStart
<1>2. IInv /\ AlertInv /\ [Next]_vars => AlertInv'
  <2> SUFFICES ASSUME IInv, AlertInv, [Next]_vars PROVE AlertInv'
    OBVIOUS
  <2>1. CopiesFit' /\ StockWatched
    BY NextCopies, StepWatches
  <2>2. SizesNeverNegative'
    BY <2>1 DEF SizesNeverNegative, StockWatched, Watched, SizesFit
  <2>3. AlertTracksFloor'
    BY <2>1 DEF AlertTracksFloor, StockWatched, Watched, Alarmed, IsLow
  <2> QED BY <2>1, <2>2, <2>3
<1>3. AlertInv => AlertTracksFloor
  OBVIOUS
<1> HIDE DEF AlertInv
<1> QED BY InitTypes, NextTypes, <1>1, <1>2, <1>3, PTL DEF Spec
------------------------------------------------------------------------------
(* Platform implements StockPromise: every step of the API, whatever it       *)
(* interleaves with, is a step of the promise or leaves it alone.             *)

(* How a step moves one product's units: by f free ones and r promised ones.  *)
Shifts(s, t, f, r) ==
  /\ t.available - t.reserved = (s.available - s.reserved) + f
  /\ t.reserved = s.reserved + r

(* What each order path does to a line.                                       *)
LEMMA LineMoves ==
  ASSUME NEW s \in StockRow, NEW q \in Nat
  PROVE  /\ Shifts(s, Reserve(s, q), -q, q)
         /\ Shifts(s, Sale(s, q), 0, -q)
         /\ Shifts(s, Release(s, q), q, -q)
         /\ Shifts(s, Restock(s, q), q, 0)
<1>1. q \in Int /\ -q \in Int /\ s.available \in Int /\ s.reserved \in Int
  BY DEF StockRow
<1> DEFINE none == 0
           less == -q
<1>0. none \in Int /\ less \in Int /\ q \in Int /\ none = 0 /\ less = -q
  OBVIOUS
<1> HIDE DEF none, less
<1>m. /\ "RESERVE" \in MovementType /\ "RELEASE" \in MovementType
      /\ "SALE" \in MovementType /\ "ADJUSTMENT" \in MovementType
  BY DEF MovementType
<1>2. Shifts(s, Reserve(s, q), -q, q)
  <2> DEFINE u == Shift(s, none, q, less)
             t == Moved(u, "RESERVE", q)
  <2>1. /\ u \in StockRow
        /\ u.available = s.available + none
        /\ u.reserved = s.reserved + q
        /\ u.cache = s.cache + less
        /\ u.moved = s.moved
    BY <1>0, ShiftEffect
  <2>2. Reserve(s, q) = t
    BY DEF Reserve, none, less
  <2> HIDE DEF u
  <2>3. /\ t \in StockRow
        /\ t.available = u.available
        /\ t.reserved = u.reserved
        /\ t.cache = u.cache
        /\ t.moved = [u.moved EXCEPT !["RESERVE"] = @ + q]
    BY <1>0, <1>m, <2>1, MovedEffect
  <2> HIDE DEF t
  <2> QED
    BY <1>0, <1>1, <2>1, <2>2, <2>3 DEF Shifts
<1>3. Shifts(s, Release(s, q), q, -q)
  <2> DEFINE u == Shift(s, none, less, q)
             t == Moved(u, "RELEASE", less)
  <2>1. /\ u \in StockRow
        /\ u.available = s.available + none
        /\ u.reserved = s.reserved + less
        /\ u.cache = s.cache + q
        /\ u.moved = s.moved
    BY <1>0, ShiftEffect
  <2>2. Release(s, q) = t
    BY DEF Release, none, less
  <2> HIDE DEF u
  <2>3. /\ t \in StockRow
        /\ t.available = u.available
        /\ t.reserved = u.reserved
        /\ t.cache = u.cache
        /\ t.moved = [u.moved EXCEPT !["RELEASE"] = @ + less]
    BY <1>0, <1>m, <2>1, MovedEffect
  <2> HIDE DEF t
  <2> QED
    BY <1>0, <1>1, <2>1, <2>2, <2>3 DEF Shifts
<1>4. Shifts(s, Sale(s, q), 0, -q)
  <2> DEFINE u == Shift(s, less, less, none)
             t == Moved(u, "SALE", less)
  <2>1. /\ u \in StockRow
        /\ u.available = s.available + less
        /\ u.reserved = s.reserved + less
        /\ u.cache = s.cache + none
        /\ u.moved = s.moved
    BY <1>0, ShiftEffect
  <2>2. Sale(s, q) = CheckLowStock(t)
    BY DEF Sale, none, less
  <2> HIDE DEF u
  <2>3. /\ t \in StockRow
        /\ t.available = u.available
        /\ t.reserved = u.reserved
        /\ t.cache = u.cache
        /\ t.moved = [u.moved EXCEPT !["SALE"] = @ + less]
    BY <1>0, <1>m, <2>1, MovedEffect
  <2> HIDE DEF t
  <2> QED
    BY <1>0, <1>1, <2>1, <2>2, <2>3, CheckLowStockEffect DEF Shifts
<1>5. Shifts(s, Restock(s, q), q, 0)
  <2> DEFINE u == Shift(s, q, none, q)
             t == Moved(u, "ADJUSTMENT", q)
  <2>1. /\ u \in StockRow
        /\ u.available = s.available + q
        /\ u.reserved = s.reserved + none
        /\ u.cache = s.cache + q
        /\ u.moved = s.moved
    BY <1>0, ShiftEffect
  <2>2. Restock(s, q) = CheckLowStock(t)
    BY DEF Restock, none, less
  <2> HIDE DEF u
  <2>3. /\ t \in StockRow
        /\ t.available = u.available
        /\ t.reserved = u.reserved
        /\ t.cache = u.cache
        /\ t.moved = [u.moved EXCEPT !["ADJUSTMENT"] = @ + q]
    BY <1>0, <1>m, <2>1, MovedEffect
  <2> HIDE DEF t
  <2> QED
    BY <1>0, <1>1, <2>1, <2>2, <2>3, CheckLowStockEffect DEF Shifts
<1> QED BY <1>2, <1>3, <1>4, <1>5

(* A write of the sizes moves no unit.                                        *)
LEMMA ResizedMoves ==
  ASSUME NEW s, NEW t \in StockRow, NEW sizes \in [Size -> Int],
         NEW f, NEW r, Shifts(s, t, f, r)
  PROVE  Shifts(s, Resized(t, sizes), f, r)
BY ResizedKeeps DEF Shifts

(* A step that shifts every product by the units an order has of it is a step *)
(* of the promise.  Off its lines an order has no units.                      *)
LEMMA Together ==
  ASSUME TypeOK, NEW o \in Order
  PROVE
    /\ (\A p \in Product :
           /\ Cart[o][p] <= stock[p].available - stock[p].reserved
           /\ Shifts(stock[p], stock'[p], -Cart[o][p], Cart[o][p]))
         => Promises!Promise(Cart[o])
    /\ (\A p \in Product :
           /\ Cart[o][p] <= stock[p].reserved
           /\ Shifts(stock[p], stock'[p], 0, -Cart[o][p]))
         => Promises!Sell(Cart[o])
    /\ (\A p \in Product :
           /\ Cart[o][p] <= stock[p].reserved
           /\ Shifts(stock[p], stock'[p], Cart[o][p], -Cart[o][p]))
         => Promises!GiveBack(Cart[o])
    /\ (\A p \in Product : Shifts(stock[p], stock'[p], Cart[o][p], 0))
         => Promises!TakeBack(Cart[o])
<1>1. \A p \in Product :
        /\ Cart[o][p] \in Nat
        /\ stock[p].available \in Int /\ stock[p].reserved \in Int
  BY LinesAreProducts DEF TypeOK, StockRow
<1> QED
  BY <1>1 DEF Shifts, Promises!Promise, Promises!Sell, Promises!GiveBack,
              Promises!TakeBack, Promises!Fits, Promises!Plus, Promises!Less

(* A product that is on no line of the order keeps its row.                   *)
LEMMA OffTheLines ==
  ASSUME TypeOK, NEW o \in Order, NEW p \in Product, p \notin Lines(o),
         StockFloor
  PROVE  /\ Cart[o][p] = 0
         /\ Shifts(stock[p], stock[p], 0, 0)
         /\ 0 <= stock[p].reserved
         /\ 0 <= stock[p].available - stock[p].reserved
<1>1. Cart[o][p] = 0
  BY CartAssumption DEF Lines
<1> QED BY <1>1 DEF Shifts, TypeOK, StockRow, StockFloor, Check

(* No balance moves: the promise stutters.                                    *)
LEMMA BalancesStay ==
  ASSUME \A p \in Product : /\ stock'[p].available = stock[p].available
                            /\ stock'[p].reserved = stock[p].reserved
  PROVE  UNCHANGED Promises!vars
BY DEF Promises!vars

(* Only what is free of one product moves: a recount.                         *)
LEMMA OneRecounted ==
  ASSUME TypeOK, StockFloor, NEW p \in Product, NEW t \in StockRow, Check(t),
         stock' = [stock EXCEPT ![p] = t], t.reserved = stock[p].reserved
  PROVE  Promises!Recount(p)
<1> DEFINE free == [q \in Product |-> stock[q].available - stock[q].reserved]
           held == [q \in Product |-> stock[q].reserved]
<1>1. stock'[p] = t /\ \A q \in Product \ {p} : stock'[q] = stock[q]
  BY DEF TypeOK
<1>2. free'[p] = t.available - t.reserved
  BY <1>1
<1>3. free'[p] \in Nat
  BY <1>2 DEF StockRow, Check
<1>4. held' = held
  BY <1>1
<1>5. free' = [free EXCEPT ![p] = free'[p]]
  <2>1. ASSUME NEW q \in Product
        PROVE  free'[q] = [free EXCEPT ![p] = free'[p]][q]
    BY <1>1
  <2> HIDE DEF free
  <2>2. free' = [q \in Product |-> free'[q]]
    BY DEF free
  <2> QED BY <2>1, <2>2 DEF free
<1> QED BY <1>3, <1>4, <1>5 DEF Promises!Recount

------------------------------------------------------------------------------
(* Checkout moves an order's units from free to promised, or does nothing.    *)
LEMMA CreateMoves ==
  ASSUME TypeOK, StockFloor, NEW c \in Slot, CreateCommit(c),
         NEW o \in Order, o = call[c].order
  PROVE  \/ /\ \A p \in Product :
                 /\ Cart[o][p] <= stock[p].available - stock[p].reserved
                 /\ Shifts(stock[p], stock'[p], -Cart[o][p], Cart[o][p])
            /\ orders' = [orders EXCEPT ![o] = "PENDING"]
            /\ trail' = [trail EXCEPT ![o] = <<"ABSENT", "PENDING">>]
            /\ rows' = Counted(o, "RESERVE")
         \/ UNCHANGED <<stock, orders, trail, rows>>
<1> DEFINE copy(p) == SizesWritten(o, call[c].sizes[p], Cart[o][p])
<1>1. call[c] \in CreateCall
  BY CallByOp DEF TypeOK, CreateCommit
<1>2. o \in Order /\ \A p \in Product : call[c].sizes[p] \in [Size -> Int]
  BY <1>1 DEF CreateCall
<1>3. \A p \in Product : stock[p] \in StockRow /\ Cart[o][p] \in Nat
  BY <1>2, LinesAreProducts DEF TypeOK
<1>4. ASSUME NEW p \in Product
      PROVE  copy(p) \in [Size -> Int]
  BY <1>2, <1>3, SizesWrittenType
<1> HIDE DEF copy
<1>5. CASE \A p \in Lines(o) : CanReserve(stock[p], Cart[o][p])
  <2>1. stock' = [p \in Product |->
          IF p \in Lines(o) /\ CartSize[o] # NoSize
          THEN Resized(OnLines(o, Reserve)[p], copy(p))
          ELSE OnLines(o, Reserve)[p]]
    BY <1>5 DEF CreateCommit, copy
  <2>2. ASSUME NEW p \in Product
        PROVE  /\ Cart[o][p] <= stock[p].available - stock[p].reserved
               /\ Shifts(stock[p], stock'[p], -Cart[o][p], Cart[o][p])
    <3> DEFINE t == Reserve(stock[p], Cart[o][p])
    <3>1. t \in StockRow /\ Shifts(stock[p], t, -Cart[o][p], Cart[o][p])
      BY <1>3, ReserveKeeps, LineMoves
    <3>2. OnLines(o, Reserve)[p] = IF p \in Lines(o) THEN t ELSE stock[p]
      BY DEF OnLines
    <3> HIDE DEF t
    <3>3. Shifts(stock[p], Resized(t, copy(p)), -Cart[o][p], Cart[o][p])
      BY <1>4, <3>1, ResizedMoves
    <3>4. CASE p \in Lines(o)
      <4>1. Cart[o][p] <= stock[p].available - stock[p].reserved
        BY <1>3, <1>5, <3>4 DEF CanReserve, StockRow
      <4> QED BY <2>1, <3>1, <3>2, <3>3, <3>4, <4>1
    <3>5. CASE p \notin Lines(o)
      BY <1>2, <2>1, <3>2, <3>5, OffTheLines
    <3> QED BY <3>4, <3>5
  <2>3. /\ orders' = [orders EXCEPT ![o] = "PENDING"]
        /\ trail' = [trail EXCEPT ![o] = <<"ABSENT", "PENDING">>]
        /\ rows' = Counted(o, "RESERVE")
    BY <1>5, Zenon DEF CreateCommit
  <2> QED BY <2>2, <2>3
<1>6. CASE ~ \A p \in Lines(o) : CanReserve(stock[p], Cart[o][p])
  BY <1>6, Zenon DEF CreateCommit
<1> QED BY <1>5, <1>6

LEMMA CreatePromises ==
  ASSUME TypeOK, StockFloor, NEW c \in Slot, CreateCommit(c),
         NEW o \in Order, o = call[c].order
  PROVE  [Promises!Next]_Promises!vars
<1>1. \/ \A p \in Product :
           /\ Cart[o][p] <= stock[p].available - stock[p].reserved
           /\ Shifts(stock[p], stock'[p], -Cart[o][p], Cart[o][p])
      \/ UNCHANGED stock
  BY CreateMoves
<1> QED BY <1>1, Together, BalancesStay DEF Promises!Next

(* Cancellation gives the units back, or takes them back once sold, or finds  *)
(* fewer of them reserved and does nothing.                                   *)
LEMMA CancelMoves ==
  ASSUME TypeOK, StockFloor, NEW c \in Slot, CancelCommit(c),
         NEW o \in Order, o = call[c].order
  PROVE  \/ /\ Releases(call[c].saw)
            /\ \A p \in Product :
                 /\ Cart[o][p] <= stock[p].reserved
                 /\ Shifts(stock[p], stock'[p], Cart[o][p], -Cart[o][p])
            /\ orders' = [orders EXCEPT ![o] = "CANCELLED"]
            /\ rows' = Counted(o, "RELEASE")
         \/ /\ ~Releases(call[c].saw)
            /\ \A p \in Product :
                 Shifts(stock[p], stock'[p], Cart[o][p], 0)
            /\ orders' = [orders EXCEPT ![o] = "CANCELLED"]
            /\ rows' = Counted(o, "ADJUSTMENT")
         \/ /\ \E p \in Lines(o) : stock[p].reserved < Cart[o][p]
            /\ UNCHANGED <<stock, orders, trail, rows, payment, dues>>
<1> DEFINE r == call[c]
           Back(s, q) == WithSize(o, IF Releases(r.saw) THEN Release(s, q)
                                                        ELSE Restock(s, q), q)
<1>1. o \in Order
  OBVIOUS
<1>2. \A p \in Product : stock[p] \in StockRow /\ Cart[o][p] \in Nat
  BY <1>1, LinesAreProducts DEF TypeOK
<1>3. ASSUME NEW s, NEW t \in StockRow, NEW f, NEW h, Shifts(s, t, f, h),
             NEW q \in Nat
      PROVE  Shifts(s, WithSize(o, t, q), f, h)
  <2>1. CASE CartSize[o] = NoSize
    BY <1>3, <2>1 DEF WithSize
  <2>2. CASE CartSize[o] # NoSize
    <3> DEFINE sizes == [t.sizes EXCEPT ![CartSize[o]] = @ + q]
    <3>1. CartSize[o] \in Size
      BY <1>1, <2>2, CartAssumption
    <3>2. sizes \in [Size -> Int]
      BY <3>1 DEF StockRow
    <3> HIDE DEF sizes
    <3>3. Shifts(s, Resized(t, sizes), f, h)
      BY <1>3, <3>2, ResizedMoves
    <3> QED BY <2>2, <3>3, Zenon DEF WithSize, sizes
  <2> QED BY <2>1, <2>2
<1>4. CASE Releases(r.saw) =>
             \A p \in Lines(o) : CanRelease(stock[p], Cart[o][p])
  <2>1. stock' = [p \in Product |-> IF p \in Lines(o)
                    THEN Back(stock[p], Cart[o][p]) ELSE stock[p]]
    BY <1>4, Zenon DEF CancelCommit, OnLines
  <2>2. CASE Releases(r.saw)
    <3>1. ASSUME NEW p \in Product
          PROVE  /\ Cart[o][p] <= stock[p].reserved
                 /\ Shifts(stock[p], stock'[p], Cart[o][p], -Cart[o][p])
      <4> DEFINE t == Release(stock[p], Cart[o][p])
      <4>1. t \in StockRow /\ Shifts(stock[p], t, Cart[o][p], -Cart[o][p])
        BY <1>2, ReleaseKeeps, LineMoves
      <4>2. stock'[p] = IF p \in Lines(o) THEN WithSize(o, t, Cart[o][p])
                                          ELSE stock[p]
        BY <2>1, <2>2
      <4> HIDE DEF t
      <4>3. CASE p \in Lines(o)
        BY <1>2, <1>3, <1>4, <2>2, <4>1, <4>2, <4>3 DEF CanRelease, StockRow
      <4>4. CASE p \notin Lines(o)
        BY <1>1, <4>2, <4>4, OffTheLines
      <4> QED BY <4>3, <4>4
    <3>2. /\ orders' = [orders EXCEPT ![o] = "CANCELLED"]
          /\ rows' = Counted(o, "RELEASE")
      BY <1>4, <2>2, Zenon DEF CancelCommit
    <3> QED BY <2>2, <3>1, <3>2
  <2>3. CASE ~Releases(r.saw)
    <3>1. ASSUME NEW p \in Product
          PROVE  Shifts(stock[p], stock'[p], Cart[o][p], 0)
      <4> DEFINE t == Restock(stock[p], Cart[o][p])
      <4>1. t \in StockRow /\ Shifts(stock[p], t, Cart[o][p], 0)
        BY <1>2, RestockKeeps, LineMoves
      <4>2. stock'[p] = IF p \in Lines(o) THEN WithSize(o, t, Cart[o][p])
                                          ELSE stock[p]
        BY <2>1, <2>3
      <4> HIDE DEF t
      <4>3. CASE p \in Lines(o)
        BY <1>2, <1>3, <4>1, <4>2, <4>3
      <4>4. CASE p \notin Lines(o)
        BY <1>1, <4>2, <4>4, OffTheLines
      <4> QED BY <4>3, <4>4
    <3>2. /\ orders' = [orders EXCEPT ![o] = "CANCELLED"]
          /\ rows' = Counted(o, "ADJUSTMENT")
      BY <1>4, <2>3, Zenon DEF CancelCommit
    <3> QED BY <2>3, <3>1, <3>2
  <2> QED BY <2>2, <2>3
<1>5. CASE ~ (Releases(r.saw) =>
                \A p \in Lines(o) : CanRelease(stock[p], Cart[o][p]))
  <2>1. UNCHANGED <<stock, orders, trail, rows, payment, dues>>
    BY <1>5, Zenon DEF CancelCommit
  <2>2. PICK p \in Lines(o) : ~CanRelease(stock[p], Cart[o][p])
    BY <1>5
  <2>3. stock[p].reserved < Cart[o][p]
    BY <1>2, <2>2 DEF CanRelease, Lines, StockRow
  <2> QED BY <2>1, <2>3
<1> QED BY <1>4, <1>5

LEMMA CancelGivesBack ==
  ASSUME TypeOK, StockFloor, NEW c \in Slot, CancelCommit(c),
         NEW o \in Order, o = call[c].order
  PROVE  [Promises!Next]_Promises!vars
<1>1. \/ \A p \in Product :
           /\ Cart[o][p] <= stock[p].reserved
           /\ Shifts(stock[p], stock'[p], Cart[o][p], -Cart[o][p])
      \/ \A p \in Product : Shifts(stock[p], stock'[p], Cart[o][p], 0)
      \/ UNCHANGED stock
  BY CancelMoves
<1> QED BY <1>1, Together, BalancesStay DEF Promises!Next

(* Confirmation sells what was promised, or leaves everything alone: the      *)
(* order is not PENDING, or fewer of its units are reserved.                  *)
LEMMA ConfirmMoves ==
  ASSUME TypeOK, StockFloor, NEW o \in Order, ConfirmOrder(o)
  PROVE  \/ /\ Confirmable(o)
            /\ \A p \in Product :
                 /\ Cart[o][p] <= stock[p].reserved
                 /\ Shifts(stock[p], stock'[p], 0, -Cart[o][p])
            /\ orders' = [orders EXCEPT ![o] = "CONFIRMED"]
            /\ trail' = [trail EXCEPT ![o] = <<"PENDING", "CONFIRMED">>]
            /\ rows' = Counted(o, "SALE")
            /\ tasks' = [tasks EXCEPT ![o] = TasksForOrder(o)]
         \/ /\ \/ ~Confirmable(o)
               \/ \E p \in Lines(o) : stock[p].reserved < Cart[o][p]
            /\ UNCHANGED <<stock, orders, trail, rows, tasks>>
<1>1. \A p \in Product : stock[p] \in StockRow /\ Cart[o][p] \in Nat
  BY LinesAreProducts DEF TypeOK
<1>2. CASE Confirmable(o) /\ ~SaleFails(o)
  <2>1. stock' = [p \in Product |-> IF p \in Lines(o)
                    THEN Sale(stock[p], Cart[o][p]) ELSE stock[p]]
    BY <1>2, Zenon DEF ConfirmOrder, OnLines
  <2>2. ASSUME NEW p \in Product
        PROVE  /\ Cart[o][p] <= stock[p].reserved
               /\ Shifts(stock[p], stock'[p], 0, -Cart[o][p])
    <3>1. CASE p \in Lines(o)
      <4>1. CanSell(stock[p], Cart[o][p])
        BY <1>2, <3>1 DEF SaleFails
      <4>2. Shifts(stock[p], Sale(stock[p], Cart[o][p]), 0, -Cart[o][p])
        BY <1>1, LineMoves
      <4>3. Cart[o][p] <= stock[p].reserved
        BY <1>1, <4>1 DEF CanSell, StockRow
      <4> QED BY <2>1, <3>1, <4>2, <4>3
    <3>2. CASE p \notin Lines(o)
      BY <2>1, <3>2, OffTheLines
    <3> QED BY <3>1, <3>2
  <2>3. /\ orders' = [orders EXCEPT ![o] = "CONFIRMED"]
        /\ trail' = [trail EXCEPT ![o] = <<"PENDING", "CONFIRMED">>]
        /\ rows' = Counted(o, "SALE")
        /\ tasks' = [tasks EXCEPT ![o] = TasksForOrder(o)]
    BY <1>2, Zenon DEF ConfirmOrder
  <2> QED BY <1>2, <2>2, <2>3
<1>3. CASE ~(Confirmable(o) /\ ~SaleFails(o))
  <2>1. UNCHANGED <<stock, orders, trail, rows, tasks>>
    BY <1>3, Zenon DEF ConfirmOrder
  <2>2. ASSUME SaleFails(o)
        PROVE  \E p \in Lines(o) : stock[p].reserved < Cart[o][p]
    <3>1. PICK p \in Lines(o) : ~CanSell(stock[p], Cart[o][p])
      BY <2>2 DEF SaleFails
    <3>2. stock[p].reserved < Cart[o][p]
      BY <1>1, <3>1 DEF CanSell, Lines, StockRow, StockFloor, Check
    <3> QED BY <3>2
  <2> QED BY <1>3, <2>1, <2>2
<1> QED BY <1>2, <1>3

LEMMA ConfirmSells ==
  ASSUME TypeOK, StockFloor, NEW o \in Order, ConfirmOrder(o)
  PROVE  [Promises!Next]_Promises!vars
<1>1. \/ \A p \in Product :
           /\ Cart[o][p] <= stock[p].reserved
           /\ Shifts(stock[p], stock'[p], 0, -Cart[o][p])
      \/ UNCHANGED stock
  BY ConfirmMoves
<1> QED BY <1>1, Together, BalancesStay DEF Promises!Next

(* Corrections by hand recount one product, and a new minimum nothing.        *)
LEMMA AdjustRecounts ==
  ASSUME TypeOK, StockFloor, NEW p \in Product,
         NEW type \in {"PURCHASE", "ADJUSTMENT", "DAMAGE"},
         NEW size \in Size \cup {NoSize},
         NEW change \in -MaxMoved .. MaxMoved,
         Adjust(p, type, size, change)
  PROVE  Promises!Recount(p)
<1> DEFINE s == stock[p]
           b == Shift(s, change, 0, change)
           u == Resized(b, SizesAfter(s, size, change))
           v == Moved(u, type, change)
           t == CheckLowStock(v)
<1>1. /\ change \in Int /\ 0 \in Int /\ s \in StockRow /\ Check(s)
      /\ type \in MovementType
  BY StockAssumption DEF TypeOK, StockFloor, MovementType
<1>2. t = Adjusted(s, type, size, change)
  BY DEF Adjusted
<1>3. t \in StockRow /\ Check(t)
  BY <1>1, <1>2, AdjustedKeeps DEF Adjust
<1>4. stock' = [stock EXCEPT ![p] = t]
  BY <1>2 DEF Adjust
<1>5. b \in StockRow /\ b.reserved = s.reserved + 0
  BY <1>1, ShiftEffect
<1>6. SizesAfter(s, size, change) \in [Size -> Int]
  BY <1>1 DEF SizesAfter, StockRow
<1> HIDE DEF b
<1>7. u \in StockRow /\ u.reserved = b.reserved
  BY <1>5, <1>6, ResizedKeeps
<1> HIDE DEF u
<1>8. v \in StockRow /\ v.reserved = u.reserved
  BY <1>1, <1>7, MovedEffect
<1> HIDE DEF v
<1>9. t.reserved = s.reserved
  BY <1>1, <1>5, <1>7, <1>8, CheckLowStockEffect DEF StockRow
<1> HIDE DEF s, t
<1>10. t.reserved = stock[p].reserved
  BY <1>9 DEF s
<1> QED BY <1>3, <1>4, <1>10, OneRecounted

(* setMinimum moves no unit.                                                  *)
LEMMA SetMinimumStays ==
  ASSUME TypeOK, NEW p \in Product, NEW minimum \in 0 .. MaxMoved,
         SetMinimum(p, minimum)
  PROVE  UNCHANGED Promises!vars
<1> DEFINE s == [stock[p] EXCEPT !.minimum = minimum, !.notified = FALSE]
<1>1. minimum \in Nat /\ stock[p] \in StockRow
  BY StockAssumption DEF TypeOK
<1>2. /\ s \in StockRow /\ s.available = stock[p].available
      /\ s.reserved = stock[p].reserved
  BY <1>1 DEF StockRow
<1>3. stock' = [stock EXCEPT ![p] = CheckLowStock(s)]
  BY DEF SetMinimum
<1> HIDE DEF s
<1>4. /\ CheckLowStock(s).available = stock[p].available
      /\ CheckLowStock(s).reserved = stock[p].reserved
  BY <1>2, CheckLowStockEffect
<1>5. \A q \in Product : /\ stock'[q].available = stock[q].available
                         /\ stock'[q].reserved = stock[q].reserved
  BY <1>3, <1>4 DEF TypeOK
<1> QED BY <1>5, BalancesStay

(* An edit of the sizes recounts the product.                                 *)
LEMMA EditSizesRecounts ==
  ASSUME TypeOK, StockFloor, NEW p \in Product,
         NEW sizes \in [Size -> 0 .. MaxMoved],
         NEW total \in 0 .. MaxMoved, EditSizes(p, sizes, total)
  PROVE  Promises!Recount(p)
<1> DEFINE s == [stock[p] EXCEPT !.available = total, !.cache = total,
                                 !.sizes = sizes]
<1>1. stock[p] \in StockRow /\ sizes \in [Size -> Int] /\ total \in Int
  BY StockAssumption DEF TypeOK
<1>2. s \in StockRow /\ s.reserved = stock[p].reserved
  BY <1>1 DEF StockRow
<1>3. Check(s) /\ stock' = [stock EXCEPT ![p] = s]
  BY DEF EditSizes
<1> HIDE DEF s
<1> QED BY <1>2, <1>3, OneRecounted

------------------------------------------------------------------------------
(* The later steps of a request: three of them touch the stock.               *)
LEMMA ContinuePromises ==
  ASSUME TypeOK, StockFloor, NEW c \in Slot, Continue(c)
  PROVE  [Promises!Next]_Promises!vars
<1>1. CASE CreateCommit(c)
  <2>1. call[c].order \in Order
    BY <1>1, CallByOp DEF TypeOK, CreateCommit, CreateCall
  <2> QED BY <1>1, <2>1, CreatePromises
<1>2. CASE CancelCommit(c)
  <2>1. call[c].op = "cancel"
    BY <1>2, Zenon DEF CancelCommit
  <2>2. call[c].order \in Order
    BY <2>1, CallByOp DEF TypeOK, CancelCall
  <2> QED BY <1>2, <2>2, CancelGivesBack
<1>3. CASE PayConfirm(c)
  <2>1. call[c].order \in Order
    BY <1>3, CallByOp DEF TypeOK, PayConfirm, PayCall
  <2>2. ConfirmOrder(call[c].order)
    BY <1>3, Zenon DEF PayConfirm
  <2> QED BY <2>1, <2>2, ConfirmSells
<1>4. CASE NotifyConfirm(c)
  <2>1. call[c].op = "notify" /\ ConfirmOrder(call[c].order)
    BY <1>4, Zenon DEF NotifyConfirm
  <2>2. call[c].order \in Order
    BY <2>1, CallByOp DEF TypeOK, NotifyCall
  <2> QED BY <2>1, <2>2, ConfirmSells
<1>5. CASE \/ VerbCommit(c) \/ AssignWrite(c)
           \/ ActUpdate(c) \/ ActDerive(c) \/ ActCommit(c)
           \/ PayWrite(c) \/ StripeSettle(c) \/ NotifyWrite(c)
           \/ NotifyFinish(c)
  <2>1. UNCHANGED stock
    BY <1>5, Zenon DEF VerbCommit, AssignWrite, ActUpdate, ActDerive, ActCommit,
                       PayWrite,
                       StripeSettle, NotifyWrite, NotifyFinish
  <2> QED BY <2>1, BalancesStay
<1> QED BY <1>1, <1>2, <1>3, <1>4, <1>5, Zenon DEF Continue

(* The requests, the corrections, PayHere and restarts together.              *)
LEMMA StepPromises ==
  ASSUME TypeOK, StockFloor, [Next]_vars
  PROVE  [Promises!Next]_Promises!vars
<1>1. ASSUME NEW c \in Slot, Accept(c) PROVE UNCHANGED Promises!vars
  <2>1. UNCHANGED stock
    BY <1>1, Zenon DEF Accept, CreateRead, CancelRead, VerbRead, PayRead,
                StripeSucceeded, NotifyRecord, AssignRead, ActRead
  <2> QED BY <2>1, BalancesStay
<1>2. ASSUME NEW c \in Slot, Continue(c) PROVE [Promises!Next]_Promises!vars
  BY <1>2, ContinuePromises
<1>3. CASE StockKeeping
  <2>1. ASSUME NEW p \in Product,
               NEW type \in {"PURCHASE", "ADJUSTMENT", "DAMAGE"},
               NEW size \in Size \cup {NoSize},
               NEW change \in -MaxMoved .. MaxMoved,
               Adjust(p, type, size, change)
        PROVE  Promises!Next
    BY <2>1, AdjustRecounts DEF Promises!Next
  <2>2. ASSUME NEW p \in Product, NEW minimum \in 0 .. MaxMoved,
               SetMinimum(p, minimum)
        PROVE  UNCHANGED Promises!vars
    BY <2>2, SetMinimumStays
  <2>3. ASSUME NEW p \in Product, NEW sizes \in [Size -> 0 .. MaxMoved],
               NEW total \in 0 .. MaxMoved, EditSizes(p, sizes, total)
        PROVE  Promises!Next
    BY <2>3, EditSizesRecounts DEF Promises!Next
  <2> QED BY <1>3, <2>1, <2>2, <2>3, Zenon DEF StockKeeping
<1>4. CASE PayHere \/ Restart \/ UNCHANGED vars
  <2>1. UNCHANGED stock
    BY <1>4, Zenon DEF PayHere, Attempt, Restart, vars
  <2> QED BY <2>1, BalancesStay
<1> QED BY <1>1, <1>2, <1>3, <1>4, Zenon DEF Next

(* The opening stock is free, and nothing is promised.                        *)
LEMMA OpensFree == Init => Promises!Init
BY StockAssumption DEF Init, Opened, Promises!Init

(* BR4 as a refinement, for any catalogue, any orders, any interleaving and   *)
(* any restarts: to its customers the API is StockPromise.                    *)
THEOREM PromisesKept == Spec => KeepsPromises
<1>1. Init => IInv /\ StockFloor /\ Promises!Init
  BY InitTypes, StockInit, OpensFree
<1>2. IInv /\ StockFloor /\ [Next]_vars =>
        IInv' /\ StockFloor' /\ [Promises!Next]_Promises!vars
  <2>1. IInv /\ StockFloor /\ [Next]_vars => StockFloor'
    BY StockStep DEF StockFloor, StockKept, Kept
  <2> QED BY <2>1, NextTypes, StepPromises DEF IInv
<1> QED BY <1>1, <1>2, PTL DEF Spec, KeepsPromises, Promises!Spec
=============================================================================
