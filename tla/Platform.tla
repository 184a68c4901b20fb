------------------------------ MODULE Platform -------------------------------
(* The API process as a whole: the services over one database, the requests   *)
(* in flight, PayHere, and restarts of the process.                           *)
EXTENDS PaymentsService

Init ==
  /\ stock = [p \in Product |-> Opened(p)]
  /\ orders = [o \in Order |-> "ABSENT"]
  /\ trail = [o \in Order |-> <<"ABSENT", "ABSENT">>]
  /\ rows = [o \in Order |->
               [type \in {"RESERVE", "SALE", "RELEASE", "ADJUSTMENT"} |-> 0]]
  /\ tasks = [o \in Order |-> [p \in Product |-> NoTask]]
  /\ payment = [o \in Order |-> NoPayment]
  /\ dues = [o \in Order |-> "NONE"]
  /\ events = [e \in Event |-> "ABSENT"]
  /\ gateway = [o \in Order |-> [t \in Txn |-> "NONE"]]
  /\ call = [c \in Slot |-> Idle]
  /\ crashes = 0

(* A restart drops what is in flight; a transaction that had not committed is *)
(* rolled back, one that had stays done.                                      *)
Restart ==
  /\ crashes < MaxCrashes
  /\ crashes' = crashes + 1
  /\ call' = [c \in Slot |-> Idle]
  /\ UNCHANGED <<stock, orderTables, moneyTables>>

(* The first step of a request.                                               *)
Accept(c) ==
  \E o \in Order :
    \/ CreateRead(c, o)
    \/ \E actor \in {"CUSTOMER", "ADMIN"}, acknowledgeRefund \in BOOLEAN :
         CancelRead(c, o, actor, acknowledgeRefund)
    \/ \E verb \in {"advance", "deliver"} : VerbRead(c, o, verb)
    \/ \E op \in {"payhere", "installments", "cod", "mark", "reject"} :
         PayRead(c, o, op)
    \/ StripeSucceeded(c, o)
    \/ \E t \in Txn, code \in StatusCode : NotifyRecord(c, o, t, code)
    \/ \E p \in Product :
         \/ \E w \in Worker : AssignRead(c, o, p, w)
         \/ \E action \in TaskAction, actor \in Worker \cup {"ADMIN"} :
              ActRead(c, o, p, action, actor)

(* Its later steps.                                                           *)
Continue(c) ==
  \/ CreateCommit(c)  \/ CancelCommit(c)  \/ VerbCommit(c)
  \/ AssignWrite(c)   \/ ActUpdate(c)     \/ ActDerive(c)  \/ ActCommit(c)
  \/ PayWrite(c)      \/ PayConfirm(c)    \/ StripeSettle(c)
  \/ NotifyWrite(c)   \/ NotifyConfirm(c) \/ NotifyFinish(c)

(* Admin corrections of the stock: one transaction each, so one step.         *)
StockKeeping ==
  \E p \in Product :
    \/ \E type \in {"PURCHASE", "ADJUSTMENT", "DAMAGE"},
          size \in Size \cup {NoSize}, change \in -MaxMoved .. MaxMoved :
          Adjust(p, type, size, change)
    \/ \E minimum \in 0 .. MaxMoved : SetMinimum(p, minimum)
    \/ \E sizes \in [Size -> 0 .. MaxMoved], total \in 0 .. MaxMoved :
          EditSizes(p, sizes, total)

PayHere ==
  \E o \in Order, t \in Txn, outcome \in {"PAID", "DECLINED"} :
    Attempt(o, t, outcome)

Next ==
  \/ \E c \in Slot : Accept(c) \/ Continue(c)
  \/ StockKeeping
  \/ PayHere
  \/ Restart

(* A request that was accepted is carried to its end unless the process       *)
(* restarts: nothing in a handler waits for anything but a row lock.          *)
Spec == Init /\ [][Next]_vars /\ \A c \in Slot : WF_vars(Continue(c))

------------------------------------------------------------------------------
(* Properties.                                                                *)

(* Units promised to orders are units on the shelf, and neither balance is    *)
(* negative, whatever interleaves: BR4 and the CHECK constraint.              *)
StockFloor == \A p \in Product : Check(stock[p])

(* What scripts/reconcile-inventory.ts looks for: both balances are the sums  *)
(* of their movement types, and the product's cache is what can be sold.      *)
Reconciles(s) ==
  /\ s.available = s.moved["INITIAL"] + s.moved["PURCHASE"] + s.moved["SALE"]
                   + s.moved["ADJUSTMENT"] + s.moved["DAMAGE"]
  /\ s.reserved = s.moved["RESERVE"] + s.moved["RELEASE"] + s.moved["SALE"]
  /\ s.cache = s.available - s.reserved
LedgerReconciles == \A p \in Product : Reconciles(stock[p])

(* No size is sold or written off below zero, although checkout writes the    *)
(* sizes back from a copy read before its transaction.                        *)
SizesNeverNegative ==
  \A p \in Product, size \in Size : stock[p].sizes[size] >= 0

(* FR-018: a product that fell to its minimum has been reported, and a report *)
(* is re-armed once the stock recovers, whichever ledgered path moved it.     *)
AlertTracksFloor ==
  \A p \in Product :
    /\ stock[p].notified => IsLow(stock[p])
    /\ IsLow(stock[p]) /\ OpeningStock[p] > 0 => stock[p].notified

(* The units reserved are those of the orders still PENDING, no more and no   *)
(* less: nothing leaks, and no order lives on another's reservation.          *)
ReservedBacksPending ==
  \A p \in Product :
    stock[p].reserved = MapThenSumSet(LAMBDA o : Cart[o][p],
                                      {o \in Order : orders[o] = "PENDING"})

(* Each order's reservation is settled once: sold or released, and what was   *)
(* sold is returned at most once.                                             *)
SettledOnce ==
  \A o \in Order : /\ rows[o]["SALE"] + rows[o]["RELEASE"] <= rows[o]["RESERVE"]
                   /\ rows[o]["ADJUSTMENT"] <= rows[o]["SALE"]

(* confirmOrder is idempotent under any interleaving of webhooks, COD and     *)
(* admin confirmations: one deduction per order, none before it is confirmed, *)
(* and a confirmed order's making has a task per line that needs one.         *)
Live == OrderStatus \ {"PENDING", "CANCELLED"}
DeductedOnce ==
  \A o \in Order :
    /\ rows[o]["SALE"] <= 1
    /\ orders[o] = "PENDING" => rows[o]["SALE"] = 0
    /\ orders[o] \in Live =>
         /\ rows[o]["SALE"] = 1
         /\ {p \in Product : tasks[o][p] # NoTask} = Made \cap Lines(o)

(* An order with garments to make is COMPLETED only while each of them has    *)
(* passed quality control, whatever verdicts race on the floor.               *)
CompletedMeansInspected ==
  \A o \in Order : orders[o] = "COMPLETED" =>
                     \A t \in TasksOf(o) : Inspected(t)

(* syncOrderStatus: with every task done at QC, and nobody on the floor still *)
(* writing, the order is COMPLETED (or it is out of the floor's hands).       *)
OnFloor(o) ==
  \E c \in Slot : call[c].op \in {"act", "floor"} /\ call[c].order = o
FloorFinishes ==
  \A o \in Order :
    TasksOf(o) # {} /\ (\A t \in TasksOf(o) : Inspected(t)) /\ ~OnFloor(o)
      => orders[o] \in {"COMPLETED", "DELIVERED", "CANCELLED"}

(* The task machine and the order graph agree: no legal move of a task is     *)
(* rolled back because the order cannot follow it.                            *)
FloorNeverRefused ==
  \A o \in Order, p \in Product, action \in TaskAction :
    tasks[o][p] # NoTask /\ Legal(action, tasks[o][p]) =>
      LET target == SyncTarget(orders[o],
                               Updated(o, p, Acted(tasks[o][p], action))) IN
      target = "NONE" \/ CanTransition(orders[o], target)

(* computeAdminActions: the buttons an admin is offered, derived from the     *)
(* graph and the tasks, are the ones whose endpoints would act, so no button  *)
(* races the floor.                                                           *)
OfferedIsAccepted ==
  \A o \in {x \in Order : orders[x] # "ABSENT"} :
    LET offered == AllowedOrderActions(orders[o], TasksOf(o) # {}) IN
    /\ "advance" \in offered <=> MayAdvance(o)
    /\ "deliver" \in offered <=> MayDeliver(o)

(* Plan section 4.1: an order's status moves along the edges of the graph, as *)
(* it does while the requests in flight are for different orders.             *)
StatusFollowsGraph ==
  [][\A o \in Order : orders'[o] # orders[o] =>
       \/ orders[o] = "ABSENT" /\ orders'[o] = "PENDING"
       \/ CanTransition(orders[o], orders'[o])]_vars

(* The tracking timeline says what happened: a new history row goes from the  *)
(* status the order had to the one it has, and there is one for every move.   *)
TrailTellsTruth ==
  [][\A o \in Order :
       trail'[o] # trail[o] \/ orders'[o] # orders[o] =>
         trail'[o] = <<orders[o], orders'[o]>>]_vars

(* Once nobody is working on its payment, a paid order is not left PENDING.   *)
Working(o) == \E c \in Slot : call[c] # Idle /\ call[c].order = o
PaidIsConfirmed ==
  \A o \in Order : payment[o].status = "COMPLETED" /\ ~Working(o) =>
                     orders[o] # "PENDING"

(* Cancelling leaves no installment to collect on the cancelled order.        *)
Cancelled(o) == orders[o] # "CANCELLED" /\ orders'[o] = "CANCELLED"
CancelVoidsDues ==
  [][\A o \in Order : Cancelled(o) => dues'[o] # "PENDING"]_vars

(* When requests do not overlap, nothing a customer or an admin sends reopens *)
(* a paid order's payment; only its cancellation does, the decline of another *)
(* attempt that PayHere reports late, or Stripe's event for an installment.   *)
ReportsOn(o) ==
  \E c \in Slot : /\ call[c] # Idle /\ call[c].order = o
                  /\ \/ call[c].op = "stripe"
                     \/ call[c].op = "notify" /\ call[c].code # "2"
PaidStaysPaid ==
  [][\A o \in Order :
       payment[o].status = "COMPLETED" /\ payment'[o].status # "COMPLETED" =>
         Cancelled(o) \/ ReportsOn(o)]_vars

(* Plan section 4.1: cancelling an order that was already paid flags the      *)
(* payment for a refund.                                                      *)
CancelFlagsRefund ==
  [][\A o \in Order : Cancelled(o) /\ Collected(o) =>
                        payment'[o].status = "REFUNDED"]_vars

(* D5: a payment event is acted on by one delivery only.                      *)
EventActedOnOnce ==
  \A c \in Slot : call[c].op = "notify" =>
    LET e == <<call[c].order, call[c].txn, call[c].code>> IN
    /\ events[e] = "RECORDED"
    /\ \A d \in Slot \ {c} : call[d].op = "notify" =>
         e # <<call[d].order, call[d].txn, call[d].code>>

(* A success PayHere has reported to the API leads to a confirmed order.      *)
SuccessConfirms ==
  \A o \in Order :
    (\E t \in Txn : events[<<o, t, "2">>] # "ABSENT") ~> orders[o] # "PENDING"

------------------------------------------------------------------------------
(* Refinements.                                                               *)

(* BR4 as a promise, under every interleaving: seen from the balances alone,  *)
(* each step of the API takes a whole order's units from free to promised,    *)
(* sells or returns them, or recounts what is free.                           *)
Promises ==
  INSTANCE StockPromise WITH
    Carts    <- {Cart[o] : o \in Order},
    free     <- [p \in Product |-> stock[p].available - stock[p].reserved],
    promised <- [p \in Product |-> stock[p].reserved]
KeepsPromises == Promises!Spec

(* The same per order, when requests do not overlap: what an order does to    *)
(* the stock is what its status says, and the balances never say otherwise.   *)
Standing(status) ==
  CASE status = "ABSENT"    -> "NOTHING"
    [] status = "PENDING"   -> "HELD"
    [] status = "CANCELLED" -> "BACK"
    [] OTHER                -> "SOLD"
Reserving ==
  INSTANCE Reservations WITH
    shelf <- [p \in Product |-> stock[p].available],
    holds <- [o \in Order |-> Standing(orders[o])]
OrdersHoldTheirUnits == Reserving!Spec
=============================================================================
