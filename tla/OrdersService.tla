---------------------------- MODULE OrdersService ----------------------------
(* backend/src/orders/orders.service.ts.  confirmOrder locks the order row    *)
(* and re-reads it; cancel, advance and deliver decide on a row read before   *)
(* their transaction begins, and update it by id.                             *)
EXTENDS ProductionService

(* Rows of every line of an order: all of them move, or the transaction does  *)
(* not commit.                                                                *)
OnLines(o, Effect(_, _)) ==
  [p \in Product |-> IF p \in Lines(o) THEN Effect(stock[p], Cart[o][p])
                                       ELSE stock[p]]
Counted(o, type) == [rows EXCEPT ![o][type] = @ + 1]

------------------------------------------------------------------------------
(* createOrderInternal.  The products are read once, before the transaction:  *)
(* the pre-checks use that copy, and so does the write of sizeStock.          *)
CreateRead(c, o) ==
  /\ "create" \in Ops /\ call[c] = Idle
  /\ orders[o] = "ABSENT"
  /\ \A d \in Slot : ~(call[d].op = "create" /\ call[d].order = o)
  /\ Lines(o) # {}
  /\ \A p \in Lines(o) :
       /\ stock[p].cache >= Cart[o][p]
       /\ CartSize[o] # NoSize => stock[p].sizes[CartSize[o]] >= Cart[o][p]
  /\ call' = [call EXCEPT ![c] =
                [op |-> "create", order |-> o,
                 sizes |-> [p \in Product |-> stock[p].sizes]]]
  /\ UNCHANGED <<stock, orderTables, moneyTables, crashes>>

Floor0(n) == IF n < 0 THEN 0 ELSE n

(* The attributes written back are the copy read, less this order's units.    *)
SizesWritten(o, copy, q) ==
  IF CartSize[o] = NoSize THEN copy
  ELSE [copy EXCEPT ![CartSize[o]] = Floor0(@ - q)]

CreateCommit(c) ==
  LET r == call[c]
      o == r.order
      reserved == OnLines(o, Reserve) IN
  /\ r.op = "create"
  /\ call' = [call EXCEPT ![c] = Idle]
  /\ IF \A p \in Lines(o) : CanReserve(stock[p], Cart[o][p])
     THEN /\ stock' = [p \in Product |->
               IF p \in Lines(o) /\ CartSize[o] # NoSize
               THEN Resized(reserved[p],
                            SizesWritten(o, r.sizes[p], Cart[o][p]))
               ELSE reserved[p]]
          /\ orders' = [orders EXCEPT ![o] = "PENDING"]
          /\ trail' = [trail EXCEPT ![o] = <<"ABSENT", "PENDING">>]
          /\ rows' = Counted(o, "RESERVE")
     ELSE UNCHANGED <<stock, orders, trail, rows>>
  /\ UNCHANGED <<tasks, moneyTables, crashes>>

------------------------------------------------------------------------------
(* cancel.  A customer may cancel their own PENDING order; an admin whatever  *)
(* the graph allows, acknowledging the refund of what was collected.          *)
Collected(o) == payment[o].status = "COMPLETED" \/ dues[o] = "COMPLETED"

CancelRead(c, o, actor, acknowledgeRefund) ==
  /\ "cancel" \in Ops /\ call[c] = Idle
  /\ orders[o] # "ABSENT"
  /\ actor = "CUSTOMER" => orders[o] = "PENDING" /\ ~acknowledgeRefund
  /\ CanTransition(orders[o], "CANCELLED")
  /\ Collected(o) => acknowledgeRefund
  /\ call' = [call EXCEPT ![c] =
                [op |-> "cancel", order |-> o, saw |-> orders[o],
                 pay |-> payment[o], partPaid |-> dues[o] = "COMPLETED"]]
  /\ UNCHANGED <<stock, orderTables, moneyTables, crashes>>

WithSize(o, s, q) ==
  IF CartSize[o] = NoSize THEN s
  ELSE Resized(s, [s.sizes EXCEPT ![CartSize[o]] = @ + q])

(* The payment row a cancellation leaves, from the one it read.               *)
UnknownStatus(now, pay, partPaid) ==
  IF pay.status = "NONE" THEN now ELSE [now EXCEPT !.status = "CANCELLED"]
CancelledPayment(now, pay, partPaid) ==
  CASE pay.plan = "INSTALLMENT"  ->
         [now EXCEPT !.status = IF partPaid THEN "REFUNDED" ELSE "FAILED"]
    [] pay.plan # "INSTALLMENT" /\ pay.status = "COMPLETED" ->
         [now EXCEPT !.status = "REFUNDED"]
    [] pay.plan # "INSTALLMENT" /\ pay.status = "PENDING" ->
         [now EXCEPT !.status = "FAILED"]
    [] OTHER -> now

VoidsOnlyOpenPlans(now, pay) ==
  IF pay.plan = "INSTALLMENT" /\ pay.status = "PENDING" /\ now = "PENDING"
  THEN "FAILED" ELSE now
CancelledDues(now, pay) ==
  IF pay.plan = "INSTALLMENT" /\ now = "PENDING" THEN "FAILED" ELSE now

NeverReleases(saw) == FALSE
Releases(saw) == saw = "PENDING"

CancelCommit(c) ==
  LET r == call[c]
      o == r.order
      Back(s, q) == WithSize(o, IF Releases(r.saw) THEN Release(s, q)
                                                    ELSE Restock(s, q), q) IN
  /\ r.op = "cancel"
  /\ call' = [call EXCEPT ![c] = Idle]
  /\ IF Releases(r.saw) => \A p \in Lines(o) : CanRelease(stock[p], Cart[o][p])
     THEN /\ stock' = OnLines(o, Back)
          /\ orders' = [orders EXCEPT ![o] = "CANCELLED"]
          /\ trail' = [trail EXCEPT ![o] = <<r.saw, "CANCELLED">>]
          /\ rows' = IF Releases(r.saw) THEN Counted(o, "RELEASE")
                                        ELSE Counted(o, "ADJUSTMENT")
          /\ payment' =
               [payment EXCEPT ![o] = CancelledPayment(@, r.pay, r.partPaid)]
          /\ dues' = [dues EXCEPT ![o] = CancelledDues(@, r.pay)]
     ELSE UNCHANGED <<stock, orders, trail, rows, payment, dues>>
  /\ UNCHANGED <<tasks, events, gateway, crashes>>

------------------------------------------------------------------------------
(* advance and deliver: the status read decides, the later UPDATE is by id.   *)
AdvanceDespiteTasks(o) == orders[o] = "CONFIRMED"
MayAdvance(o) == orders[o] = "CONFIRMED" /\ TasksOf(o) = {}
DeliverFromQc(o) == orders[o] \in {"QUALITY_CHECK", "COMPLETED"}
MayDeliver(o) == orders[o] = "COMPLETED"

VerbRead(c, o, verb) ==
  /\ verb \in Ops /\ call[c] = Idle
  /\ \/ verb = "advance" /\ MayAdvance(o)
     \/ verb = "deliver" /\ MayDeliver(o)
  /\ call' = [call EXCEPT ![c] = [op |-> verb, order |-> o]]
  /\ UNCHANGED <<stock, orderTables, moneyTables, crashes>>

VerbCommit(c) ==
  LET r == call[c]
      from == IF r.op = "advance" THEN "CONFIRMED" ELSE "COMPLETED"
      to   == IF r.op = "advance" THEN "COMPLETED" ELSE "DELIVERED" IN
  /\ r.op \in {"advance", "deliver"}
  /\ orders' = [orders EXCEPT ![r.order] = to]
  /\ trail' = [trail EXCEPT ![r.order] = <<from, to>>]
  /\ call' = [call EXCEPT ![c] = Idle]
  /\ UNCHANGED <<stock, rows, tasks, moneyTables, crashes>>

------------------------------------------------------------------------------
(* confirmOrder, called by every payment path: under the order's row lock, an *)
(* order that is not PENDING is left alone; otherwise every line is sold, the *)
(* order confirmed and its tasks created, or the whole transaction fails.     *)
Recheckless(o) == orders[o] # "ABSENT"
Confirmable(o) == orders[o] = "PENDING"
SaleFails(o) == \E p \in Lines(o) : ~CanSell(stock[p], Cart[o][p])
ConfirmThrows(o) == Confirmable(o) /\ SaleFails(o)

ConfirmOrder(o) ==
  IF Confirmable(o) /\ ~SaleFails(o)
  THEN /\ stock' = OnLines(o, Sale)
       /\ orders' = [orders EXCEPT ![o] = "CONFIRMED"]
       /\ trail' = [trail EXCEPT ![o] = <<"PENDING", "CONFIRMED">>]
       /\ rows' = Counted(o, "SALE")
       /\ tasks' = [tasks EXCEPT ![o] = TasksForOrder(o)]
  ELSE UNCHANGED <<stock, orders, trail, rows, tasks>>
=============================================================================
