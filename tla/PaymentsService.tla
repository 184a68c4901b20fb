--------------------------- MODULE PaymentsService ---------------------------
(* backend/src/payments/payments.service.ts.  No handler here runs inside one *)
(* transaction: the reads, the write of the payment row and confirmOrder are  *)
(* statements of their own, and a restart can fall between any two of them.   *)
EXTENDS OrdersService

(* The payment row an upsert leaves.  Only the installment path writes the    *)
(* plan of an existing row.                                                   *)
Upserted(row, method) ==
  [status |-> "PENDING", method |-> method,
   plan   |-> IF method = "INSTALLMENT" THEN "INSTALLMENT" ELSE row.plan]

(* What each handler requires of the rows it reads: findOrderForPayment for   *)
(* the customer's three, an unpaid payment row for the admin's two.           *)
PayableAgain(op, o) ==
  /\ op \in {"payhere", "installments", "cod"} => orders[o] # "ABSENT"
  /\ op \in {"mark", "reject"} => payment[o] # NoPayment
Payable(op, o) ==
  /\ payment[o].status # "COMPLETED"
  /\ op \in {"payhere", "installments", "cod"} => orders[o] # "ABSENT"
  /\ op \in {"mark", "reject"} => payment[o] # NoPayment

PayRead(c, o, op) ==
  /\ op \in Ops /\ call[c] = Idle
  /\ op \in {"payhere", "installments", "cod", "mark", "reject"}
  /\ Payable(op, o)
  /\ call' = [call EXCEPT ![c] = [op |-> op, order |-> o, step |-> "write"]]
  /\ UNCHANGED <<stock, orderTables, payment, dues, events, gateway, crashes>>

Written(op, row) ==
  CASE op = "payhere"      -> Upserted(row, "PAYHERE")
    [] op = "installments" -> Upserted(row, "INSTALLMENT")
    [] op = "cod"          -> Upserted(row, "COD")
    [] op = "mark"         -> [row EXCEPT !.status = "COMPLETED"]
    [] op = "reject"       -> [row EXCEPT !.status = "FAILED"]

(* The handlers that go on to confirm the order: not those that only open or  *)
(* refuse a payment.                                                          *)
OnlyCodConfirms(op) == op = "cod"
Confirms(op) == op \in {"cod", "mark"}

(* PayHere's form lets the customer start attempts; an installment plan is    *)
(* re-created with every installment PENDING.                                 *)
OpenTo(attempts) ==
  [t \in Txn |-> IF attempts[t] = "NONE" THEN "OPEN" ELSE attempts[t]]

PayWrite(c) ==
  LET r == call[c]
      o == r.order IN
  /\ r.op \in {"payhere", "installments", "cod", "mark", "reject"}
  /\ r.step = "write"
  /\ payment' = [payment EXCEPT ![o] = Written(r.op, @)]
  /\ dues' = IF r.op = "installments" THEN [dues EXCEPT ![o] = "PENDING"]
                                       ELSE dues
  /\ gateway' = IF r.op = "payhere" THEN [gateway EXCEPT ![o] = OpenTo(@)]
                                     ELSE gateway
  /\ call' = [call EXCEPT ![c] =
       IF Confirms(r.op) THEN [r EXCEPT !.step = "confirm"] ELSE Idle]
  /\ UNCHANGED <<stock, orderTables, events, crashes>>

(* confirmOrder from the COD, mark-paid and Stripe paths; what it throws ends *)
(* the request.                                                               *)
PayConfirm(c) ==
  LET r == call[c] IN
  /\ r.op \in {"cod", "mark", "stripe"} /\ r.step = "confirm"
  /\ ConfirmOrder(r.order)
  /\ call' = [call EXCEPT ![c] = Idle]
  /\ UNCHANGED <<moneyTables, crashes>>

------------------------------------------------------------------------------
(* confirmPayment, from Stripe's payment_intent.succeeded.  Installment plans *)
(* are the only ones a route opens an intent for, so the plan is INSTALLMENT: *)
(* the first installment is paid, the payment as a whole is still PENDING.    *)
StripeSucceeded(c, o) ==
  /\ "stripe" \in Ops /\ call[c] = Idle
  /\ payment[o].plan = "INSTALLMENT"
  /\ dues' = [dues EXCEPT ![o] = "COMPLETED"]
  /\ call' = [call EXCEPT ![c] =
                [op |-> "stripe", order |-> o, step |-> "settle"]]
  /\ UNCHANGED <<stock, orderTables, payment, events, gateway, crashes>>

StripeSettle(c) ==
  LET r == call[c] IN
  /\ r.op = "stripe" /\ r.step = "settle"
  /\ payment' = [payment EXCEPT ![r.order].status = "PENDING"]
  /\ call' = [call EXCEPT ![c].step = "confirm"]
  /\ UNCHANGED <<stock, orderTables, dues, events, gateway, crashes>>

------------------------------------------------------------------------------
(* PayHere itself (external): an attempt is paid or declined, and its         *)
(* outcome is notified any number of times, in any order with other attempts. *)
Attempt(o, t, outcome) ==
  /\ gateway[o][t] = "OPEN"
  /\ gateway' = [gateway EXCEPT ![o][t] = outcome]
  /\ UNCHANGED <<stock, orderTables, payment, dues, events, call, crashes>>

Notifies(o, t, code) ==
  gateway[o][t] = IF code = "2" THEN "PAID" ELSE "DECLINED"

(* handlePayhereNotify.  The event row comes first; its unique key turns a    *)
(* redelivery into an acknowledgement that changes nothing.                   *)
Redeliverable(e) == TRUE
FirstDelivery(e) == events[e] = "ABSENT"

NotifyRecord(c, o, t, code) ==
  /\ "notify" \in Ops /\ call[c] = Idle
  /\ Notifies(o, t, code)
  /\ FirstDelivery(<<o, t, code>>)
  /\ events' = [events EXCEPT ![<<o, t, code>>] = "RECORDED"]
  /\ call' = [call EXCEPT ![c] = [op |-> "notify", order |-> o, txn |-> t,
                                  code |-> code, step |-> "write"]]
  /\ UNCHANGED <<stock, orderTables, payment, dues, gateway, crashes>>

NotifyWrite(c) ==
  LET r == call[c] IN
  /\ r.op = "notify" /\ r.step = "write"
  /\ payment' = [payment EXCEPT ![r.order].status =
                   IF r.code = "2" THEN "COMPLETED" ELSE "FAILED"]
  /\ call' = [call EXCEPT ![c].step =
                IF r.code = "2" THEN "confirm" ELSE "finish"]
  /\ UNCHANGED <<stock, orderTables, dues, events, gateway, crashes>>

(* When confirmOrder throws, the event keeps processed = false.               *)
NotifyConfirm(c) ==
  LET r == call[c] IN
  /\ r.op = "notify" /\ r.step = "confirm"
  /\ ConfirmOrder(r.order)
  /\ call' = [call EXCEPT ![c] = IF ConfirmThrows(r.order) THEN Idle
                                 ELSE [r EXCEPT !.step = "finish"]]
  /\ UNCHANGED <<moneyTables, crashes>>

NotifyFinish(c) ==
  LET r == call[c] IN
  /\ r.op = "notify" /\ r.step = "finish"
  /\ events' = [events EXCEPT ![<<r.order, r.txn, r.code>>] = "PROCESSED"]
  /\ call' = [call EXCEPT ![c] = Idle]
  /\ UNCHANGED <<stock, orderTables, payment, dues, gateway, crashes>>
=============================================================================
