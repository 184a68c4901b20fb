---------------------------- MODULE ConfirmProofs ----------------------------
(* An order's units are deducted once, however many requests confirm, cancel, *)
(* advance and work on it at the same time, and a payment event is acted on   *)
(* by one delivery, however often PayHere sends it.                           *)
EXTENDS PlatformProofs

(* What the tables say of one order: it was sold at most once, and its making *)
(* was set up in the transaction that sold it.                                *)
Sold(o) == rows[o]["SALE"]
Making(o) == {p \in Product : tasks[o][p] # NoTask}
OrderFits(o) ==
  /\ Sold(o) \in {0, 1}
  /\ orders[o] \in {"ABSENT", "PENDING"} => Sold(o) = 0
  /\ orders[o] \in Live => Sold(o) = 1
  /\ Making(o) = IF Sold(o) = 1 THEN Made \cap Lines(o) ELSE {}

(* What a stale read still tells: who may write a status by id has seen the   *)
(* order sold, and sold it stays, even when it was cancelled in between.      *)
CallFits(c, q) ==
  /\ q.op = "create" =>
       /\ orders[q.order] = "ABSENT"
       /\ \A d \in Slot \ {c} :
            call[d].op = "create" => call[d].order # q.order
  /\ q.op \in {"advance", "deliver"} => Sold(q.order) = 1
  /\ q.op = "cancel" => orders[q.order] # "ABSENT"
  /\ q.op = "floor" => q.target # "PENDING"

Deducts ==
  /\ \A o \in Order : OrderFits(o)
  /\ \A c \in Slot : CallFits(c, call[c])

ReadsBack == {"create", "advance", "deliver", "cancel", "floor"}

(* A step that writes neither orders, movements nor tasks.                    *)
LEMMA QuietStep ==
  ASSUME TypeOK, Deducts, NEW c \in Slot, NEW q, CallFits(c, q),
         call' = [call EXCEPT ![c] = q], UNCHANGED orderTables
  PROVE  Deducts'
<1>1. orders' = orders /\ rows' = rows /\ tasks' = tasks
  BY DEF orderTables
<1>2. \A d \in Slot : call'[d] = IF d = c THEN q ELSE call[d]
  BY DEF TypeOK
<1>3. \A o \in Order : OrderFits(o)'
  BY <1>1 DEF Deducts, OrderFits, Sold, Making
<1>4. ASSUME NEW d \in Slot PROVE CallFits(d, call[d])'
  <2>1. CASE d = c
    BY <1>1, <1>2, <2>1 DEF CallFits, Sold
  <2>2. CASE d # c
    <3>1. call'[d] = call[d] /\ CallFits(d, call[d])
      BY <1>2, <2>2 DEF Deducts
    <3>2. \A e \in Slot \ {d} :
            call[d].op = "create" /\ call'[e].op = "create"
              => call'[e].order # call[d].order
      BY <1>2, <2>2, <3>1 DEF CallFits
    <3> QED BY <1>1, <3>1, <3>2 DEF CallFits, Sold
  <2> QED BY <2>1, <2>2
<1> QED BY <1>3, <1>4 DEF Deducts

LEMMA PlainStep ==
  ASSUME TypeOK, Deducts, NEW c \in Slot, NEW q, q.op \notin ReadsBack,
         call' = [call EXCEPT ![c] = q], UNCHANGED orderTables
  PROVE  Deducts'
<1>1. CallFits(c, q)
  BY DEF CallFits, ReadsBack
<1> QED BY <1>1, QuietStep

LEMMA IdlePlain == Idle.op \notin ReadsBack
  BY DEF Idle, ReadsBack

(* A step that writes one order, which nobody else is creating.               *)
LEMMA WriteStep ==
  ASSUME TypeOK, Deducts, NEW c \in Slot, NEW q, q.op \notin ReadsBack,
         call' = [call EXCEPT ![c] = q], NEW o \in Order,
         \A x \in Order : x # o => /\ orders'[x] = orders[x]
                                   /\ rows'[x]["SALE"] = rows[x]["SALE"]
                                   /\ tasks'[x] = tasks[x],
         OrderFits(o)', orders'[o] # "ABSENT",
         Sold(o) = 1 => rows'[o]["SALE"] = 1,
         \A d \in Slot \ {c} : call[d].op = "create" => call[d].order # o
  PROVE  Deducts'
<1>1. \A d \in Slot : call'[d] = IF d = c THEN q ELSE call[d]
  BY DEF TypeOK
<1>2. ASSUME NEW x \in Order PROVE OrderFits(x)'
  <2>1. CASE x = o
    BY <2>1
  <2>2. CASE x # o
    BY <2>2 DEF Deducts, OrderFits, Sold, Making
  <2> QED BY <2>1, <2>2
<1>3. ASSUME NEW d \in Slot PROVE CallFits(d, call[d])'
  <2>1. CASE d = c
    BY <1>1, <2>1 DEF CallFits, ReadsBack
  <2>2. CASE d # c
    <3> DEFINE r == call[d]
    <3>1. call'[d] = r /\ CallFits(d, r) /\ r \in Call
      BY <1>1, <2>2 DEF Deducts, TypeOK
    <3>2. /\ r.op = "create" => r.order \in Order
          /\ r.op \in {"advance", "deliver"} => r.order \in Order
          /\ r.op = "cancel" => r.order \in Order
      <4> HIDE DEF r
      <4> QED BY <3>1, CallByOp DEF CreateCall, VerbCall, CancelCall
    <3>3. r.op = "create" =>
            /\ orders'[r.order] = "ABSENT"
            /\ \A e \in Slot \ {d} :
                 call'[e].op = "create" => call'[e].order # r.order
      <4>1. r.op = "create" => r.order # o
        BY <2>2
      <4> QED BY <1>1, <2>2, <3>1, <3>2, <4>1 DEF CallFits, ReadsBack
    <3>4. r.op \in {"advance", "deliver"} => rows'[r.order]["SALE"] = 1
      BY <3>1, <3>2 DEF CallFits, Sold
    <3>5. r.op = "cancel" => orders'[r.order] # "ABSENT"
      BY <3>1, <3>2 DEF CallFits
    <3> QED BY <3>1, <3>3, <3>4, <3>5 DEF CallFits, Sold
  <2> QED BY <2>1, <2>2
<1> QED BY <1>2, <1>3 DEF Deducts

------------------------------------------------------------------------------
(* The first steps: those that read an order to write it later.               *)
LEMMA CreateReadFits ==
  ASSUME IInv, Deducts, NEW c \in Slot, NEW o \in Order, CreateRead(c, o)
  PROVE  Deducts'
<1> DEFINE q == [op |-> "create", order |-> o,
                 sizes |-> [p \in Product |-> stock[p].sizes]]
<1>1. /\ call' = [call EXCEPT ![c] = q] /\ UNCHANGED orderTables
      /\ orders[o] = "ABSENT"
      /\ \A d \in Slot : ~(call[d].op = "create" /\ call[d].order = o)
  BY DEF CreateRead
<1>2. CallFits(c, q)
  BY <1>1 DEF CallFits
<1> HIDE DEF q
<1> QED BY <1>1, <1>2, QuietStep DEF IInv

LEMMA CancelReadFits ==
  ASSUME IInv, Deducts, NEW c \in Slot, NEW o \in Order,
         NEW actor, NEW ack, CancelRead(c, o, actor, ack)
  PROVE  Deducts'
<1> DEFINE q == [op |-> "cancel", order |-> o, saw |-> orders[o],
                 pay |-> payment[o], partPaid |-> dues[o] = "COMPLETED"]
<1>1. /\ call' = [call EXCEPT ![c] = q] /\ UNCHANGED orderTables
      /\ orders[o] # "ABSENT"
  BY DEF CancelRead
<1>2. CallFits(c, q)
  BY <1>1 DEF CallFits
<1> HIDE DEF q
<1> QED BY <1>1, <1>2, QuietStep DEF IInv

LEMMA VerbReadFits ==
  ASSUME IInv, Deducts, NEW c \in Slot, NEW o \in Order,
         NEW verb \in {"advance", "deliver"}, VerbRead(c, o, verb)
  PROVE  Deducts'
<1> DEFINE q == [op |-> verb, order |-> o]
<1>1. /\ call' = [call EXCEPT ![c] = q] /\ UNCHANGED orderTables
      /\ orders[o] \in {"CONFIRMED", "COMPLETED"}
  BY DEF VerbRead, MayAdvance, MayDeliver
<1>2. Sold(o) = 1
  BY <1>1 DEF Deducts, OrderFits, Live, OrderStatus
<1>3. CallFits(c, q)
  BY <1>2 DEF CallFits
<1> HIDE DEF q
<1> QED BY <1>1, <1>3, QuietStep DEF IInv

(* And those whose later writes need nothing from what they read.             *)
LEMMA OtherReadFits ==
  ASSUME IInv, Deducts, NEW c \in Slot, NEW o \in Order,
         \/ \E op \in {"payhere", "installments", "cod", "mark", "reject"} :
              PayRead(c, o, op)
         \/ StripeSucceeded(c, o)
         \/ \E t \in Txn, code \in StatusCode : NotifyRecord(c, o, t, code)
         \/ \E p \in Product :
              \/ \E w \in Worker : AssignRead(c, o, p, w)
              \/ \E action \in TaskAction, actor \in Worker \cup {"ADMIN"} :
                   ActRead(c, o, p, action, actor)
  PROVE  Deducts'
<1>1. ASSUME NEW op \in {"payhere", "installments", "cod", "mark", "reject"},
             PayRead(c, o, op)
      PROVE  Deducts'
  <2> DEFINE q == [op |-> op, order |-> o, step |-> "write"]
  <2>1. call' = [call EXCEPT ![c] = q] /\ UNCHANGED orderTables
    BY <1>1 DEF PayRead
  <2>2. q.op \notin ReadsBack
    BY DEF ReadsBack
  <2> HIDE DEF q
  <2> QED BY <2>1, <2>2, PlainStep DEF IInv
<1>2. ASSUME StripeSucceeded(c, o) PROVE Deducts'
  <2> DEFINE q == [op |-> "stripe", order |-> o, step |-> "settle"]
  <2>1. call' = [call EXCEPT ![c] = q] /\ UNCHANGED orderTables
    BY <1>2 DEF StripeSucceeded
  <2>2. q.op \notin ReadsBack
    BY DEF ReadsBack
  <2> HIDE DEF q
  <2> QED BY <2>1, <2>2, PlainStep DEF IInv
<1>3. ASSUME NEW t \in Txn, NEW code \in StatusCode, NotifyRecord(c, o, t, code)
      PROVE  Deducts'
  <2> DEFINE q == [op |-> "notify", order |-> o, txn |-> t, code |-> code,
                   step |-> "write"]
  <2>1. call' = [call EXCEPT ![c] = q] /\ UNCHANGED orderTables
    BY <1>3 DEF NotifyRecord
  <2>2. q.op \notin ReadsBack
    BY DEF ReadsBack
  <2> HIDE DEF q
  <2> QED BY <2>1, <2>2, PlainStep DEF IInv
<1>4. ASSUME NEW p \in Product, NEW w \in Worker, AssignRead(c, o, p, w)
      PROVE  Deducts'
  <2> DEFINE q == [op |-> "assign", order |-> o, product |-> p, worker |-> w]
  <2>1. call' = [call EXCEPT ![c] = q] /\ UNCHANGED orderTables
    BY <1>4 DEF AssignRead
  <2>2. q.op \notin ReadsBack
    BY DEF ReadsBack
  <2> HIDE DEF q
  <2> QED BY <2>1, <2>2, PlainStep DEF IInv
<1>5. ASSUME NEW p \in Product, NEW action \in TaskAction,
             NEW actor \in Worker \cup {"ADMIN"},
             ActRead(c, o, p, action, actor)
      PROVE  Deducts'
  <2> DEFINE q == [op |-> "act", order |-> o, product |-> p,
                   next |-> Acted(tasks[o][p], action)]
  <2>1. call' = [call EXCEPT ![c] = q] /\ UNCHANGED orderTables
    BY <1>5 DEF ActRead
  <2>2. q.op \notin ReadsBack
    BY DEF ReadsBack
  <2> HIDE DEF q
  <2> QED BY <2>1, <2>2, PlainStep DEF IInv
<1> QED BY <1>1, <1>2, <1>3, <1>4, <1>5

LEMMA AcceptFits ==
  ASSUME IInv, Deducts, NEW c \in Slot, Accept(c)
  PROVE  Deducts'
  BY CreateReadFits, CancelReadFits, VerbReadFits, OtherReadFits, Zenon
  DEF Accept

------------------------------------------------------------------------------
(* The later steps that write no order: payments, events, the floor's reads.  *)
LEMMA MoneyFits ==
  ASSUME IInv, Deducts, NEW c \in Slot,
         PayWrite(c) \/ StripeSettle(c) \/ NotifyWrite(c) \/ NotifyFinish(c)
  PROVE  Deducts'
<1>1. CASE PayWrite(c)
  <2> DEFINE r == call[c]
             q == IF Confirms(r.op) THEN [r EXCEPT !.step = "confirm"] ELSE Idle
  <2>1. /\ call' = [call EXCEPT ![c] = q] /\ UNCHANGED orderTables
        /\ r.op \in {"payhere", "installments", "cod", "mark", "reject"}
    BY <1>1 DEF PayWrite
  <2>2. r \in PayCall
    BY <2>1, CallByOp DEF IInv, TypeOK
  <2>3. q.op \notin ReadsBack
    BY <2>1, <2>2, IdlePlain DEF PayCall, ReadsBack
  <2> HIDE DEF q, r
  <2> QED BY <2>1, <2>3, PlainStep DEF IInv
<1>2. CASE StripeSettle(c)
  <2> DEFINE q == [call[c] EXCEPT !.step = "confirm"]
  <2>1. /\ call' = [call EXCEPT ![c] = q] /\ UNCHANGED orderTables
        /\ call[c].op = "stripe"
    BY <1>2 DEF StripeSettle
  <2>2. call[c] \in PayCall
    BY <2>1, CallByOp DEF IInv, TypeOK
  <2>3. q.op \notin ReadsBack
    BY <2>1, <2>2 DEF PayCall, ReadsBack
  <2> HIDE DEF q
  <2> QED BY <2>1, <2>3, PlainStep DEF IInv
<1>3. CASE NotifyWrite(c)
  <2> DEFINE next == IF call[c].code = "2" THEN "confirm" ELSE "finish"
             q == [call[c] EXCEPT !.step = next]
  <2>1. /\ call' = [call EXCEPT ![c] = q] /\ UNCHANGED orderTables
        /\ call[c].op = "notify"
    BY <1>3 DEF NotifyWrite
  <2>2. call[c] \in NotifyCall
    BY <2>1, CallByOp DEF IInv, TypeOK
  <2>3. q.op \notin ReadsBack
    BY <2>1, <2>2 DEF NotifyCall, ReadsBack
  <2> HIDE DEF q
  <2> QED BY <2>1, <2>3, PlainStep DEF IInv
<1>4. CASE NotifyFinish(c)
  BY <1>4, IdlePlain, PlainStep DEF NotifyFinish, IInv
<1> QED BY <1>1, <1>2, <1>3, <1>4

LEMMA FloorReadFits ==
  ASSUME IInv, Deducts, NEW c \in Slot, ActUpdate(c) \/ ActDerive(c)
  PROVE  Deducts'
<1>1. CASE ActUpdate(c)
  <2> DEFINE r == call[c]
             q == [op |-> "floor", order |-> r.order, product |-> r.product,
                   next |-> r.next, saw |-> orders[r.order],
                   target |-> "UNREAD"]
  <2>1. call' = [call EXCEPT ![c] = q] /\ UNCHANGED orderTables
    BY <1>1, Zenon DEF ActUpdate
  <2>2. CallFits(c, q)
    BY DEF CallFits
  <2> HIDE DEF q, r
  <2> QED BY <2>1, <2>2, QuietStep DEF IInv
<1>2. CASE ActDerive(c)
  <2> DEFINE r == call[c]
             target == SyncTarget(r.saw, Updated(r.order, r.product, r.next))
             q == [r EXCEPT !.target = target]
  <2>1. /\ r.op = "floor" /\ UNCHANGED orderTables
        /\ \/ call' = [call EXCEPT ![c] = q]
           \/ call' = [call EXCEPT ![c] = Idle]
    BY <1>2, Zenon DEF ActDerive
  <2>2. target # "PENDING"
    BY DEF SyncTarget, Derive
  <2>3. r \in FloorCall
    BY <2>1, CallByOp DEF IInv, TypeOK
  <2> HIDE DEF target, r
  <2>4. q.op = "floor" /\ q.target = target
    BY <2>3 DEF FloorCall
  <2>5. CallFits(c, q)
    BY <2>2, <2>4 DEF CallFits
  <2> HIDE DEF q
  <2>6. CASE call' = [call EXCEPT ![c] = q]
    BY <2>1, <2>5, <2>6, QuietStep DEF IInv
  <2>7. CASE call' = [call EXCEPT ![c] = Idle]
    BY <2>1, <2>7, IdlePlain, PlainStep DEF IInv
  <2> QED BY <2>1, <2>6, <2>7
<1> QED BY <1>1, <1>2

------------------------------------------------------------------------------
(* The steps that write an order.                                             *)
LEMMA NobodyCreates ==
  ASSUME Deducts, NEW o \in Order, orders[o] # "ABSENT"
  PROVE  \A d \in Slot : call[d].op = "create" => call[d].order # o
  BY DEF Deducts, CallFits

(* Which movement rows count as a sale.                                       *)
LEMMA CountedSales ==
  ASSUME TypeOK, NEW o \in Order
  PROVE  /\ \A type \in {"RESERVE", "RELEASE", "ADJUSTMENT"}, x \in Order :
              Counted(o, type)[x]["SALE"] = rows[x]["SALE"]
         /\ \A x \in Order : x # o =>
              Counted(o, "SALE")[x]["SALE"] = rows[x]["SALE"]
         /\ Counted(o, "SALE")[o]["SALE"] = rows[o]["SALE"] + 1
  BY DEF TypeOK, Counted

LEMMA CreateCommitFits ==
  ASSUME IInv, Deducts, NEW c \in Slot, CreateCommit(c)
  PROVE  Deducts'
<1>0. call[c].op = "create"
  BY Zenon DEF CreateCommit
<1>2. PICK o \in Order : o = call[c].order
  BY <1>0, CallByOp DEF IInv, TypeOK, CreateCall
<1>1. /\ call' = [call EXCEPT ![c] = Idle]
      /\ tasks' = tasks
      /\ \/ /\ orders' = [orders EXCEPT ![o] = "PENDING"]
            /\ rows' = Counted(o, "RESERVE")
         \/ UNCHANGED <<orders, trail, rows>>
  BY <1>2, Zenon DEF CreateCommit
<1>3. /\ orders[o] = "ABSENT"
      /\ \A d \in Slot \ {c} : call[d].op = "create" => call[d].order # o
  BY <1>0, <1>2 DEF Deducts, CallFits
<1>4. Sold(o) = 0 /\ Making(o) = {}
  BY <1>2, <1>3 DEF Deducts, OrderFits
<1>5. CASE /\ orders' = [orders EXCEPT ![o] = "PENDING"]
           /\ rows' = Counted(o, "RESERVE")
  <2>1. /\ orders'[o] = "PENDING"
        /\ \A x \in Order : x # o => orders'[x] = orders[x]
    BY <1>2, <1>5 DEF IInv, TypeOK
  <2>2. \A x \in Order : rows'[x]["SALE"] = rows[x]["SALE"]
    BY <1>2, <1>5, CountedSales DEF IInv
  <2>3. OrderFits(o)'
    BY <1>1, <1>2, <1>4, <2>1, <2>2 DEF OrderFits, Sold, Making, Live
  <2>4. Sold(o) = 1 => rows'[o]["SALE"] = 1
    BY <1>4
  <2>5. Idle.op \notin ReadsBack /\ orders'[o] # "ABSENT"
    BY <2>1, IdlePlain
  <2>7. \A x \in Order : x # o => /\ orders'[x] = orders[x]
                                  /\ rows'[x]["SALE"] = rows[x]["SALE"]
                                  /\ tasks'[x] = tasks[x]
    BY <1>1, <2>1, <2>2
  <2> DEFINE q == Idle
  <2>6. q.op \notin ReadsBack /\ call' = [call EXCEPT ![c] = q]
    BY <1>1, <2>5
  <2> HIDE DEF q
  <2> QED BY <1>3, <2>3, <2>4, <2>5, <2>6, <2>7, WriteStep DEF IInv
<1>6. CASE UNCHANGED <<orders, trail, rows>>
  BY <1>1, <1>6, IdlePlain, PlainStep DEF IInv, orderTables
<1> QED BY <1>1, <1>5, <1>6

(* Cancelling an order deducts nothing and takes back no task.                *)
LEMMA CancelCommitFits ==
  ASSUME IInv, Deducts, NEW c \in Slot, CancelCommit(c)
  PROVE  Deducts'
<1>0. call[c].op = "cancel"
  BY Zenon DEF CancelCommit
<1>2. PICK o \in Order : o = call[c].order
  BY <1>0, CallByOp DEF IInv, TypeOK, CancelCall
<1>1. /\ call' = [call EXCEPT ![c] = Idle]
      /\ tasks' = tasks
      /\ \/ /\ orders' = [orders EXCEPT ![o] = "CANCELLED"]
            /\ \/ rows' = Counted(o, "RELEASE")
               \/ rows' = Counted(o, "ADJUSTMENT")
         \/ UNCHANGED <<orders, trail, rows>>
  BY <1>2, Zenon DEF CancelCommit
<1>3. orders[o] # "ABSENT"
  BY <1>0, <1>2 DEF Deducts, CallFits
<1>4. OrderFits(o)
  BY <1>2 DEF Deducts
<1>5. \A d \in Slot : call[d].op = "create" => call[d].order # o
  BY <1>2, <1>3, NobodyCreates
<1>6. CASE /\ orders' = [orders EXCEPT ![o] = "CANCELLED"]
           /\ \/ rows' = Counted(o, "RELEASE")
              \/ rows' = Counted(o, "ADJUSTMENT")
  <2>1. /\ orders'[o] = "CANCELLED"
        /\ \A x \in Order : x # o => orders'[x] = orders[x]
    BY <1>2, <1>6 DEF IInv, TypeOK
  <2>2. \A x \in Order : rows'[x]["SALE"] = rows[x]["SALE"]
    BY <1>2, <1>6, CountedSales DEF IInv
  <2>3. OrderFits(o)'
    BY <1>1, <1>2, <1>4, <2>1, <2>2 DEF OrderFits, Sold, Making, Live
  <2>4. Sold(o) = 1 => rows'[o]["SALE"] = 1
    BY <1>2, <2>2 DEF Sold
  <2>7. \A x \in Order : x # o => /\ orders'[x] = orders[x]
                                  /\ rows'[x]["SALE"] = rows[x]["SALE"]
                                  /\ tasks'[x] = tasks[x]
    BY <1>1, <2>1, <2>2
  <2> DEFINE q == Idle
  <2>6. /\ q.op \notin ReadsBack /\ call' = [call EXCEPT ![c] = q]
        /\ orders'[o] # "ABSENT"
    BY <1>1, <2>1, IdlePlain
  <2> HIDE DEF q
  <2> QED BY <1>5, <2>3, <2>4, <2>6, <2>7, WriteStep DEF IInv
<1>7. CASE UNCHANGED <<orders, trail, rows>>
  BY <1>1, <1>7, IdlePlain, PlainStep DEF IInv, orderTables
<1> QED BY <1>1, <1>6, <1>7

(* A stale advance or deliver may revive a cancelled order; it was sold once. *)
LEMMA VerbCommitFits ==
  ASSUME IInv, Deducts, NEW c \in Slot, VerbCommit(c)
  PROVE  Deducts'
<1> DEFINE to == IF call[c].op = "advance" THEN "COMPLETED" ELSE "DELIVERED"
<1>0. call[c].op \in {"advance", "deliver"}
  BY DEF VerbCommit
<1>2. PICK o \in Order : o = call[c].order
  BY <1>0, CallByOp DEF IInv, TypeOK, VerbCall
<1>1. /\ call' = [call EXCEPT ![c] = Idle]
      /\ orders' = [orders EXCEPT ![o] = to] /\ UNCHANGED <<rows, tasks>>
  BY <1>2 DEF VerbCommit
<1>3. Sold(o) = 1 /\ to \in {"COMPLETED", "DELIVERED"}
  BY <1>0, <1>2 DEF Deducts, CallFits
<1>4. OrderFits(o)
  BY <1>2 DEF Deducts
<1> HIDE DEF to
<1>5. orders[o] # "ABSENT"
  BY <1>3, <1>4 DEF OrderFits
<1>6. \A d \in Slot : call[d].op = "create" => call[d].order # o
  BY <1>2, <1>5, NobodyCreates
<1>7. orders'[o] = to /\ \A x \in Order : x # o => orders'[x] = orders[x]
  BY <1>1, <1>2 DEF IInv, TypeOK
<1>8. OrderFits(o)'
  BY <1>1, <1>3, <1>4, <1>7 DEF OrderFits, Sold, Making, Live
<1>10. \A x \in Order : x # o => /\ orders'[x] = orders[x]
                                  /\ rows'[x]["SALE"] = rows[x]["SALE"]
                                  /\ tasks'[x] = tasks[x]
  BY <1>1, <1>7
<1> DEFINE q == Idle
<1>9. /\ q.op \notin ReadsBack /\ call' = [call EXCEPT ![c] = q]
      /\ orders'[o] # "ABSENT"
  BY <1>1, <1>3, <1>7, IdlePlain
<1> HIDE DEF q
<1>11. Sold(o) = 1 => rows'[o]["SALE"] = 1
  BY <1>1 DEF Sold
<1> QED BY <1>6, <1>8, <1>9, <1>10, <1>11, WriteStep DEF IInv

(* Writing a task that is there neither sets up nor drops any.                *)
Rewrites(o, p, u) ==
  /\ tasks[o][p] # NoTask
  /\ u \in [Product -> TaskRow]
  /\ \A q \in Product : tasks[o][q] # NoTask => u[q] # NoTask
  /\ \A q \in Product : q # p => u[q] = tasks[o][q]

LEMMA TaskWrittenFits ==
  ASSUME IInv, Deducts, NEW c \in Slot, NEW o \in Order, NEW p \in Product,
         NEW u, Rewrites(o, p, u),
         tasks' = [tasks EXCEPT ![o] = u], NEW s \in AnyStatus,
         orders' = [orders EXCEPT ![o] = s], s # "ABSENT", s # "PENDING",
         call' = [call EXCEPT ![c] = Idle], rows' = rows
  PROVE  Deducts'
<1>1. OrderFits(o)
  BY DEF Deducts
<1>2. Sold(o) = 1
  BY <1>1 DEF OrderFits, Making, Rewrites
<1>3. orders[o] # "ABSENT"
  BY <1>1, <1>2 DEF OrderFits
<1>4. \A d \in Slot : call[d].op = "create" => call[d].order # o
  BY <1>3, NobodyCreates
<1>5. /\ orders'[o] = s /\ tasks'[o] = u
      /\ \A x \in Order : x # o => /\ orders'[x] = orders[x]
                                   /\ tasks'[x] = tasks[x]
  BY DEF IInv, TypeOK
<1>6. {q \in Product : u[q] # NoTask} = Making(o)
  BY DEF Making, Rewrites
<1>7. OrderFits(o)'
  BY <1>1, <1>2, <1>5, <1>6 DEF OrderFits, Sold, Making, Live
<1> DEFINE q == Idle
<1>8. /\ q.op \notin ReadsBack /\ call' = [call EXCEPT ![c] = q]
      /\ orders'[o] # "ABSENT"
  BY <1>5, IdlePlain
<1> HIDE DEF q
<1> QED BY <1>2, <1>4, <1>5, <1>7, <1>8, WriteStep DEF IInv, Sold

(* An order that has a task was sold, so it is past PENDING.                  *)
LEMMA TaskMeansSold ==
  ASSUME IInv, Deducts, NEW o \in Order, NEW p \in Product,
         tasks[o][p] # NoTask
  PROVE  orders[o] \in AnyStatus /\ orders[o] \notin {"ABSENT", "PENDING"}
<1>1. OrderFits(o) /\ p \in Making(o)
  BY DEF Deducts, Making
<1>2. Sold(o) = 1
  BY <1>1 DEF OrderFits
<1> QED BY <1>1, <1>2 DEF OrderFits, IInv, TypeOK

LEMMA AssignWriteFits ==
  ASSUME IInv, Deducts, NEW c \in Slot, AssignWrite(c)
  PROVE  Deducts'
<1>1. call[c].op = "assign"
  BY DEF AssignWrite
<1>2. call[c] \in AssignCall /\ tasks[call[c].order][call[c].product] # NoTask
  BY <1>1, CallByOp DEF IInv, TypeOK, FloorHasTask, FloorOp
<1>3. PICK o \in Order, p \in Product : o = call[c].order /\ p = call[c].product
  BY <1>2 DEF AssignCall
<1> DEFINE t == [tasks[o][p] EXCEPT !.worker = call[c].worker]
           u == [tasks[o] EXCEPT ![p] = t]
<1>4. tasks[o][p] \in TaskMade
  BY <1>2, <1>3 DEF IInv, TypeOK, TaskRow
<1>5. t \in TaskMade
  BY <1>2, <1>4 DEF AssignCall, TaskMade
<1>6. /\ tasks' = [tasks EXCEPT ![o] = u]
      /\ call' = [call EXCEPT ![c] = Idle]
      /\ orders' = orders /\ rows' = rows
  BY <1>3 DEF AssignWrite
<1> HIDE DEF t
<1>7. /\ u \in [Product -> TaskRow]
      /\ \A q \in Product : tasks[o][q] # NoTask => u[q] # NoTask
      /\ \A q \in Product : q # p => u[q] = tasks[o][q]
  BY <1>5, TaskMadeIsRow DEF IInv, TypeOK
<1>8. PICK s \in AnyStatus : s = orders[o] /\ s \notin {"ABSENT", "PENDING"}
  BY <1>2, <1>3, TaskMeansSold
<1>9. orders' = [orders EXCEPT ![o] = s]
  BY <1>6, <1>8 DEF IInv, TypeOK
<1>10. Rewrites(o, p, u)
  BY <1>2, <1>3, <1>7 DEF Rewrites
<1> HIDE DEF u
<1> QED BY <1>6, <1>8, <1>9, <1>10, TaskWrittenFits

(* The floor writes the status it derived, on an order that was sold.         *)
LEMMA ActCommitFits ==
  ASSUME IInv, Deducts, NEW c \in Slot, ActCommit(c)
  PROVE  Deducts'
<1>1. call[c].op = "floor"
  BY Zenon DEF ActCommit
<1>2. call[c] \in FloorCall /\ tasks[call[c].order][call[c].product] # NoTask
  BY <1>1, CallByOp DEF IInv, TypeOK, FloorHasTask, FloorOp
<1>3. PICK o \in Order, p \in Product, next \in TaskMade :
        o = call[c].order /\ p = call[c].product /\ next = call[c].next
  BY <1>2 DEF FloorCall
<1>4. PICK target \in OrderStatus \cup {"NONE", "UNREAD"} :
        target = call[c].target
  BY <1>2 DEF FloorCall
<1>5. target # "PENDING"
  BY <1>1, <1>4 DEF Deducts, CallFits
<1> DEFINE u == Updated(o, p, next)
<1>6. /\ target # "UNREAD"
      /\ tasks' = [tasks EXCEPT ![o] = u]
      /\ call' = [call EXCEPT ![c] = Idle]
      /\ rows' = rows
      /\ \/ target = "NONE" /\ orders' = orders
         \/ target # "NONE" /\ orders' = [orders EXCEPT ![o] = target]
  BY <1>3, <1>4, Zenon DEF ActCommit
<1>7. /\ u \in [Product -> TaskRow]
      /\ \A q \in Product : tasks[o][q] # NoTask => u[q] # NoTask
  BY <1>2, <1>3, UpdatedType DEF IInv
<1>8. \A q \in Product : q # p => u[q] = tasks[o][q]
  <2>1. tasks[o] \in [Product -> TaskRow]
    BY DEF IInv, TypeOK
  <2> DEFINE f == tasks[o]
             g == [f EXCEPT ![p].stage = next.stage, ![p].status = next.status,
                            ![p].started = @ \/ next.started]
  <2>2. u = g
    BY DEF Updated
  <2>3. \A q \in Product : q # p => g[q] = f[q]
    BY <2>1
  <2> QED BY <2>2, <2>3
<1>9. PICK s \in AnyStatus : s = orders[o] /\ s \notin {"ABSENT", "PENDING"}
  BY <1>2, <1>3, TaskMeansSold
<1>0. Rewrites(o, p, u)
  BY <1>2, <1>3, <1>7, <1>8 DEF Rewrites
<1> HIDE DEF u
<1>10. CASE target = "NONE"
  <2>1. orders' = [orders EXCEPT ![o] = s]
    BY <1>6, <1>9, <1>10 DEF IInv, TypeOK
  <2> QED BY <1>0, <1>6, <1>9, <2>1, TaskWrittenFits
<1>11. CASE target # "NONE"
  <2>1. target \in AnyStatus /\ target # "ABSENT"
    BY <1>6, <1>11 DEF AnyStatus, OrderStatus
  <2>2. orders' = [orders EXCEPT ![o] = target]
    BY <1>6, <1>11
  <2> QED BY <1>0, <1>5, <1>6, <2>1, <2>2, TaskWrittenFits
<1> QED BY <1>10, <1>11

(* confirmOrder finds the order PENDING under its lock: it was not sold yet.  *)
LEMMA ConfirmFits ==
  ASSUME IInv, Deducts, NEW c \in Slot, NEW o \in Order, ConfirmOrder(o),
         NEW q, q.op \notin ReadsBack, call' = [call EXCEPT ![c] = q]
  PROVE  Deducts'
<1>1. \/ UNCHANGED <<orders, trail, rows, tasks>>
      \/ /\ Confirmable(o)
         /\ orders' = [orders EXCEPT ![o] = "CONFIRMED"]
         /\ rows' = Counted(o, "SALE")
         /\ tasks' = [tasks EXCEPT ![o] = TasksForOrder(o)]
  BY Zenon DEF ConfirmOrder
<1>2. CASE UNCHANGED <<orders, trail, rows, tasks>>
  BY <1>2, PlainStep DEF IInv, orderTables
<1>3. CASE /\ Confirmable(o)
           /\ orders' = [orders EXCEPT ![o] = "CONFIRMED"]
           /\ rows' = Counted(o, "SALE")
           /\ tasks' = [tasks EXCEPT ![o] = TasksForOrder(o)]
  <2>1. orders[o] = "PENDING" /\ Sold(o) = 0 /\ Making(o) = {}
    BY <1>3 DEF Confirmable, Deducts, OrderFits
  <2>2. TasksForOrder(o) = FreshTasks(o)
    BY <2>1 DEF TasksForOrder, TasksOf, Making
  <2>3. {p \in Product : FreshTasks(o)[p] # NoTask} = Made \cap Lines(o)
    BY CartAssumption DEF FreshTasks, NoTask
  <2>4. /\ orders'[o] = "CONFIRMED"
        /\ tasks'[o] = FreshTasks(o)
        /\ rows'[o]["SALE"] = 1
    BY <1>3, <2>1, <2>2, CountedSales DEF IInv, TypeOK, Sold
  <2>5. \A x \in Order : x # o => /\ orders'[x] = orders[x]
                                  /\ rows'[x]["SALE"] = rows[x]["SALE"]
                                  /\ tasks'[x] = tasks[x]
    BY <1>3, CountedSales DEF IInv, TypeOK
  <2>6. OrderFits(o)'
    BY <2>3, <2>4 DEF OrderFits, Sold, Making, Live
  <2>7. \A d \in Slot : call[d].op = "create" => call[d].order # o
    BY <2>1, NobodyCreates
  <2>8. orders'[o] # "ABSENT" /\ (Sold(o) = 1 => rows'[o]["SALE"] = 1)
    BY <2>4
  <2> QED BY <2>5, <2>6, <2>7, <2>8, WriteStep DEF IInv
<1> QED BY <1>1, <1>2, <1>3

LEMMA ConfirmedFits ==
  ASSUME IInv, Deducts, NEW c \in Slot, PayConfirm(c) \/ NotifyConfirm(c)
  PROVE  Deducts'
<1>1. CASE PayConfirm(c)
  <2>1. call[c].order \in Order
    BY <1>1, CallByOp DEF IInv, TypeOK, PayConfirm, PayCall
  <2> DEFINE q == Idle
  <2>2. /\ ConfirmOrder(call[c].order) /\ call' = [call EXCEPT ![c] = q]
        /\ q.op \notin ReadsBack
    BY <1>1, IdlePlain, Zenon DEF PayConfirm
  <2> HIDE DEF q
  <2> QED BY <2>1, <2>2, ConfirmFits
<1>2. CASE NotifyConfirm(c)
  <2> DEFINE q == IF ConfirmThrows(call[c].order) THEN Idle
                  ELSE [call[c] EXCEPT !.step = "finish"]
  <2>1. /\ call[c].op = "notify" /\ ConfirmOrder(call[c].order)
        /\ call' = [call EXCEPT ![c] = q]
    BY <1>2, Zenon DEF NotifyConfirm
  <2>2. call[c] \in NotifyCall
    BY <2>1, CallByOp DEF IInv, TypeOK
  <2>3. call[c].order \in Order /\ q.op \notin ReadsBack
    BY <2>1, <2>2, IdlePlain DEF NotifyCall, ReadsBack
  <2> HIDE DEF q
  <2> QED BY <2>1, <2>3, ConfirmFits
<1> QED BY <1>1, <1>2

LEMMA ContinueFits ==
  ASSUME IInv, Deducts, NEW c \in Slot, Continue(c)
  PROVE  Deducts'
  BY CreateCommitFits, CancelCommitFits, VerbCommitFits, AssignWriteFits,
     FloorReadFits, ActCommitFits, MoneyFits, ConfirmedFits, Zenon
  DEF Continue

LEMMA DeductsStart == Init => Deducts
<1> SUFFICES ASSUME Init PROVE Deducts
  OBVIOUS
<1>1. \A o \in Order : OrderFits(o)
  BY DEF Init, OrderFits, Sold, Making, Live, OrderStatus
<1>2. \A c \in Slot : call[c].op \notin ReadsBack
  BY IdlePlain DEF Init
<1> QED BY <1>1, <1>2 DEF Deducts, CallFits, ReadsBack

LEMMA DeductsKept ==
  ASSUME IInv, Deducts, [Next]_vars
  PROVE  Deducts'
<1>1. ASSUME NEW c \in Slot, Accept(c) PROVE Deducts'
  BY <1>1, AcceptFits
<1>2. ASSUME NEW c \in Slot, Continue(c) PROVE Deducts'
  BY <1>2, ContinueFits
<1>3. CASE UNCHANGED <<orderTables, call>>
  BY <1>3
  DEF orderTables, Deducts, OrderFits, CallFits, Sold, Making
<1>4. CASE StockKeeping \/ PayHere \/ UNCHANGED vars
  <2>1. UNCHANGED <<orderTables, call>>
    BY <1>4, Zenon
    DEF StockKeeping, Adjust, SetMinimum, EditSizes, PayHere, Attempt, vars
  <2> QED BY <1>3, <2>1
<1>5. CASE Restart
  <2>1. /\ UNCHANGED <<orders, rows, tasks>>
        /\ \A c \in Slot : call'[c].op \notin ReadsBack
    BY <1>5, IdlePlain DEF Restart, orderTables
  <2>2. \A o \in Order : OrderFits(o)'
    BY <2>1 DEF Deducts, OrderFits, Sold, Making
  <2> QED BY <2>1, <2>2 DEF Deducts, CallFits, ReadsBack
<1> QED BY <1>1, <1>2, <1>4, <1>5 DEF Next

(* confirmOrder (orders.service.ts) is idempotent: webhooks, cash on delivery *)
(* and admins confirming one order at the same time, with cancellations and   *)
(* the floor in between, deduct it once and set its making up once.           *)
THEOREM DeductsOnce == Spec => []DeductedOnce
<1>1. IInv /\ Deducts => DeductedOnce
  BY DEF Deducts, OrderFits, Sold, Making, DeductedOnce, Live
<1>2. IInv /\ Deducts /\ [Next]_vars => Deducts'
  BY DeductsKept
<1> QED BY InitTypes, NextTypes, DeductsStart, <1>1, <1>2, PTL DEF Spec

------------------------------------------------------------------------------
(* The event rows.                                                            *)
EventOf(q) == <<q.order, q.txn, q.code>>

(* A step that leaves the events alone and starts no delivery.                *)
LEMMA NoDelivery ==
  ASSUME IInv, EventActedOnOnce, NEW c \in Slot, NEW q,
         call' = [call EXCEPT ![c] = q], events' = events,
         q.op = "notify" =>
           call[c].op = "notify" /\ EventOf(q) = EventOf(call[c])
  PROVE  EventActedOnOnce'
<1>1. \A d \in Slot : call'[d] = IF d = c THEN q ELSE call[d]
  BY DEF IInv, TypeOK
<1>2. \A d \in Slot : call'[d].op = "notify" =>
        call[d].op = "notify" /\ EventOf(call'[d]) = EventOf(call[d])
  BY <1>1
<1>3. \A d \in Slot : call[d].op = "notify" =>
        /\ events[EventOf(call[d])] = "RECORDED"
        /\ \A e \in Slot \ {d} : call[e].op = "notify" =>
             EventOf(call[d]) # EventOf(call[e])
  BY DEF EventActedOnOnce, EventOf
<1>4. \A d \in Slot : call'[d].op = "notify" =>
        /\ events'[EventOf(call'[d])] = "RECORDED"
        /\ \A e \in Slot \ {d} : call'[e].op = "notify" =>
             EventOf(call'[d]) # EventOf(call'[e])
  BY <1>2, <1>3
<1> QED BY <1>4 DEF EventActedOnOnce, EventOf

LEMMA IdleDelivers ==
  ASSUME IInv, EventActedOnOnce, NEW c \in Slot,
         call' = [call EXCEPT ![c] = Idle], events' = events
  PROVE  EventActedOnOnce'
<1> DEFINE q == Idle
<1>1. q.op # "notify" /\ call' = [call EXCEPT ![c] = q]
  BY DEF Idle
<1> HIDE DEF q
<1> QED BY <1>1, NoDelivery

(* The unique key lets one delivery in.                                       *)
LEMMA DeliveryStarts ==
  ASSUME IInv, EventActedOnOnce, NEW c \in Slot, NEW o \in Order,
         NEW t \in Txn, NEW code \in StatusCode, NotifyRecord(c, o, t, code)
  PROVE  EventActedOnOnce'
<1> DEFINE q == [op |-> "notify", order |-> o, txn |-> t, code |-> code,
                 step |-> "write"]
           e == <<o, t, code>>
<1>1. /\ call' = [call EXCEPT ![c] = q]
      /\ events' = [events EXCEPT ![e] = "RECORDED"]
      /\ events[e] = "ABSENT"
  BY DEF NotifyRecord, FirstDelivery
<1>2. EventOf(q) = e /\ e \in Event /\ q.op = "notify"
  BY DEF EventOf, Event
<1> HIDE DEF q, e
<1>3. \A d \in Slot : call[d].op = "notify" =>
        /\ events[EventOf(call[d])] = "RECORDED"
        /\ \A x \in Slot \ {d} : call[x].op = "notify" =>
             EventOf(call[d]) # EventOf(call[x])
  BY DEF EventActedOnOnce, EventOf
<1>4. \A d \in Slot : call'[d] = IF d = c THEN q ELSE call[d]
  BY <1>1 DEF IInv, TypeOK
<1>5. \A f : f # e => events'[f] = events[f]
  BY <1>1 DEF IInv, TypeOK
<1>6. events'[e] = "RECORDED"
  BY <1>1, <1>2 DEF IInv, TypeOK
<1>7. \A d \in Slot \ {c} : call[d].op = "notify" => EventOf(call[d]) # e
  BY <1>1, <1>3
<1>8. \A d \in Slot : call'[d].op = "notify" =>
        /\ events'[EventOf(call'[d])] = "RECORDED"
        /\ \A x \in Slot \ {d} : call'[x].op = "notify" =>
             EventOf(call'[d]) # EventOf(call'[x])
  BY <1>2, <1>3, <1>4, <1>5, <1>6, <1>7
<1> QED BY <1>8 DEF EventActedOnOnce, EventOf

(* Its end marks an event nobody else is working on.                          *)
LEMMA DeliveryEnds ==
  ASSUME IInv, EventActedOnOnce, NEW c \in Slot, NotifyFinish(c)
  PROVE  EventActedOnOnce'
<1>1. PICK e : e = EventOf(call[c])
  OBVIOUS
<1>2. /\ call[c].op = "notify" /\ call' = [call EXCEPT ![c] = Idle]
      /\ events' = [events EXCEPT ![e] = "PROCESSED"]
  BY <1>1 DEF NotifyFinish, EventOf
<1>3. \A d \in Slot : call[d].op = "notify" =>
        /\ events[EventOf(call[d])] = "RECORDED"
        /\ \A x \in Slot \ {d} : call[x].op = "notify" =>
             EventOf(call[d]) # EventOf(call[x])
  BY DEF EventActedOnOnce, EventOf
<1> DEFINE q == Idle
<1>4. q.op # "notify"
  BY DEF Idle
<1>5. \A d \in Slot : call'[d] = IF d = c THEN q ELSE call[d]
  BY <1>2 DEF IInv, TypeOK
<1> HIDE DEF q
<1>6. \A f : f # e => events'[f] = events[f]
  BY <1>2 DEF IInv, TypeOK
<1>7. \A d \in Slot : call'[d].op = "notify" =>
        /\ events'[EventOf(call'[d])] = "RECORDED"
        /\ \A x \in Slot \ {d} : call'[x].op = "notify" =>
             EventOf(call'[d]) # EventOf(call'[x])
  BY <1>1, <1>2, <1>3, <1>4, <1>5, <1>6
<1> QED BY <1>7 DEF EventActedOnOnce, EventOf

LEMMA AcceptDelivers ==
  ASSUME IInv, EventActedOnOnce, NEW c \in Slot, Accept(c)
  PROVE  EventActedOnOnce'
<1>1. ASSUME NEW q, call' = [call EXCEPT ![c] = q], events' = events,
             q.op # "notify"
      PROVE  EventActedOnOnce'
  BY <1>1, NoDelivery
<1>2. ASSUME NEW o \in Order, CreateRead(c, o) PROVE EventActedOnOnce'
  <2> DEFINE q == [op |-> "create", order |-> o,
                  sizes |-> [p \in Product |-> stock[p].sizes]]
  <2>1. /\ call' = [call EXCEPT ![c] = q] /\ events' = events
        /\ q.op # "notify"
    BY <1>2 DEF CreateRead, moneyTables
  <2> HIDE DEF q
  <2> QED BY <1>1, <2>1
<1>3. ASSUME NEW o \in Order, NEW actor, NEW ack, CancelRead(c, o, actor, ack)
      PROVE  EventActedOnOnce'
  <2> DEFINE q == [op |-> "cancel", order |-> o, saw |-> orders[o],
                  pay |-> payment[o], partPaid |-> dues[o] = "COMPLETED"]
  <2>1. /\ call' = [call EXCEPT ![c] = q] /\ events' = events
        /\ q.op # "notify"
    BY <1>3 DEF CancelRead, moneyTables
  <2> HIDE DEF q
  <2> QED BY <1>1, <2>1
<1>4. ASSUME NEW o \in Order, NEW verb \in {"advance", "deliver"},
             VerbRead(c, o, verb)
      PROVE  EventActedOnOnce'
  <2> DEFINE q == [op |-> verb, order |-> o]
  <2>1. /\ call' = [call EXCEPT ![c] = q] /\ events' = events
        /\ q.op # "notify"
    BY <1>4 DEF VerbRead, moneyTables
  <2> HIDE DEF q
  <2> QED BY <1>1, <2>1
<1>5. ASSUME NEW o \in Order,
             NEW op \in {"payhere", "installments", "cod", "mark", "reject"},
             PayRead(c, o, op)
      PROVE  EventActedOnOnce'
  <2> DEFINE q == [op |-> op, order |-> o, step |-> "write"]
  <2>1. /\ call' = [call EXCEPT ![c] = q] /\ events' = events
        /\ q.op # "notify"
    BY <1>5 DEF PayRead
  <2> HIDE DEF q
  <2> QED BY <1>1, <2>1
<1>6. ASSUME NEW o \in Order, StripeSucceeded(c, o) PROVE EventActedOnOnce'
  <2> DEFINE q == [op |-> "stripe", order |-> o, step |-> "settle"]
  <2>1. /\ call' = [call EXCEPT ![c] = q] /\ events' = events
        /\ q.op # "notify"
    BY <1>6 DEF StripeSucceeded
  <2> HIDE DEF q
  <2> QED BY <1>1, <2>1
<1>7. ASSUME NEW o \in Order, NEW p \in Product, NEW w \in Worker,
             AssignRead(c, o, p, w)
      PROVE  EventActedOnOnce'
  <2> DEFINE q == [op |-> "assign", order |-> o, product |-> p, worker |-> w]
  <2>1. /\ call' = [call EXCEPT ![c] = q] /\ events' = events
        /\ q.op # "notify"
    BY <1>7 DEF AssignRead, moneyTables
  <2> HIDE DEF q
  <2> QED BY <1>1, <2>1
<1>8. ASSUME NEW o \in Order, NEW p \in Product, NEW action \in TaskAction,
             NEW actor, ActRead(c, o, p, action, actor)
      PROVE  EventActedOnOnce'
  <2> DEFINE q == [op |-> "act", order |-> o, product |-> p,
                  next |-> Acted(tasks[o][p], action)]
  <2>1. /\ call' = [call EXCEPT ![c] = q] /\ events' = events
        /\ q.op # "notify"
    BY <1>8 DEF ActRead, moneyTables
  <2> HIDE DEF q
  <2> QED BY <1>1, <2>1
<1> QED BY <1>2, <1>3, <1>4, <1>5, <1>6, <1>7, <1>8, DeliveryStarts, Zenon
        DEF Accept

LEMMA ContinueDelivers ==
  ASSUME IInv, EventActedOnOnce, NEW c \in Slot, Continue(c)
  PROVE  EventActedOnOnce'
<1>1. CASE \/ CreateCommit(c) \/ CancelCommit(c) \/ VerbCommit(c)
           \/ AssignWrite(c) \/ ActCommit(c) \/ PayConfirm(c)
  <2>1. call' = [call EXCEPT ![c] = Idle] /\ events' = events
    BY <1>1, Zenon DEF CreateCommit, CancelCommit, VerbCommit, AssignWrite,
                       ActCommit, PayConfirm, moneyTables
  <2> QED BY <2>1, IdleDelivers
<1>2. CASE ActUpdate(c)
  <2> DEFINE r == call[c]
             q == [op |-> "floor", order |-> r.order, product |-> r.product,
                   next |-> r.next, saw |-> orders[r.order],
                   target |-> "UNREAD"]
  <2>1. /\ call' = [call EXCEPT ![c] = q] /\ events' = events
        /\ q.op # "notify"
    BY <1>2, Zenon DEF ActUpdate, moneyTables
  <2> HIDE DEF q
  <2> QED BY <2>1, NoDelivery
<1>3. CASE ActDerive(c)
  <2> DEFINE r == call[c]
             target == SyncTarget(r.saw, Updated(r.order, r.product, r.next))
             q == [r EXCEPT !.target = target]
  <2>1. /\ r.op = "floor" /\ events' = events
        /\ \/ call' = [call EXCEPT ![c] = q]
           \/ call' = [call EXCEPT ![c] = Idle]
    BY <1>3, Zenon DEF ActDerive, moneyTables
  <2>2. r \in FloorCall
    BY <2>1, CallByOp DEF IInv, TypeOK
  <2> HIDE DEF target
  <2>3. q.op # "notify"
    BY <2>2 DEF FloorCall
  <2> HIDE DEF q
  <2> QED BY <2>1, <2>3, NoDelivery, IdleDelivers
<1>4. CASE PayWrite(c) \/ StripeSettle(c)
  <2> DEFINE r == call[c]
             q == [r EXCEPT !.step = "confirm"]
  <2>1. /\ r.op # "notify" /\ events' = events
        /\ r.op \in {"payhere", "installments", "cod", "mark", "reject",
                     "stripe"}
        /\ \/ call' = [call EXCEPT ![c] = q]
           \/ call' = [call EXCEPT ![c] = Idle]
    BY <1>4 DEF PayWrite, StripeSettle
  <2>2. r \in PayCall
    BY <2>1, CallByOp DEF IInv, TypeOK
  <2>3. q.op # "notify"
    BY <2>1, <2>2 DEF PayCall
  <2> HIDE DEF q
  <2> QED BY <2>1, <2>3, NoDelivery, IdleDelivers
<1>5. CASE NotifyWrite(c) \/ NotifyConfirm(c)
  <2> DEFINE r == call[c]
  <2>1. /\ r.op = "notify" /\ events' = events
        /\ \/ call' = [call EXCEPT ![c] = [r EXCEPT !.step = "confirm"]]
           \/ call' = [call EXCEPT ![c] = [r EXCEPT !.step = "finish"]]
           \/ call' = [call EXCEPT ![c] = Idle]
    BY <1>5, Zenon DEF NotifyWrite, NotifyConfirm, moneyTables
  <2>2. r \in NotifyCall
    BY <2>1, CallByOp DEF IInv, TypeOK
  <2>3. ASSUME NEW step \in {"confirm", "finish"},
               call' = [call EXCEPT ![c] = [r EXCEPT !.step = step]]
        PROVE  EventActedOnOnce'
    <3> DEFINE q == [r EXCEPT !.step = step]
    <3>1. q.op = "notify" /\ EventOf(q) = EventOf(r)
      BY <2>2 DEF NotifyCall, EventOf
    <3>2. call' = [call EXCEPT ![c] = q]
      BY <2>3
    <3> HIDE DEF q
    <3> QED BY <2>1, <3>1, <3>2, NoDelivery
  <2> QED BY <2>1, <2>3, IdleDelivers
<1>6. CASE NotifyFinish(c)
  BY <1>6, DeliveryEnds
<1> QED BY <1>1, <1>2, <1>3, <1>4, <1>5, <1>6, Zenon DEF Continue

LEMMA EventsKept ==
  ASSUME IInv, EventActedOnOnce, [Next]_vars
  PROVE  EventActedOnOnce'
<1>1. ASSUME NEW c \in Slot, Accept(c) PROVE EventActedOnOnce'
  BY <1>1, AcceptDelivers
<1>2. ASSUME NEW c \in Slot, Continue(c) PROVE EventActedOnOnce'
  BY <1>2, ContinueDelivers
<1>3. CASE StockKeeping \/ PayHere \/ UNCHANGED vars
  <2>1. events' = events /\ call' = call
    BY <1>3, Zenon DEF StockKeeping, Adjust, SetMinimum, EditSizes, PayHere,
                       Attempt, vars, moneyTables
  <2> QED BY <2>1 DEF EventActedOnOnce
<1>4. CASE Restart
  <2>1. \A c \in Slot : call'[c] = Idle
    BY <1>4 DEF Restart
  <2> QED BY <2>1 DEF EventActedOnOnce, Idle
<1> QED BY <1>1, <1>2, <1>3, <1>4 DEF Next

(* payment_webhook_events has a unique key over what identifies an event:     *)
(* however often PayHere delivers it, and however the deliveries and restarts *)
(* interleave, one delivery at a time works on it, and none after it is done. *)
THEOREM EventsOnce == Spec => []EventActedOnOnce
<1>1. Init => EventActedOnOnce
  BY DEF Init, EventActedOnOnce, Idle
<1>2. IInv /\ EventActedOnOnce /\ [Next]_vars => EventActedOnOnce'
  BY EventsKept
<1> QED BY InitTypes, NextTypes, <1>1, <1>2, PTL DEF Spec
=============================================================================
