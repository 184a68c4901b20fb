------------------------------- MODULE Tables --------------------------------
(* The PostgreSQL tables the services share (backend/prisma/schema.prisma),   *)
(* and the HTTP requests the API is serving.  A row that two statements of    *)
(* one request read and later write is what makes this code hard, so a        *)
(* request in flight is a record of what it has read so far.                  *)
EXTENDS Integers, FiniteSets, FiniteSetsExt, ProductionMachine

CONSTANTS
  Product,      \* rows of products, each with its inventory row
  Made,         \* the products that go through the production floor
  Size,         \* keys of products.attributes.sizeStock
  Order,        \* identities of the orders customers will place
  Cart,         \* Cart[o][p]: units of p on order o (0: not on it)
  CartSize,     \* CartSize[o]: the size its lines ask for, or NoSize
  NoSize,
  Worker, NoWorker,
  Txn,          \* PayHere transaction identities (payment_id)
  Slot,         \* requests the API serves at the same time
  Ops,          \* the endpoints exercised
  OpeningStock, \* units each product is created with
  OpeningSizes, \* and how they divide over the sizes, if it has sizes
  MaxMoved,     \* bound on what admins move by hand, per movement type
  MaxCrashes    \* bound on restarts of the API process

ASSUME CartAssumption ==
  /\ Made \subseteq Product
  /\ Cart \in [Order -> [Product -> Nat]]
  /\ CartSize \in [Order -> Size \cup {NoSize}]
(* products.service.ts create: with a sizeStock, the stock is its total.     *)
Total(sizes) == MapThenSumSet(LAMBDA z : sizes[z], Size)
ASSUME StockAssumption ==
  /\ OpeningStock \in [Product -> Nat]
  /\ OpeningSizes \in [Product -> [Size -> Nat]]
  /\ Size # {} => \A p \in Product : OpeningStock[p] = Total(OpeningSizes[p])
  /\ MaxMoved \in Nat
ASSUME FreshNames == NoWorker \notin Worker /\ NoSize \notin Size

VARIABLES
  stock,        \* inventory row, product cache and movement ledger of a product
  orders,       \* orders.status, "ABSENT" before the row exists
  trail,        \* the newest order_status_history row: <<from, to>>
  rows,         \* movement rows carrying the order's id, per line and type
  tasks,        \* production_tasks, keyed by order and product
  payment,      \* the order's payments row
  dues,         \* status of its installments, the first one first
  events,       \* payment_webhook_events
  gateway,      \* PayHere's side: what became of each payment attempt
  call,         \* the request each slot is serving
  crashes       \* restarts so far

orderTables == <<orders, trail, rows, tasks>>
moneyTables == <<payment, dues, events, gateway>>
vars == <<stock, orderTables, moneyTables, call, crashes>>

MovementType == {"INITIAL", "PURCHASE", "ADJUSTMENT", "DAMAGE",
                 "RESERVE", "RELEASE", "SALE"}
PaymentStatus == {"PENDING", "COMPLETED", "FAILED", "REFUNDED"}
Method == {"NONE", "COD", "PAYHERE", "INSTALLMENT"}
StatusCode == {"2", "-2"}    \* paid; failed, cancelled or charged back

Lines(o)  == {p \in Product : Cart[o][p] > 0}
NoPayment == [status |-> "NONE", plan |-> "FULL", method |-> "NONE"]
NoTask    == [stage |-> "NONE", status |-> "NONE", started |-> FALSE,
              worker |-> NoWorker]
Idle      == [op |-> "idle"]
TasksOf(o) == {tasks[o][p] : p \in {q \in Product : tasks[o][q] # NoTask}}

------------------------------------------------------------------------------
(* Row types.                                                                 *)
StockRow ==
  [available : Int, reserved : Int, minimum : Nat, notified : BOOLEAN,
   cache : Int, sizes : [Size -> Int], moved : [MovementType -> Int]]
AnyStatus == OrderStatus \cup {"ABSENT"}
TaskMade ==
  [stage : Stage, status : TaskStatus, started : BOOLEAN,
   worker : Worker \cup {NoWorker}]
TaskRow == {NoTask} \cup TaskMade
PaymentRow ==
  [status : PaymentStatus \cup {"NONE"}, plan : {"FULL", "INSTALLMENT"},
   method : Method]
Event == Order \X Txn \X StatusCode

(* What a request in flight has read.                                         *)
CreateCall  == [op : {"create"}, order : Order,
                sizes : [Product -> [Size -> Int]]]
CancelCall  == [op : {"cancel"}, order : Order, saw : OrderStatus,
                pay : PaymentRow, partPaid : BOOLEAN]
VerbCall    == [op : {"advance", "deliver"}, order : Order]
PayCall     == [op : {"payhere", "installments", "cod", "stripe", "mark",
                      "reject"},
                order : Order, step : {"write", "settle", "confirm"}]
NotifyCall  == [op : {"notify"}, order : Order, txn : Txn, code : StatusCode,
                step : {"write", "confirm", "finish"}]
AssignCall  == [op : {"assign"}, order : Order, product : Product,
                worker : Worker]
ActCall     == [op : {"act"}, order : Order, product : Product, next : TaskMade]
FloorCall   == [op : {"floor"}, order : Order, product : Product,
                next : TaskMade, saw : AnyStatus,
                target : OrderStatus \cup {"NONE", "UNREAD"}]
Call == {Idle} \cup CreateCall \cup CancelCall \cup VerbCall \cup PayCall
        \cup NotifyCall \cup AssignCall \cup ActCall \cup FloorCall

TypeOK ==
  /\ stock \in [Product -> StockRow]
  /\ orders \in [Order -> AnyStatus]
  /\ trail \in [Order -> AnyStatus \X AnyStatus]
  /\ rows \in [Order -> [{"RESERVE", "SALE", "RELEASE", "ADJUSTMENT"} -> Nat]]
  /\ tasks \in [Order -> [Product -> TaskRow]]
  /\ payment \in [Order -> PaymentRow]
  /\ dues \in [Order -> {"NONE"} \cup PaymentStatus]
  /\ events \in [Event -> {"ABSENT", "RECORDED", "PROCESSED"}]
  /\ gateway \in [Order -> [Txn -> {"NONE", "OPEN", "PAID", "DECLINED"}]]
  /\ call \in [Slot -> Call]
  /\ crashes \in Nat
=============================================================================
