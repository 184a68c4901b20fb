------------------------------- MODULE RowLocks ------------------------------
(* The rows each transaction of the backend locks, in the order its code      *)
(* touches them, under PostgreSQL's row locks.  Two transactions that want    *)
(* each other's rows wait until PostgreSQL notices and rolls one of them      *)
(* back: that request fails, and nothing retries it.                          *)
EXTENDS Integers, Sequences, FiniteSets, SequencesExt

CONSTANTS
  Lines,          \* the products of each order, in the order of its cart
  Slot            \* transactions, numbered in the order they arrive

VARIABLES
  orderStatus,    \* orders: the status of each
  planned,        \* orders that have an installment plan
  tx              \* the transactions

lockVars == <<orderStatus, planned, tx>>

OrderId == DOMAIN Lines
Stocked == UNION {ToSet(Lines[o]) : o \in OrderId}

ASSUME LockAssumption ==
  /\ Slot \subseteq Nat
  /\ \A o \in OrderId : Lines[o] \in Seq(Stocked) /\ IsInjective(Lines[o])

(* A row is locked to be referred to by a foreign key, to be updated, or      *)
(* exclusively, by FOR UPDATE and DELETE.                                     *)
Want(table, key, mode) == [table |-> table, key |-> key, mode |-> mode]
SameRow(a, b) == a.table = b.table /\ a.key = b.key
Clash(a, b) ==
  /\ SameRow(a, b)
  /\ \/ "exclusive" \in {a.mode, b.mode}
     \/ a.mode = "update" /\ b.mode = "update"

------------------------------------------------------------------------------
(* What each transaction locks, and in which order.  A movement refers to its *)
(* order; a product's slug and sku are keys, so an edit that changes them     *)
(* locks the row exclusively.                                                 *)
InventoryOf(p, mode) == Want("inventory", p, mode)
ProductOf(p, mode)   == Want("products", p, mode)
OrderOf(o, mode)     == Want("orders", o, mode)

CheckoutRows(lines) ==
  [i \in DOMAIN lines |-> ProductOf(lines[i], "refer")]
    \o FlattenSeq([i \in DOMAIN lines |-> <<InventoryOf(lines[i], "update"),
                                            ProductOf(lines[i], "update")>>])

ConfirmRows(o, lines) ==
  <<OrderOf(o, "exclusive")>>
    \o [i \in DOMAIN lines |-> InventoryOf(lines[i], "update")]

\* An order without a plan may have a payment, which is voided too if due.
CancelRows(o, lines, due) ==
  FlattenSeq([i \in DOMAIN lines |-> <<InventoryOf(lines[i], "update"),
                                       OrderOf(o, "refer"),
                                       ProductOf(lines[i], "update")>>])
    \o <<OrderOf(o, "update")>>
    \o (IF o \in planned THEN <<Want("installments", o, "update"),
                                Want("payments", o, "update")>>
        ELSE IF due      THEN <<Want("payments", o, "update")>>
                         ELSE <<>>)

PlanRows(o) ==
  <<Want("payments", o, "update")>>
    \o (IF o \in planned THEN <<>> ELSE <<OrderOf(o, "refer")>>)
    \o <<Want("installments", o, "update")>>

ActRows(o) == <<Want("production_tasks", o, "update"), OrderOf(o, "update")>>

CacheFirst(p) == <<ProductOf(p, "update"), InventoryOf(p, "exclusive")>>
AdjustRows(p) == <<InventoryOf(p, "exclusive"), ProductOf(p, "update")>>

EditRows(p, mode) == <<ProductOf(p, mode), InventoryOf(p, "update")>>

DeleteRows(p) == <<ProductOf(p, "exclusive"), InventoryOf(p, "exclusive")>>

------------------------------------------------------------------------------
Transaction(op, key, wants) ==
  [op |-> op, key |-> key, wants |-> wants, held |-> {}]
Unopened == Transaction("none", "none", <<>>)
Over == Transaction("over", "none", <<>>)

RowLocksTypeOK ==
  /\ orderStatus \in
       [OrderId -> {"NONE", "PENDING", "CONFIRMED", "CANCELLED"}]
  /\ \A o \in planned : orderStatus[o] # "NONE"
  /\ \A s \in Slot : \A lock \in tx[s].held :
       lock.mode \in {"refer", "update", "exclusive"}

\* The plans of different orders share no row: with none or with all of them.
RowLocksInit ==
  /\ orderStatus \in [OrderId -> {"NONE", "PENDING"}]
  /\ planned \in {{}, {o \in OrderId : orderStatus[o] = "PENDING"}}
  /\ tx = [s \in Slot |-> Unopened]

Opens(s, op, key, wants) ==
  /\ tx[s] = Unopened
  /\ \A before \in Slot : before < s => tx[before] # Unopened
  /\ tx' = [tx EXCEPT ![s] = Transaction(op, key, wants)]
  /\ UNCHANGED <<orderStatus, planned>>

\* The lines come back in no order the code asks for, but at checkout.
AnyOrder(o) == SetToSeqs(ToSet(Lines[o]))

OpensOnOrder(s, o) ==
  \/ /\ orderStatus[o] = "NONE"
     /\ ~ \E t \in Slot : tx[t].op = "checkout" /\ tx[t].key = o
     /\ Opens(s, "checkout", o, CheckoutRows(Lines[o]))
  \/ /\ orderStatus[o] # "NONE"
     /\ \/ Opens(s, "plan", o, PlanRows(o))
        \/ \E lines \in AnyOrder(o) :
             Opens(s, "confirm", o, ConfirmRows(o, lines))
  \/ /\ orderStatus[o] \in {"PENDING", "CONFIRMED"}
     /\ \E lines \in AnyOrder(o), due \in BOOLEAN :
          Opens(s, "cancel", o, CancelRows(o, lines, due))
  \/ orderStatus[o] = "CONFIRMED" /\ Opens(s, "act", o, ActRows(o))

OpensOnProduct(s, p) ==
  \/ Opens(s, "adjust", p, AdjustRows(p))
  \/ \E mode \in {"update", "exclusive"} :
       Opens(s, "edit", p, EditRows(p, mode))
  \/ /\ \A o \in OrderId : orderStatus[o] # "NONE" => p \notin ToSet(Lines[o])
     /\ Opens(s, "hardDelete", p, DeleteRows(p))

\* t holds a lock that keeps s from its next row.
Blocks(t, s) ==
  /\ t # s /\ tx[s].wants # <<>>
  /\ \E lock \in tx[t].held : Clash(lock, Head(tx[s].wants))

Locks(s) ==
  /\ tx[s].wants # <<>>
  /\ ~ \E t \in Slot : Blocks(t, s)
  /\ tx' = [tx EXCEPT ![s].held = @ \cup {Head(tx[s].wants)},
                      ![s].wants = Tail(@)]
  /\ UNCHANGED <<orderStatus, planned>>

\* confirmOrder has the order's row: another request has confirmed or
\* cancelled it.
FindsSettled(s) ==
  /\ tx[s].op = "confirm" /\ tx[s].held # {}
  /\ orderStatus[tx[s].key] # "PENDING"
  /\ tx' = [tx EXCEPT ![s] = Over]
  /\ UNCHANGED <<orderStatus, planned>>

Moved(o, status) == [orderStatus EXCEPT ![o] = status]

Commits(s) ==
  LET t == tx[s] IN
  /\ t.wants = <<>> /\ t.held # {}
  /\ tx' = [tx EXCEPT ![s] = Over]
  /\ orderStatus' = CASE t.op = "checkout" -> Moved(t.key, "PENDING")
                      [] t.op = "confirm"  -> Moved(t.key, "CONFIRMED")
                      [] t.op = "cancel"   -> Moved(t.key, "CANCELLED")
                      [] OTHER             -> orderStatus
  /\ planned' = IF t.op = "plan" THEN planned \cup {t.key} ELSE planned

\* A guarded UPDATE matched no row, or PostgreSQL chose this transaction.
RollsBack(s) ==
  /\ tx[s].held # {}
  /\ tx' = [tx EXCEPT ![s] = Over]
  /\ UNCHANGED <<orderStatus, planned>>

RowLocksNext ==
  \E s \in Slot :
    \/ \E o \in OrderId : OpensOnOrder(s, o)
    \/ \E p \in Stocked : OpensOnProduct(s, p)
    \/ Locks(s) \/ FindsSettled(s) \/ Commits(s) \/ RollsBack(s)

RowLocksSpec == RowLocksInit /\ [][RowLocksNext]_lockVars

------------------------------------------------------------------------------
Deadlocked(S) == S # {} /\ \A s \in S : \E t \in S : Blocks(t, s)

\* The orders of rows the code has that cross.
Together(s, t, op, others) ==
  tx[s].op = op /\ tx[t].op \in others /\ tx[s].key = tx[t].key
OnStock(s) ==
  CASE tx[s].op \in {"checkout", "cancel", "confirm"} -> ToSet(Lines[tx[s].key])
    [] tx[s].op \in {"adjust", "edit", "hardDelete"}   -> {tx[s].key}
    [] OTHER -> {}

Cross(s, t) ==
  \/ Cardinality(OnStock(s) \cap OnStock(t)) > 1
  \/ Together(s, t, "cancel", {"confirm", "plan"})
  \/ /\ tx[s].op = "edit" /\ tx[t].op \in {"checkout", "cancel", "adjust"}
     /\ tx[s].key \in OnStock(t)
  \/ /\ tx[s].op = "hardDelete" /\ tx[t].op \in {"cancel", "adjust"}
     /\ tx[s].key \in OnStock(t)

(* Transactions deadlock only where two of them are known to take their rows  *)
(* in opposite orders: carts that share several products, a cancellation      *)
(* beside the confirmation or a new plan of the same order, and an edit or a  *)
(* deletion of a product beside what moves its stock.  Everything else, the   *)
(* corrections of stock and the confirmations of different orders above all,  *)
(* waits and goes on.                                                         *)
DeadlocksAreKnown ==
  \A S \in SUBSET Slot : Deadlocked(S) => \E s, t \in S : Cross(s, t)
=============================================================================
