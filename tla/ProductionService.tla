-------------------------- MODULE ProductionService --------------------------
(* backend/src/production/production.service.ts.  act() is one transaction,   *)
(* but at READ COMMITTED: it reads its task without a lock, the UPDATE then   *)
(* takes the row's lock, and syncOrderStatus reads the order, then its tasks, *)
(* each as last committed.  So act is four steps: read, update, derive,       *)
(* commit.                                                                    *)
EXTENDS InventoryService

(* createTasksForOrder: one task per line that needs making; a second call    *)
(* finds tasks and creates nothing.                                           *)
FreshTasks(o) ==
  [p \in Product |-> IF p \in Made \cap Lines(o)
     THEN [stage |-> "CUTTING", status |-> "PENDING", started |-> FALSE,
           worker |-> NoWorker]
     ELSE NoTask]
TasksForOrder(o) == IF TasksOf(o) # {} THEN tasks[o] ELSE FreshTasks(o)

------------------------------------------------------------------------------
(* assign: the row is read, checked, and updated by a later statement.        *)
Assignable(t) == t # NoTask /\ t.status # "IN_PROGRESS"
AssignRead(c, o, p, w) ==
  /\ "assign" \in Ops /\ call[c] = Idle
  /\ Assignable(tasks[o][p])
  /\ call' = [call EXCEPT ![c] =
                [op |-> "assign", order |-> o, product |-> p, worker |-> w]]
  /\ UNCHANGED <<stock, orderTables, moneyTables, crashes>>

(* The row locks held by the transactions past their UPDATE.                  *)
Locked(c, o, p) ==
  \E d \in Slot \ {c} :
    call[d].op = "floor" /\ call[d].order = o /\ call[d].product = p

AssignWrite(c) ==
  LET r == call[c] IN
  /\ r.op = "assign"
  /\ ~Locked(c, r.order, r.product)
  /\ tasks' = [tasks EXCEPT ![r.order][r.product].worker = r.worker]
  /\ call' = [call EXCEPT ![c] = Idle]
  /\ UNCHANGED <<stock, orders, trail, rows, moneyTables, crashes>>

------------------------------------------------------------------------------
(* Checks of act: a worker acts on their own task only, and BR5.              *)
MayAct(t, action, actor) ==
  /\ actor # "ADMIN" => t.worker = actor
  /\ action = "start" => t.worker # NoWorker
  /\ Legal(action, t)

Acted(t, action) ==
  LET next == ApplyAction(action, t) IN
  [t EXCEPT !.stage = next.stage, !.status = next.status,
            !.started = @ \/ action = "start"]

ActRead(c, o, p, action, actor) ==
  /\ "act" \in Ops /\ call[c] = Idle
  /\ tasks[o][p] # NoTask
  /\ MayAct(tasks[o][p], action, actor)
  /\ call' = [call EXCEPT ![c] =
                [op |-> "act", order |-> o, product |-> p,
                 next |-> Acted(tasks[o][p], action)]]
  /\ UNCHANGED <<stock, orderTables, moneyTables, crashes>>

(* The UPDATE writes stage, status and start_time; the assignee stays as the  *)
(* row has it.                                                                *)
Updated(o, p, next) ==
  [tasks[o] EXCEPT ![p].stage = next.stage, ![p].status = next.status,
                   ![p].started = @ \/ next.started]

(* syncOrderStatus from the status and the task set it saw: what to write, or *)
(* "NONE".                                                                    *)
SyncTarget(saw, seen) ==
  LET target ==
        Derive({seen[p] : p \in {q \in Product : seen[q] # NoTask}}) IN
  IF saw \in {"CANCELLED", "DELIVERED"} \/ target = saw THEN "NONE" ELSE target

(* The UPDATE, and the read of the order.                                     *)
ActUpdate(c) ==
  LET r == call[c] IN
  /\ r.op = "act"
  /\ ~Locked(c, r.order, r.product)
  /\ call' = [call EXCEPT ![c] =
       [op |-> "floor", order |-> r.order, product |-> r.product,
        next |-> r.next, saw |-> orders[r.order], target |-> "UNREAD"]]
  /\ UNCHANGED <<stock, orderTables, moneyTables, crashes>>

(* The read of the tasks.  assertTransition throws and rolls the task's move  *)
(* back with it.                                                              *)
ActDerive(c) ==
  LET r == call[c]
      target == SyncTarget(r.saw, Updated(r.order, r.product, r.next)) IN
  /\ r.op = "floor" /\ r.target = "UNREAD"
  /\ call' = [call EXCEPT ![c] =
       IF target = "NONE" \/ CanTransition(r.saw, target)
       THEN [r EXCEPT !.target = target]
       ELSE Idle]
  /\ UNCHANGED <<stock, orderTables, moneyTables, crashes>>

ActCommit(c) ==
  LET r == call[c] IN
  /\ r.op = "floor" /\ r.target # "UNREAD"
  /\ tasks' = [tasks EXCEPT ![r.order] = Updated(r.order, r.product, r.next)]
  /\ IF r.target = "NONE"
     THEN UNCHANGED <<orders, trail>>
     ELSE /\ orders' = [orders EXCEPT ![r.order] = r.target]
          /\ trail' = [trail EXCEPT ![r.order] = <<r.saw, r.target>>]
  /\ call' = [call EXCEPT ![c] = Idle]
  /\ UNCHANGED <<stock, rows, moneyTables, crashes>>
=============================================================================
