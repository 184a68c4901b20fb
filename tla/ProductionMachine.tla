-------------------------- MODULE ProductionMachine --------------------------
(* backend/src/production/production.machine.ts: the task machine, a pure     *)
(* function from (action, state) to the next state, and                       *)
(* production.service.ts's derivation of an order's status from its tasks.    *)
EXTENDS Naturals, OrderMachine

StageOrder == <<"CUTTING", "STITCHING", "FINISHING", "QUALITY_CHECK">>
Stage      == {StageOrder[i] : i \in 1..4}
TaskStatus == {"PENDING", "IN_PROGRESS", "DONE"}
TaskAction == {"start", "complete", "advance", "qc_pass", "qc_fail"}

NextStage(stage) ==
  StageOrder[1 + CHOOSE i \in 1..3 : StageOrder[i] = stage]

(* applyAction throws exactly when this does not hold.                        *)
Legal(action, t) ==
  LET final == t.stage = "QUALITY_CHECK" IN
  \/ action = "start" /\ t.status = "PENDING"
  \/ action = "complete" /\ t.status = "IN_PROGRESS" /\ ~final
  \/ action = "advance" /\ t.status = "DONE" /\ ~final
  \/ action \in {"qc_pass", "qc_fail"} /\ t.status = "IN_PROGRESS" /\ final

(* The stage and the status after a legal action.                             *)
ApplyAction(action, t) ==
  CASE action = "start"    -> [stage |-> t.stage, status |-> "IN_PROGRESS"]
    [] action = "complete" -> [stage |-> t.stage, status |-> "DONE"]
    [] action = "advance"  -> [stage |-> NextStage(t.stage),
                               status |-> "PENDING"]
    [] action = "qc_pass"  -> [stage |-> t.stage, status |-> "DONE"]
    [] action = "qc_fail"  -> [stage |-> "FINISHING", status |-> "PENDING"]

(* syncOrderStatus: where the work is, as an order status; "NONE" is null.    *)
Inspected(t) == t.stage = "QUALITY_CHECK" /\ t.status = "DONE"
DeriveQcFirst(tasks) ==
  IF \A t \in tasks : t.stage = "QUALITY_CHECK" THEN "QUALITY_CHECK"
  ELSE IF \E t \in tasks : t.status # "PENDING" \/ t.started
  THEN "IN_PRODUCTION" ELSE "NONE"
Derive(tasks) ==
  IF \A t \in tasks : Inspected(t) THEN "COMPLETED"
  ELSE IF \A t \in tasks : t.stage = "QUALITY_CHECK" THEN "QUALITY_CHECK"
  ELSE IF \E t \in tasks : t.status # "PENDING" \/ t.started
  THEN "IN_PRODUCTION" ELSE "NONE"
=============================================================================
