---------------------------- MODULE OrderMachine ----------------------------
(* backend/src/orders/order.machine.ts: the one status graph that             *)
(* OrdersService and ProductionService both consult.                          *)

OrderStatus == {"PENDING", "CONFIRMED", "IN_PRODUCTION", "QUALITY_CHECK",
                "COMPLETED", "DELIVERED", "CANCELLED"}

(* The graph as it was while nothing checked the floor's moves against it.    *)
FormerTransitions ==
  { <<"PENDING", "CONFIRMED">>,           <<"PENDING", "CANCELLED">>,
    <<"CONFIRMED", "IN_PRODUCTION">>,     <<"CONFIRMED", "COMPLETED">>,
    <<"CONFIRMED", "CANCELLED">>,         <<"IN_PRODUCTION", "QUALITY_CHECK">>,
    <<"QUALITY_CHECK", "COMPLETED">>,     <<"COMPLETED", "DELIVERED">> }

(* TRANSITIONS, as the set of its edges.                                      *)
Transitions ==
  { <<"PENDING", "CONFIRMED">>,           <<"PENDING", "CANCELLED">>,
    <<"CONFIRMED", "IN_PRODUCTION">>,     <<"CONFIRMED", "COMPLETED">>,
    <<"CONFIRMED", "CANCELLED">>,         <<"IN_PRODUCTION", "QUALITY_CHECK">>,
    <<"QUALITY_CHECK", "COMPLETED">>,     <<"QUALITY_CHECK", "IN_PRODUCTION">>,
    <<"COMPLETED", "DELIVERED">> }

(* Also assertTransition: where the code throws, the model requires this.     *)
TransitionOrSame(from, to) == from = to \/ <<from, to>> \in Transitions
CanTransition(from, to) == <<from, to>> \in Transitions

(* allowedOrderActions: the verbs an admin is offered for an order.           *)
AllowedOrderActions(status, hasTasks) ==
  {a \in {"cancel", "advance", "deliver"} :
     /\ CanTransition(status, CASE a = "cancel"  -> "CANCELLED"
                                [] a = "advance" -> "COMPLETED"
                                [] a = "deliver" -> "DELIVERED")
     /\ a = "advance" => ~hasTasks}
=============================================================================
