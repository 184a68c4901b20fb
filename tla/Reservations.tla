---------------------------- MODULE Reservations -----------------------------
(* What each order may do with stock over its life, with no requests: it      *)
(* holds its units once, sells them once or gives them back once, and no      *)
(* other order's units are touched.                                           *)
EXTENDS Integers, FiniteSetsExt

CONSTANTS
  Product,
  Order,
  Cart          \* Cart[o][p]: units of p on order o

VARIABLES
  shelf,        \* units of each product in the building
  holds         \* "NOTHING", "HELD", "SOLD" or "BACK", per order

vars == <<shelf, holds>>

Held(p) == MapThenSumSet(LAMBDA o : Cart[o][p],
                         {o \in Order : holds[o] = "HELD"})
Free(p) == shelf[p] - Held(p)

Init ==
  /\ shelf \in [Product -> Nat]
  /\ holds = [o \in Order |-> "NOTHING"]

Becomes(o, from, to) ==
  /\ holds[o] = from
  /\ holds' = [holds EXCEPT ![o] = to]

Hold(o) ==
  /\ \A p \in Product : Cart[o][p] <= Free(p)
  /\ Becomes(o, "NOTHING", "HELD")
  /\ UNCHANGED shelf
Sell(o) ==
  /\ Becomes(o, "HELD", "SOLD")
  /\ shelf' = [p \in Product |-> shelf[p] - Cart[o][p]]
Release(o) ==
  /\ Becomes(o, "HELD", "BACK")
  /\ UNCHANGED shelf
Return(o) ==
  /\ Becomes(o, "SOLD", "BACK")
  /\ shelf' = [p \in Product |-> shelf[p] + Cart[o][p]]

(* Counting the shelf again never takes what is held.                         *)
Recount(p) ==
  /\ shelf'[p] \in Nat /\ shelf'[p] >= Held(p)
  /\ shelf' = [shelf EXCEPT ![p] = shelf'[p]]
  /\ UNCHANGED holds

Next ==
  \/ \E o \in Order : Hold(o) \/ Sell(o) \/ Release(o) \/ Return(o)
  \/ \E p \in Product : Recount(p)

Spec == Init /\ [][Next]_vars
=============================================================================
