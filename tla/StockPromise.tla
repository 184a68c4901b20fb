---------------------------- MODULE StockPromise -----------------------------
(* What inventory promises the shop, with no rows, requests or ledger: each   *)
(* unit of a product is free or promised to an order, and an order's lines    *)
(* move together or not at all.                                               *)
EXTENDS Integers

CONSTANTS
  Product,
  Carts         \* the units per product of each order that can be placed

VARIABLES
  free,         \* units anyone may still order
  promised      \* units held for orders not yet paid

vars == <<free, promised>>

Fits(cart, units) == \A p \in Product : cart[p] <= units[p]
Plus(units, cart) == [p \in Product |-> units[p] + cart[p]]
Less(units, cart) == [p \in Product |-> units[p] - cart[p]]

Init ==
  /\ free \in [Product -> Nat]
  /\ promised = [p \in Product |-> 0]

(* An order is placed: its units stop being free.                             *)
Promise(cart) ==
  /\ Fits(cart, free)
  /\ free' = Less(free, cart)
  /\ promised' = Plus(promised, cart)

(* It is paid: its units leave the shelf.                                     *)
Sell(cart) ==
  /\ Fits(cart, promised)
  /\ promised' = Less(promised, cart)
  /\ UNCHANGED free

(* It is cancelled before it was paid, or after.                              *)
GiveBack(cart) ==
  /\ Fits(cart, promised)
  /\ promised' = Less(promised, cart)
  /\ free' = Plus(free, cart)
TakeBack(cart) ==
  /\ free' = Plus(free, cart)
  /\ UNCHANGED promised

(* The shelf is counted again: only what nobody was promised can change.      *)
Recount(p) ==
  /\ free'[p] \in Nat
  /\ free' = [free EXCEPT ![p] = free'[p]]
  /\ UNCHANGED promised

Next ==
  \/ \E cart \in Carts :
       Promise(cart) \/ Sell(cart) \/ GiveBack(cart) \/ TakeBack(cart)
  \/ \E p \in Product : Recount(p)

Spec == Init /\ [][Next]_vars
=============================================================================
