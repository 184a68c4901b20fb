---------------------------- MODULE MCStorefront -----------------------------
(* An instance of Storefront for TLC: a catalogue of a garment that is made   *)
(* to measure and a belt, a small tree of categories, and three orders.       *)
EXTENDS Storefront

CONSTANTS v1, v2, r1, r2

ProductRow(type, words, flagged) ==
  [type |-> type, words |-> words, garmentType |-> "NONE",
   requiresMeasurement |-> flagged]

\* A short-sleeve shirt, and the shorts an admin may turn it into.
ShirtRows == {ProductRow("CUSTOM", {"short", "sleeve", "shirt"}, FALSE),
              ProductRow("READY_MADE", {"short"}, TRUE)}
ShopRows == [shirt |-> ShirtRows,
             belt |-> {ProductRow("READY_MADE", {}, FALSE)}]
ShopOffer == {<<"shirt", "custom">>, <<"shirt", NoSize>>,
              <<"belt", "M">>}

\* Three categories side by side, one of them nested, one of them missing.
Forest(a, b, c) == [c1 |-> a, c2 |-> b, c3 |-> c]
ShopForests == {Forest(Top, Top, Top), Forest(Top, "c1", Top),
                Forest(Top, Top, New)}

\* Two carts with the same products in opposite orders, and a cart of one.
OrderLines == [x |-> <<"p1", "p2">>, y |-> <<"p2", "p1">>, z |-> <<"p1">>]

\* Two pages of shirts; a row that reconciles, with its unit promised, and one
\* whose sizes were edited while a unit was.
ListPages == [shirts |-> 2, all |-> 1]
Balances(available, cache) ==
  [available |-> available, reserved |-> 1, cache |-> cache,
   ledger |-> <<1, 1>>]
AuditedRows == {Balances(1, 0), Balances(2, 2)}
=============================================================================
