----------------------------- MODULE MCPlatform ------------------------------
(* Instances of Platform for TLC: a made-to-measure product and a ready-made  *)
(* one, and two orders that compete for the same units.                       *)
EXTENDS Platform, TLC

CONSTANTS shirt, belt, o1, o2, p1, p2, c1, c2

\* Two orders for the same ready-made product.
OneBeltLine == (belt :> 1)
SharedCart == (o1 :> OneBeltLine) @@ (o2 :> OneBeltLine)
NoSizes == (o1 :> NoSize) @@ (o2 :> NoSize)
ThreeBelts == (belt :> 3)
EmptySizes == (belt :> << >>)
Interchangeable == Permutations({c1, c2}) \cup Permutations({o1, o2})
Slots == Permutations({c1, c2})

\* One order for the last unit of a garment.
OneShirt == (o1 :> (shirt :> 1))
LastShirt == (shirt :> 1)
ShirtSizes == (shirt :> << >>)

\* Two orders for different sizes of one product.
SizedCart == (o1 :> "S") @@ (o2 :> "M")
OneOfEach == (belt :> (("S" :> 1) @@ ("M" :> 1)))
TwoUnits == (belt :> 2)

\* One order with two garments to make.
TwoGarments == (o1 :> ((p1 :> 1) @@ (p2 :> 1)))
OneNoSize == (o1 :> NoSize)
EnoughGarments == (p1 :> 2) @@ (p2 :> 2)
GarmentSizes == (p1 :> << >>) @@ (p2 :> << >>)

\* Two garments and a belt on one order, two belts on the other.
MixedCart ==
  (o1 :> ((p1 :> 1) @@ (p2 :> 1) @@ (belt :> 1))) @@
  (o2 :> ((p1 :> 0) @@ (p2 :> 0) @@ (belt :> 2)))
MixedStock == (p1 :> 1) @@ (p2 :> 1) @@ (belt :> 3)
MixedSizes == (p1 :> << >>) @@ (p2 :> << >>) @@ (belt :> << >>)
=============================================================================
