--------------------------- MODULE PageMeasurements --------------------------
(* frontend/src/lib/measurements.ts: the storefront's copy of the rules in    *)
(* Measurements, kept in step by hand, and the form built from it             *)
(* (components/cart/measurement-dialog.tsx).                                  *)
EXTENDS Integers, TLC

NoSize == "no size"
Undetected == "NONE"
Nothing    == << >>

Shirt ==
  [chest |-> <<20, 200>>, waist |-> <<20, 200>>, shoulder |-> <<20, 100>>,
   sleeveLength |-> <<10, 100>>, shirtLength |-> <<20, 120>>]
Trouser ==
  [trouserWaist |-> <<20, 200>>, hip |-> <<20, 200>>,
   trouserLength |-> <<30, 150>>]
Short ==
  [trouserWaist |-> <<20, 200>>, hip |-> <<20, 200>>,
   trouserLength |-> <<20, 80>>]
Frock ==
  [chest |-> <<20, 200>>, waist |-> <<20, 200>>, shoulder |-> <<20, 100>>,
   frockLength |-> <<30, 160>>, sleeveLength |-> <<10, 80>>]
Skirt ==
  [trouserWaist |-> <<20, 200>>, hip |-> <<20, 200>>,
   trouserLength |-> <<20, 120>>]
Blazer ==
  [chest |-> <<20, 200>>, waist |-> <<20, 200>>, shoulder |-> <<20, 100>>,
   sleeveLength |-> <<15, 100>>, shirtLength |-> <<30, 150>>]
Vest ==
  [chest |-> <<20, 200>>, waist |-> <<20, 200>>, shoulder |-> <<20, 100>>,
   shirtLength |-> <<25, 100>>]
Blouse ==
  [chest |-> <<20, 200>>, waist |-> <<20, 200>>, shoulder |-> <<20, 100>>,
   shirtLength |-> <<20, 100>>, sleeveLength |-> <<10, 80>>]
UniformSet == Shirt @@ Trouser

GarmentFieldMap ==
  [SHIRT |-> Shirt, TROUSER |-> Trouser, SHORT |-> Short, FROCK |-> Frock,
   SKIRT |-> Skirt, BLAZER |-> Blazer, VEST |-> Vest, BLOUSE |-> Blouse,
   UNIFORM_SET |-> UniformSet]
MeasurementFields == [UNIFORM |-> UniformSet, CUSTOM |-> Shirt]

------------------------------------------------------------------------------
OneOf(some, text) == \E word \in some : word \in text

(* The mistake the ordering guards against: shorts before shirts.             *)
ShortsFirst(product) ==
  IF product.garmentType \in DOMAIN GarmentFieldMap THEN product.garmentType
  ELSE IF "short" \in product.words THEN "SHORT"
  ELSE IF "shirt" \in product.words THEN "SHIRT"
  ELSE Undetected

DetectGarmentType(product) ==
  LET text == product.words IN
  IF product.garmentType \in DOMAIN GarmentFieldMap THEN product.garmentType
  ELSE IF OneOf({"scrub set", "weatherproof suit", "industrial suit",
                 "uniform set", "two-piece", "2-piece"}, text)
    THEN "UNIFORM_SET"
  ELSE IF OneOf({"frock", "dress", "tunic", "fork", "gown", "kurtha"}, text)
    THEN "FROCK"
  ELSE IF "skirt" \in text THEN "SKIRT"
  ELSE IF OneOf({"shirt", "tee", "polo"}, text) THEN "SHIRT"
  ELSE IF ("short" \in text /\ "sleeve" \notin text) \/ "shorts" \in text
    THEN "SHORT"
  ELSE IF OneOf({"trouser", "pant", "chino", "jeans", "bottoms"}, text)
    THEN "TROUSER"
  ELSE IF OneOf({"vest", "waistcoat"}, text) THEN "VEST"
  ELSE IF OneOf({"blazer", "coat", "jacket"}, text) THEN "BLAZER"
  ELSE IF "blouse" \in text THEN "BLOUSE"
  ELSE Undetected

FieldsFor(product) ==
  LET detected == DetectGarmentType(product) IN
  IF product.type \notin {"UNIFORM", "CUSTOM"} /\ ~product.requiresMeasurement
    THEN Nothing
  ELSE IF detected # Undetected THEN GarmentFieldMap[detected]
  ELSE IF product.type \in DOMAIN MeasurementFields
    THEN MeasurementFields[product.type]
  ELSE Nothing

IsStandardSize(size) ==
  size \notin {NoSize, "custom", "tailored", "made-to-measure", "bespoke"}

NeedsMeasurements(product, size) ==
  /\ ~IsStandardSize(size)
  /\ product.requiresMeasurement \/ DOMAIN FieldsFor(product) # {}

InRange(value, range) == value >= range[1] /\ value <= range[2]

IsComplete(product, set, size) ==
  LET fields == FieldsFor(product) IN
  \/ ~NeedsMeasurements(product, size)
  \/ /\ set.given /\ set.named
     /\ IF DOMAIN fields = {} THEN DOMAIN set.values # {}
        ELSE \A f \in DOMAIN fields :
               f \in DOMAIN set.values /\ InRange(set.values[f], fields[f])

(* What the form lets through: a value in range for each of its fields, and a *)
(* name, of which only blanks may be left when it is trimmed.                 *)
Saves(product, set) ==
  LET fields == FieldsFor(product) IN
  /\ DOMAIN set.values = DOMAIN fields
  /\ \A f \in DOMAIN fields : InRange(set.values[f], fields[f])
=============================================================================
