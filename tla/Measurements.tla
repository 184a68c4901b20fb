----------------------------- MODULE Measurements ----------------------------
(* backend/src/orders/measurements.config.ts (BR3): which body measurements a *)
(* product needs, and what OrdersService accepts of a line.  A product is its *)
(* type, its requiresMeasurement flag, attributes.garmentType and the words   *)
(* that occur in its name and subcategory; a set of measurements is what was  *)
(* submitted for a line, if anything was (given), under a name (named); a     *)
(* table gives, in centimetres, the least and greatest value of each field.   *)
EXTENDS Integers, TLC

NoSize == "no size"
NoGarment == "NONE"
NoFields  == << >>
Empty(table) == DOMAIN table = {}

ShirtFields ==
  [chest |-> <<20, 200>>, waist |-> <<20, 200>>, shoulder |-> <<20, 100>>,
   sleeveLength |-> <<10, 100>>, shirtLength |-> <<20, 120>>]
TrouserFields ==
  [trouserWaist |-> <<20, 200>>, hip |-> <<20, 200>>,
   trouserLength |-> <<30, 150>>]
ShortFields ==
  [trouserWaist |-> <<20, 200>>, hip |-> <<20, 200>>,
   trouserLength |-> <<20, 80>>]
FrockFields ==
  [chest |-> <<20, 200>>, waist |-> <<20, 200>>, shoulder |-> <<20, 100>>,
   frockLength |-> <<30, 160>>, sleeveLength |-> <<10, 80>>]
SkirtFields ==
  [trouserWaist |-> <<20, 200>>, hip |-> <<20, 200>>,
   trouserLength |-> <<20, 120>>]
BlazerFields ==
  [chest |-> <<20, 200>>, waist |-> <<20, 200>>, shoulder |-> <<20, 100>>,
   sleeveLength |-> <<15, 100>>, shirtLength |-> <<30, 150>>]
VestFields ==
  [chest |-> <<20, 200>>, waist |-> <<20, 200>>, shoulder |-> <<20, 100>>,
   shirtLength |-> <<25, 100>>]
BlouseFields ==
  [chest |-> <<20, 200>>, waist |-> <<20, 200>>, shoulder |-> <<20, 100>>,
   shirtLength |-> <<20, 100>>, sleeveLength |-> <<10, 80>>]
UniformSetFields == ShirtFields @@ TrouserFields

GarmentFieldMap ==
  [SHIRT |-> ShirtFields, TROUSER |-> TrouserFields, SHORT |-> ShortFields,
   FROCK |-> FrockFields, SKIRT |-> SkirtFields, BLAZER |-> BlazerFields,
   VEST |-> VestFields, BLOUSE |-> BlouseFields,
   UNIFORM_SET |-> UniformSetFields]
MeasurementFields == [UNIFORM |-> UniformSetFields, CUSTOM |-> ShirtFields]

------------------------------------------------------------------------------
(* The first rule that matches decides, so that a short-sleeve shirt is a     *)
(* shirt.                                                                     *)
Mentions(words, some) == words \cap some # {}
DetectGarmentType(product) ==
  LET text == product.words IN
  IF product.garmentType \in DOMAIN GarmentFieldMap THEN product.garmentType
  ELSE IF Mentions(text, {"scrub set", "weatherproof suit", "industrial suit",
                          "uniform set", "two-piece", "2-piece"})
    THEN "UNIFORM_SET"
  ELSE IF Mentions(text, {"frock", "dress", "tunic", "fork", "gown", "kurtha"})
    THEN "FROCK"
  ELSE IF "skirt" \in text THEN "SKIRT"
  ELSE IF Mentions(text, {"shirt", "tee", "polo"}) THEN "SHIRT"
  ELSE IF ("short" \in text /\ "sleeve" \notin text) \/ "shorts" \in text
    THEN "SHORT"
  ELSE IF Mentions(text, {"trouser", "pant", "chino", "jeans", "bottoms"})
    THEN "TROUSER"
  ELSE IF Mentions(text, {"vest", "waistcoat"}) THEN "VEST"
  ELSE IF Mentions(text, {"blazer", "coat", "jacket"}) THEN "BLAZER"
  ELSE IF "blouse" \in text THEN "BLOUSE"
  ELSE NoGarment

Measured(product) ==
  product.type \in {"UNIFORM", "CUSTOM"} \/ product.requiresMeasurement

FieldsFor(product) ==
  LET detected == DetectGarmentType(product) IN
  IF ~Measured(product) THEN NoFields
  ELSE IF detected # NoGarment THEN GarmentFieldMap[detected]
  ELSE IF product.type \in DOMAIN MeasurementFields
    THEN MeasurementFields[product.type]
  ELSE NoFields

IsStandardSize(size) ==
  size \notin {NoSize, "custom", "tailored", "made-to-measure", "bespoke"}

Within(values, field, range) ==
  /\ field \in DOMAIN values
  /\ values[field] >= range[1] /\ values[field] <= range[2]

(* The fields at fault, with "name" for the person and "set" for the whole.   *)
ValidateMeasurements(product, submitted, size) ==
  LET fields == FieldsFor(product) IN
  IF \/ ~Measured(product) /\ ~submitted.given
     \/ IsStandardSize(size)
     \/ ~product.requiresMeasurement /\ Empty(fields)
    THEN {}
  ELSE IF ~submitted.given THEN {"set"}
  ELSE {x \in {"name"} : ~submitted.named}
       \cup {x \in {"set"} : Empty(fields) /\ Empty(submitted.values)}
       \cup {f \in DOMAIN fields : ~Within(submitted.values, f, fields[f])}
=============================================================================
