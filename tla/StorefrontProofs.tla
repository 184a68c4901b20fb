-------------------------- MODULE StorefrontProofs ---------------------------
(* The checkout page and its copy of the measurement rules, and the           *)
(* storefront as the composition of its parts.                                *)
EXTENDS Storefront, UserProofs, BrowseProofs, OfficeProofs


------------------------------------------------------------------------------
(* The copies of the tables hold the same fields and ranges.                  *)
LEMMA SameTables ==
  /\ Api!GarmentFieldMap = Page!GarmentFieldMap
  /\ Api!MeasurementFields = Page!MeasurementFields
  BY Zenon DEF Api!GarmentFieldMap, Page!GarmentFieldMap,
     Api!MeasurementFields, Page!MeasurementFields,
     Api!ShirtFields, Page!Shirt, Api!TrouserFields, Page!Trouser,
     Api!ShortFields, Page!Short, Api!FrockFields, Page!Frock,
     Api!SkirtFields, Page!Skirt, Api!BlazerFields, Page!Blazer,
     Api!VestFields, Page!Vest, Api!BlouseFields, Page!Blouse,
     Api!UniformSetFields, Page!UniformSet

(* Asking whether the text mentions one of some words is asking whether one   *)
(* of them is in it.                                                          *)
LEMMA SameMentions ==
  \A some, text : Api!Mentions(text, some) <=> Page!OneOf(some, text)
  BY Zenon DEF Api!Mentions, Page!OneOf

(* Both copies take a product for the same garment.                           *)
LEMMA SameGarment ==
  ASSUME NEW product
  PROVE  Api!DetectGarmentType(product) = Page!DetectGarmentType(product)
  BY SameTables, SameMentions, Zenon
  DEF Api!DetectGarmentType, Page!DetectGarmentType, Api!NoGarment,
      Page!Undetected

(* Both ask for the same fields.                                              *)
LEMMA SameFields ==
  ASSUME NEW product
  PROVE  Api!FieldsFor(product) = Page!FieldsFor(product)
  BY SameTables, SameGarment, SMT
  DEF Api!FieldsFor, Page!FieldsFor, Api!Measured, Api!NoGarment,
      Page!Undetected, Api!NoFields, Page!Nothing

(* The rule "kept in step by hand": for every product, set of measurements    *)
(* and size, the page lets a line through exactly when the API finds no fault *)
(* with it.                                                                   *)
THEOREM MirrorAgrees ==
  ASSUME NEW product, NEW set, NEW size,
         product.requiresMeasurement \in BOOLEAN,
         set.given \in BOOLEAN, set.named \in BOOLEAN
  PROVE  Page!IsComplete(product, set, size)
           <=> Api!ValidateMeasurements(product, set, size) = {}
<1> DEFINE fields == Page!FieldsFor(product)
           good == \A f \in DOMAIN fields :
                     Api!Within(set.values, f, fields[f])
           bad == {f \in DOMAIN fields : ~Api!Within(set.values, f, fields[f])}
           noName == {x \in {"name"} : ~set.named}
           noSet == {x \in {"set"} : Api!Empty(fields) /\ Api!Empty(set.values)}
<1>1. Api!FieldsFor(product) = fields
  BY SameFields
<1>2. Api!IsStandardSize(size) <=> Page!IsStandardSize(size)
  BY Zenon DEF Api!IsStandardSize, Page!IsStandardSize, Api!NoSize, Page!NoSize
<1>3. good <=> \A f \in DOMAIN fields :
                 /\ f \in DOMAIN set.values
                 /\ Page!InRange(set.values[f], fields[f])
  BY Zenon DEF Api!Within, Page!InRange
<1>4. (bad = {} <=> good) /\ (noName = {} <=> set.named)
  OBVIOUS
<1>5. noSet = {} <=> ~(Api!Empty(fields) /\ Api!Empty(set.values))
  OBVIOUS
<1>6. ~Api!Measured(product) => Api!Empty(fields)
  <2> SUFFICES ASSUME ~Api!Measured(product) PROVE DOMAIN fields = {}
    BY DEF Api!Empty
  <2>1. fields = << >>
    BY DEF Api!Measured, Page!FieldsFor, Page!Nothing
  <2> QED BY <2>1
<1> HIDE DEF fields, good, bad, noName, noSet
<1>7. Api!ValidateMeasurements(product, set, size) = {} <=>
        \/ ~Api!Measured(product) /\ ~set.given
        \/ Api!IsStandardSize(size)
        \/ ~product.requiresMeasurement /\ Api!Empty(fields)
        \/ set.given /\ noName \cup noSet \cup bad = {}
  BY <1>1 DEF Api!ValidateMeasurements, fields, bad, noName, noSet
<1>8. Page!IsComplete(product, set, size) <=>
        \/ Page!IsStandardSize(size)
        \/ ~product.requiresMeasurement /\ Api!Empty(fields)
        \/ /\ set.given /\ set.named
           /\ IF Api!Empty(fields) THEN ~Api!Empty(set.values) ELSE good
  BY <1>3 DEF Page!IsComplete, Page!NeedsMeasurements, Api!Empty, fields, good
<1>9. Api!Empty(fields) => good
  BY DEF Api!Empty, good
<1>10. noName \cup noSet \cup bad = {} <=>
         noName = {} /\ noSet = {} /\ bad = {}
  OBVIOUS
<1>11. ~product.requiresMeasurement /\ ~set.given /\ ~Api!Measured(product)
         => ~product.requiresMeasurement /\ Api!Empty(fields)
  BY <1>6
<1>12. ~Api!Measured(product) => ~product.requiresMeasurement
  BY DEF Api!Measured
<1> QED
  BY <1>2, <1>4, <1>5, <1>6, <1>7, <1>8, <1>9, <1>10, <1>12

------------------------------------------------------------------------------
(* The cart and its order.                                                    *)
AnyRow == UNION {Rows[i] : i \in Item}
MeasurementSet == {NoSet} \cup {Form(row) : row \in AnyRow}
CartLine ==
  [item : Item, size : {offer[2] : offer \in Offer}, copy : AnyRow,
   set : MeasurementSet]
IsCart(lines) ==
  /\ lines \subseteq CartLine
  /\ \A l \in lines : <<l.item, l.size>> \in Offer /\ l.copy \in Rows[l.item]
Distinct(lines) ==
  \A l, k \in lines : l.item = k.item /\ l.size = k.size => l = k
Complete(lines) == \A l \in lines : Page!IsComplete(l.copy, l.set, l.size)
Named(lines) == {<<l.item, l.size>> : l \in lines}

Run ==
  [step : {"order", "answered", "pay"}, guest : BOOLEAN,
   method : {"cod", "online"}, code : {"none", "right", "wrong"},
   lines : SUBSET CartLine, result : Result \cup {"none"}]

ShopTyped ==
  /\ products \in [Item -> AnyRow] /\ \A i \in Item : products[i] \in Rows[i]
  /\ IsCart(cart) /\ Distinct(cart)
  /\ isAuthenticated \in BOOLEAN /\ contactVerified \in BOOLEAN
  /\ codeSent \in BOOLEAN /\ modal \in BOOLEAN /\ loading \in BOOLEAN
  /\ attempt \in [Attempt -> Run \cup {Idle}]
  /\ placed \in Seq(SUBSET Offer)
  /\ failures \in Nat /\ orderCount \in Nat /\ Len(placed) <= orderCount
OneRun ==
  /\ \A a \in Attempt : attempt[a] # Idle => loading
  /\ \A a, b \in Attempt : attempt[a] # Idle /\ attempt[b] # Idle => a = b
  /\ orderCount <= MaxOrders
  /\ \A a \in Attempt : attempt[a].step = "order" => orderCount < MaxOrders
Placing(q) ==
  CASE q.step = "order"    -> placed = << >>
    [] q.step = "answered" -> placed = IF q.result = "placed"
                                       THEN <<Named(q.lines)>> ELSE << >>
    [] q.step = "pay"      -> placed = <<Named(q.lines)>>
CartOrdered ==
  /\ \A a \in Attempt : attempt[a] # Idle =>
       /\ IsCart(attempt[a].lines) /\ Complete(attempt[a].lines)
       /\ Named(cart) = Named(attempt[a].lines)
       /\ failures = 0 => Placing(attempt[a])
  /\ failures = 0 /\ (\A a \in Attempt : attempt[a] = Idle) => placed = << >>

CheckoutInv == ShopTyped /\ OneRun /\ CartOrdered

LEMMA OfferPairs ==
  \A offer \in Offer : /\ offer[1] \in Item /\ <<offer[1], offer[2]>> = offer
                       /\ offer[2] \in {o[2] : o \in Offer}
BY CheckoutAssumption DEF Item

LEMMA RowsAreRows ==
  \A i \in Item : \A row \in Rows[i] :
    row \in AnyRow /\ row.requiresMeasurement \in BOOLEAN
BY CheckoutAssumption DEF AnyRow

LEMMA SetFlags ==
  \A set \in MeasurementSet : set.given \in BOOLEAN /\ set.named \in BOOLEAN
<1>1. NoSet.given \in BOOLEAN /\ NoSet.named \in BOOLEAN
  BY DEF NoSet
<1>2. \A row : Form(row).given \in BOOLEAN /\ Form(row).named \in BOOLEAN
  BY DEF Form
<1> QED BY <1>1, <1>2 DEF MeasurementSet

LEMMA IdleIsNoRun == Idle.step = "idle" /\ \A q \in Run : q # Idle
BY DEF Idle, Run

LEMMA CheckoutStart == CheckoutInit => CheckoutInv
<1> SUFFICES ASSUME CheckoutInit PROVE CheckoutInv
  OBVIOUS
<1> USE CheckoutAssumption DEF CheckoutInit
<1>1. \A a \in Attempt : attempt[a] = Idle
  OBVIOUS
<1>2. IsCart(cart) /\ Distinct(cart)
  BY DEF IsCart, Distinct
<1>3. products \in [Item -> AnyRow] /\ \A i \in Item : products[i] \in Rows[i]
  BY Zenon DEF AnyRow
<1>4. placed \in Seq(SUBSET Offer) /\ Len(placed) = 0
  OBVIOUS
<1>5. attempt \in [Attempt -> Run \cup {Idle}]
  OBVIOUS
<1>6. ShopTyped
  <2>1. /\ isAuthenticated \in BOOLEAN /\ contactVerified \in BOOLEAN
        /\ codeSent \in BOOLEAN /\ modal \in BOOLEAN /\ loading \in BOOLEAN
    BY Zenon
  <2>2. failures \in Nat /\ orderCount \in Nat /\ Len(placed) <= orderCount
    BY <1>4
  <2> QED BY <1>2, <1>3, <1>4, <1>5, <2>1, <2>2 DEF ShopTyped
<1>7. OneRun
  BY <1>1, IdleIsNoRun DEF OneRun
<1>8. CartOrdered
  BY <1>1 DEF CartOrdered
<1> QED BY <1>6, <1>7, <1>8 DEF CheckoutInv

(* Putting a line in the cart, or giving its like another set.                *)
LEMMA AddItemCart ==
  ASSUME ShopTyped, NEW offer \in Offer, NEW set \in MeasurementSet,
         AddItem(offer[1], offer[2], set)
  PROVE  IsCart(cart') /\ Distinct(cart')
<1> DEFINE same == {l \in cart : SameLine(l, offer[1], offer[2])}
           new == [item |-> offer[1], size |-> offer[2],
                   copy |-> products[offer[1]], set |-> set]
<1>1. IsCart(cart) /\ Distinct(cart)
  BY DEF ShopTyped
<1>2. offer[1] \in Item /\ <<offer[1], offer[2]>> \in Offer
  BY OfferPairs
<1>3. products[offer[1]] \in Rows[offer[1]] /\ products[offer[1]] \in AnyRow
  BY <1>2 DEF ShopTyped
<1>4. new \in CartLine
  BY <1>2, <1>3, OfferPairs DEF CartLine
<1>5. new.item = offer[1] /\ new.size = offer[2] /\ new.copy \in Rows[new.item]
  BY <1>3
<1>6. \A l \in cart : l \in same <=> l.item = offer[1] /\ l.size = offer[2]
  BY DEF SameLine
<1>7. CASE cart' = cart
  BY <1>1, <1>7
<1>10. same \subseteq cart
  OBVIOUS
<1>8. CASE same = {} /\ cart' = cart \cup {new}
  <2> HIDE DEF new, same
  <2>1. IsCart(cart')
    BY <1>1, <1>2, <1>4, <1>5, <1>8 DEF IsCart
  <2>2. \A l \in cart : ~(l.item = new.item /\ l.size = new.size)
    BY <1>5, <1>6, <1>8
  <2>3. Distinct(cart')
    BY <1>1, <1>8, <2>2 DEF Distinct
  <2> QED BY <2>1, <2>3
<1>9. CASE cart' = (cart \ same) \cup {[l EXCEPT !.set = set] : l \in same}
  <2>1. \A l \in same : /\ [l EXCEPT !.set = set] \in CartLine
                        /\ [l EXCEPT !.set = set].item = l.item
                        /\ [l EXCEPT !.set = set].size = l.size
                        /\ [l EXCEPT !.set = set].copy = l.copy
    BY <1>1 DEF IsCart, CartLine
  <2>2. \A l, k \in same : l = k
    BY <1>1, <1>6 DEF Distinct
  <2> HIDE DEF same
  <2>3. IsCart(cart')
    <3>1. \A l \in same :
            <<l.item, l.size>> \in Offer /\ l.copy \in Rows[l.item]
      BY <1>1, <1>10 DEF IsCart
    <3>2. \A x \in {[l EXCEPT !.set = set] : l \in same} :
            /\ x \in CartLine
            /\ <<x.item, x.size>> \in Offer /\ x.copy \in Rows[x.item]
      BY <2>1, <3>1
    <3>3. cart \ same \subseteq CartLine
      BY <1>1 DEF IsCart
    <3> QED BY <1>1, <1>9, <3>2, <3>3 DEF IsCart
  <2>4. Distinct(cart')
    <3> SUFFICES ASSUME NEW l \in cart', NEW k \in cart', l.item = k.item,
                        l.size = k.size
                 PROVE  l = k
      BY DEF Distinct
    <3>1. l \in cart \ same /\ k \in cart \ same => l = k
      BY <1>1 DEF Distinct
    <3>2. \A x \in {[y EXCEPT !.set = set] : y \in same} :
            x.item = offer[1] /\ x.size = offer[2]
      BY <1>6, <1>10, <2>1
    <3>3. \A x \in cart \ same : ~(x.item = offer[1] /\ x.size = offer[2])
      BY <1>6
    <3>4. \A x, y \in {[z EXCEPT !.set = set] : z \in same} : x = y
      BY <2>2
    <3> QED BY <1>9, <3>1, <3>2, <3>3, <3>4
  <2> QED BY <2>3, <2>4
<1> QED BY <1>7, <1>8, <1>9 DEF AddItem

LEMMA SetMeasurementsCart ==
  ASSUME ShopTyped, NEW line \in cart, NEW set \in MeasurementSet,
         SetMeasurements(line, set)
  PROVE  IsCart(cart') /\ Distinct(cart') /\ Named(cart') = Named(cart)
<1> DEFINE given(l) == IF Matches(l, line.item, line.size)
                       THEN [l EXCEPT !.set = set] ELSE l
<1>1. IsCart(cart) /\ Distinct(cart)
  BY DEF ShopTyped
<1>2. cart' = {given(l) : l \in cart}
  BY DEF SetMeasurements
<1>3. \A l \in cart : /\ given(l) \in CartLine
                      /\ given(l).item = l.item /\ given(l).size = l.size
                      /\ given(l).copy = l.copy
  BY <1>1 DEF IsCart, CartLine
<1> HIDE DEF given
<1>4. IsCart(cart')
  BY <1>1, <1>2, <1>3 DEF IsCart
<1>5. Distinct(cart')
  BY <1>1, <1>2, <1>3 DEF Distinct
<1>6. Named(cart') = Named(cart)
  <2>1. \A x \in cart' : <<x.item, x.size>> \in Named(cart)
    BY <1>2, <1>3 DEF Named
  <2>2. \A l \in cart : given(l) \in cart'
    BY <1>2
  <2>3. \A l \in cart : <<l.item, l.size>> \in Named(cart')
    BY <1>3, <2>2 DEF Named
  <2> QED BY <2>1, <2>3 DEF Named
<1> QED BY <1>4, <1>5, <1>6

LEMMA ShopKeeps == CheckoutInv /\ Shop => CheckoutInv'
<1> SUFFICES ASSUME CheckoutInv, Shop PROVE CheckoutInv'
  OBVIOUS
<1>1. UNCHANGED <<products, accountVars, loading, attempt, placed, bounds>>
  BY DEF Shop, AddItem, RemoveItem, SetMeasurements
<1>2. ShopTyped
  BY DEF CheckoutInv
<1>3. /\ IsCart(cart') /\ Distinct(cart')
      /\ ~loading \/ Named(cart') = Named(cart)
  <2>1. NoSet \in MeasurementSet
    BY DEF MeasurementSet
  <2>2. ASSUME NEW offer \in Offer, AddItem(offer[1], offer[2], NoSet)
        PROVE  IsCart(cart') /\ Distinct(cart') /\ ~loading
    BY <1>2, <2>1, <2>2, AddItemCart DEF AddItem
  <2>3. ASSUME NEW offer \in Offer,
               AddItem(offer[1], offer[2], Form(products[offer[1]]))
        PROVE  IsCart(cart') /\ Distinct(cart') /\ ~loading
    <3>1. products[offer[1]] \in AnyRow
      BY <1>2, OfferPairs DEF ShopTyped
    <3>2. Form(products[offer[1]]) \in MeasurementSet
      BY <3>1 DEF MeasurementSet
    <3>3. ~loading
      BY <2>3 DEF AddItem
    <3> QED BY <1>2, <2>3, <3>2, <3>3, AddItemCart
  <2>4. ASSUME NEW line \in cart, RemoveItem(line)
        PROVE  IsCart(cart') /\ Distinct(cart') /\ ~loading
    BY <1>2, <2>4 DEF RemoveItem, ShopTyped, IsCart, Distinct
  <2>5. ASSUME NEW line \in cart, SetMeasurements(line, Form(line.copy))
        PROVE  IsCart(cart') /\ Distinct(cart') /\ Named(cart') = Named(cart)
    <3>1. line.copy \in AnyRow
      BY <1>2 DEF ShopTyped, IsCart, CartLine
    <3>2. Form(line.copy) \in MeasurementSet
      BY <3>1 DEF MeasurementSet
    <3> QED BY <1>2, <2>5, <3>2, SetMeasurementsCart
  <2> QED BY <2>2, <2>3, <2>4, <2>5 DEF Shop
<1>4. ShopTyped'
  BY <1>1, <1>2, <1>3 DEF ShopTyped, accountVars, bounds
<1>5. OneRun'
  BY <1>1 DEF CheckoutInv, OneRun, bounds
<1>6. CartOrdered'
  <2>1. CASE ~loading
    BY <1>1, <2>1 DEF CheckoutInv, CartOrdered, OneRun, bounds
  <2>2. CASE Named(cart') = Named(cart)
    BY <1>1, <2>2 DEF CheckoutInv, CartOrdered, Placing, bounds
  <2> QED BY <1>3, <2>1, <2>2
<1> QED BY <1>4, <1>5, <1>6 DEF CheckoutInv

LEMMA EditKeeps ==
  ASSUME CheckoutInv, NEW i \in Item, NEW row \in Rows[i], EditProduct(i, row)
  PROVE  CheckoutInv'
<1>1. /\ products' = [products EXCEPT ![i] = row]
      /\ UNCHANGED <<cart, isAuthenticated, contactVerified, codeSent, modal,
                     loading, attempt, placed, orderCount, failures>>
  BY DEF EditProduct, accountVars
<1>2. products' \in [Item -> AnyRow] /\ \A j \in Item : products'[j] \in Rows[j]
  BY <1>1, RowsAreRows DEF CheckoutInv, ShopTyped
<1> QED
  BY <1>1, <1>2 DEF CheckoutInv, ShopTyped, OneRun, CartOrdered, Placing

(* While one run of handlePlaceOrder is under way there is no other.          *)
LEMMA OnlyRun ==
  ASSUME CheckoutInv, NEW a \in Attempt, attempt[a] # Idle
  PROVE  /\ attempt[a] \in Run /\ loading
         /\ \A b \in Attempt : b # a => attempt[b] = Idle
         /\ IsCart(attempt[a].lines) /\ Complete(attempt[a].lines)
         /\ Named(cart) = Named(attempt[a].lines)
         /\ failures = 0 => Placing(attempt[a])
BY DEF CheckoutInv, ShopTyped, OneRun, CartOrdered

LEMMA PlaceOrderKeeps ==
  ASSUME CheckoutInv, NEW a \in Attempt, NEW method \in {"cod", "online"},
         NEW code \in {"none", "right", "wrong"}, PlaceOrder(a, method, code)
  PROVE  CheckoutInv'
<1>1. /\ UNCHANGED <<products, cart, isAuthenticated, contactVerified, codeSent,
                     modal, placed, edits, orderCount, failures>>
      /\ ~loading /\ orderCount < MaxOrders
  BY DEF PlaceOrder, Enabled, accountVars, bounds
<1>2. \A b \in Attempt : attempt[b] = Idle
  BY <1>1 DEF CheckoutInv, OneRun
<1>3. attempt \in [Attempt -> Run \cup {Idle}]
  BY DEF CheckoutInv, ShopTyped
<1>4. CASE Missing # {}
  <2>1. UNCHANGED attempt /\ loading' = FALSE
    BY <1>4 DEF PlaceOrder, LoadingWhenMissing
  <2>2. ShopTyped'
    BY <1>1, <2>1 DEF CheckoutInv, ShopTyped
  <2> QED
    BY <1>1, <1>2, <2>1, <2>2 DEF CheckoutInv, OneRun, CartOrdered
<1>5. CASE Missing = {}
  <2> DEFINE q == [step |-> "order", guest |-> ~isAuthenticated,
                   method |-> method, code |-> code, lines |-> cart,
                   result |-> "none"]
  <2>1. attempt' = [attempt EXCEPT ![a] = q] /\ loading' = TRUE
    BY <1>5 DEF PlaceOrder
  <2>2. cart \in SUBSET CartLine /\ IsCart(cart)
    BY DEF CheckoutInv, ShopTyped, IsCart
  <2>3. q \in Run /\ q.step = "order" /\ q.lines = cart
    BY <2>2 DEF Run
  <2> HIDE DEF q
  <2>4. /\ attempt' \in [Attempt -> Run \cup {Idle}] /\ attempt'[a] = q
        /\ \A b \in Attempt : b # a => attempt'[b] = Idle
    BY <1>2, <1>3, <2>1, <2>3
  <2>5. q # Idle
    BY <2>3, IdleIsNoRun
  <2>6. ShopTyped'
    BY <1>1, <2>1, <2>4 DEF CheckoutInv, ShopTyped
  <2>7. OneRun'
    BY <1>1, <2>1, <2>4, IdleIsNoRun DEF CheckoutInv, OneRun
  <2>8. Complete(cart)
    BY <1>5 DEF Missing, Complete
  <2>9. failures = 0 => placed = << >>
    BY <1>2 DEF CheckoutInv, CartOrdered
  <2>10. CartOrdered'
    BY <1>1, <2>2, <2>3, <2>4, <2>5, <2>8, <2>9 DEF CartOrdered, Placing
  <2> QED BY <2>6, <2>7, <2>10 DEF CheckoutInv
<1> QED BY <1>4, <1>5

LEMMA ServeOrderKeeps ==
  ASSUME CheckoutInv, NEW a \in Attempt, NEW result \in Result,
         ServeOrder(a, result)
  PROVE  CheckoutInv'
<1> DEFINE q == attempt[a]
           r == [q EXCEPT !.step = "answered", !.result = result]
           names == {<<l.item, l.size>> : l \in q.lines}
<1>1. /\ q.step = "order" /\ attempt' = [attempt EXCEPT ![a] = r]
      /\ UNCHANGED <<products, cart, isAuthenticated, modal, loading, edits,
                     failures>>
      /\ IF result = "placed"
         THEN placed' = Append(placed, names) /\ orderCount' = orderCount + 1
         ELSE placed' = placed /\ orderCount' = orderCount
  BY DEF ServeOrder
<1>2. q # Idle
  BY <1>1, IdleIsNoRun
<1>3. /\ q \in Run /\ loading /\ \A b \in Attempt : b # a => attempt[b] = Idle
      /\ IsCart(q.lines) /\ Complete(q.lines) /\ Named(cart) = Named(q.lines)
      /\ failures = 0 => Placing(q)
  BY <1>2, OnlyRun
<1>4. /\ r \in Run /\ r.step = "answered" /\ r.result = result
      /\ r.lines = q.lines
  BY <1>3 DEF Run
<1>5. r # Idle
  BY <1>4, IdleIsNoRun
<1>6. names = Named(q.lines) /\ names \in SUBSET Offer
  BY <1>3 DEF Named, IsCart
<1>7. contactVerified' \in BOOLEAN /\ codeSent' \in BOOLEAN
  BY Zenon DEF ServeOrder
<1> HIDE DEF r, names
<1>8. /\ attempt' \in [Attempt -> Run \cup {Idle}] /\ attempt'[a] = r
      /\ \A b \in Attempt : b # a => attempt'[b] = Idle
  BY <1>1, <1>3, <1>4 DEF CheckoutInv, ShopTyped
<1>9. /\ orderCount \in Nat /\ orderCount < MaxOrders
      /\ placed \in Seq(SUBSET Offer) /\ Len(placed) <= orderCount
  BY <1>1 DEF CheckoutInv, OneRun, ShopTyped
<1>10. /\ orderCount' \in Nat /\ orderCount' <= MaxOrders
       /\ placed' \in Seq(SUBSET Offer) /\ Len(placed') <= orderCount'
  BY <1>1, <1>6, <1>9, CheckoutAssumption
<1>11. ShopTyped'
  BY <1>1, <1>7, <1>8, <1>10 DEF CheckoutInv, ShopTyped
<1>12. OneRun'
  BY <1>1, <1>3, <1>4, <1>8, <1>10, IdleIsNoRun DEF OneRun
<1>13. failures = 0 => placed = << >>
  BY <1>1, <1>3 DEF Placing
<1>14. failures = 0 =>
         placed' = IF result = "placed" THEN <<Named(q.lines)>> ELSE << >>
  BY <1>1, <1>6, <1>13
<1>15. (failures = 0 => Placing(attempt[a]))'
  BY <1>1, <1>4, <1>8, <1>14 DEF Placing
<1>16. CartOrdered'
  BY <1>1, <1>3, <1>4, <1>5, <1>8, <1>15 DEF CartOrdered
<1> QED BY <1>11, <1>12, <1>16 DEF CheckoutInv

(* A run that ends leaves the page as it was before it, its order placed only *)
(* if the cart was emptied.                                                   *)
LEMMA EndKeeps ==
  ASSUME CheckoutInv, NEW a \in Attempt, attempt[a] # Idle,
         Finally(a), UNCHANGED <<products, orderCount>>,
         \/ UNCHANGED <<cart, placed>>
         \/ ClearCart,
         /\ isAuthenticated' \in BOOLEAN /\ contactVerified' \in BOOLEAN
         /\ codeSent' \in BOOLEAN /\ modal' \in BOOLEAN,
         failures' \in Nat,
         failures' = 0 => placed' = << >>
  PROVE  CheckoutInv'
<1>1. attempt' = [attempt EXCEPT ![a] = Idle] /\ loading' = FALSE
  BY DEF Finally
<1>2. \A b \in Attempt : b # a => attempt[b] = Idle
  BY OnlyRun
<1>3. /\ attempt' \in [Attempt -> Run \cup {Idle}]
      /\ \A b \in Attempt : attempt'[b] = Idle
  BY <1>1, <1>2 DEF CheckoutInv, ShopTyped
<1>4. /\ IsCart(cart') /\ Distinct(cart')
      /\ placed' \in Seq(SUBSET Offer) /\ Len(placed') <= orderCount
  <2>1. orderCount \in Nat
    BY DEF CheckoutInv, ShopTyped
  <2>2. CASE UNCHANGED <<cart, placed>>
    BY <2>2 DEF CheckoutInv, ShopTyped
  <2>3. CASE ClearCart
    <3>1. cart' = {} /\ placed' = << >>
      BY <2>3 DEF ClearCart
    <3>2. << >> \in Seq(SUBSET Offer) /\ Len(<< >>) <= orderCount
      BY <2>1
    <3> QED BY <3>1, <3>2 DEF IsCart, Distinct
  <2> QED BY <2>2, <2>3
<1>5. ShopTyped'
  BY <1>1, <1>3, <1>4 DEF CheckoutInv, ShopTyped
<1>6. OneRun'
  BY <1>3, IdleIsNoRun DEF CheckoutInv, OneRun
<1>7. CartOrdered'
  BY <1>3 DEF CartOrdered
<1> QED BY <1>5, <1>6, <1>7 DEF CheckoutInv

LEMMA TakeAnswerKeeps ==
  ASSUME CheckoutInv, NEW a \in Attempt, TakeAnswer(a)
  PROVE  CheckoutInv'
<1> DEFINE q == attempt[a]
<1>1. /\ q.step = "answered" /\ UNCHANGED <<products, contactVerified, edits,
                                            orderCount, failures>>
      /\ IF q.result = "placed" /\ ~Finished(q)
         THEN /\ attempt' = [attempt EXCEPT ![a].step = "pay"]
              /\ loading' = loading
         ELSE Finally(a)
      /\ IF Finished(q) THEN ClearCart ELSE UNCHANGED <<cart, placed>>
  BY DEF TakeAnswer, bounds
<1>2. q # Idle
  BY <1>1, IdleIsNoRun
<1>3. /\ q \in Run /\ loading /\ \A b \in Attempt : b # a => attempt[b] = Idle
      /\ IsCart(q.lines) /\ Complete(q.lines) /\ Named(cart) = Named(q.lines)
      /\ failures = 0 => Placing(q)
  BY <1>2, OnlyRun
<1>4. isAuthenticated' \in BOOLEAN /\ modal' \in BOOLEAN
  BY Zenon DEF TakeAnswer
<1>5. codeSent' \in BOOLEAN /\ contactVerified' \in BOOLEAN
  BY <1>1 DEF TakeAnswer, CheckoutInv, ShopTyped
<1>6. CASE Finally(a)
  <2>1. failures = 0 => placed' = << >>
    BY <1>1, <1>3, <1>6 DEF Placing, ClearCart, Finally
  <2>2. failures' \in Nat
    BY <1>1 DEF CheckoutInv, ShopTyped
  <2> QED BY <1>1, <1>2, <1>4, <1>5, <1>6, <2>1, <2>2, EndKeeps
<1>7. CASE /\ q.result = "placed" /\ ~Finished(q)
           /\ attempt' = [attempt EXCEPT ![a].step = "pay"]
           /\ loading' = loading
  <2> DEFINE r == [q EXCEPT !.step = "pay"]
  <2>1. r \in Run /\ r.step = "pay" /\ r.lines = q.lines
    BY <1>3 DEF Run
  <2>2. UNCHANGED <<cart, placed>>
    BY <1>1, <1>7
  <2>3. attempt' = [attempt EXCEPT ![a] = r]
    BY <1>7
  <2> HIDE DEF r
  <2>4. /\ attempt' \in [Attempt -> Run \cup {Idle}] /\ attempt'[a] = r
        /\ \A b \in Attempt : b # a => attempt'[b] = Idle
    BY <1>3, <2>1, <2>3 DEF CheckoutInv, ShopTyped
  <2>5. r # Idle
    BY <2>1, IdleIsNoRun
  <2>6. ShopTyped'
    BY <1>1, <1>4, <1>5, <1>7, <2>2, <2>4 DEF CheckoutInv, ShopTyped
  <2>7. OneRun'
    BY <1>1, <1>3, <1>7, <2>1, <2>4, IdleIsNoRun DEF CheckoutInv, OneRun
  <2>8. failures = 0 => placed = <<Named(q.lines)>>
    BY <1>1, <1>3, <1>7 DEF Placing
  <2>9. (failures = 0 => Placing(attempt[a]))'
    BY <1>1, <2>1, <2>2, <2>4, <2>8 DEF Placing
  <2>10. CartOrdered'
    BY <1>1, <1>3, <2>1, <2>2, <2>4, <2>5, <2>9 DEF CartOrdered
  <2> QED BY <2>6, <2>7, <2>10 DEF CheckoutInv
<1> QED BY <1>1, <1>6, <1>7

LEMMA PayKeeps ==
  ASSUME CheckoutInv, NEW a \in Attempt, Pay(a) \/ Fail(a)
  PROVE  CheckoutInv'
<1>1. /\ attempt[a].step \in {"order", "answered", "pay"} /\ Finally(a)
      /\ UNCHANGED <<products, isAuthenticated, contactVerified, codeSent,
                     modal, edits, orderCount>>
  BY DEF Pay, Fail, accountVars, bounds
<1>2. attempt[a] # Idle
  BY <1>1, IdleIsNoRun
<1>3. /\ isAuthenticated' \in BOOLEAN /\ contactVerified' \in BOOLEAN
      /\ codeSent' \in BOOLEAN /\ modal' \in BOOLEAN /\ failures \in Nat
  BY <1>1 DEF CheckoutInv, ShopTyped
<1>4. CASE Pay(a)
  <2>1. ClearCart /\ failures' = failures
    BY <1>4 DEF Pay, bounds
  <2>2. placed' = << >>
    BY <2>1 DEF ClearCart
  <2> QED BY <1>1, <1>2, <1>3, <2>1, <2>2, EndKeeps
<1>5. CASE Fail(a)
  <2>1. UNCHANGED <<cart, placed>> /\ failures' = failures + 1
    BY <1>5 DEF Fail
  <2>2. failures' \in Nat /\ failures' # 0
    BY <1>3, <2>1
  <2> QED BY <1>1, <1>2, <1>3, <2>1, <2>2, EndKeeps
<1> QED BY <1>4, <1>5

LEMMA CheckoutStep ==
  CheckoutInv /\ [CheckoutNext]_shopVars => CheckoutInv'
<1> SUFFICES ASSUME CheckoutInv, [CheckoutNext]_shopVars PROVE CheckoutInv'
  OBVIOUS
<1>1. CASE VerifyContact
  <2>1. /\ contactVerified' = TRUE
        /\ UNCHANGED <<products, cart, isAuthenticated, codeSent, modal,
                       loading, attempt, placed, orderCount, failures>>
    BY <1>1 DEF VerifyContact, bounds
  <2> QED
    BY <2>1 DEF CheckoutInv, ShopTyped, OneRun, CartOrdered, Placing
<1>2. CASE UNCHANGED shopVars
  BY <1>2 DEF CheckoutInv, ShopTyped, OneRun, CartOrdered, Placing, shopVars,
              accountVars, bounds
<1>3. ASSUME NEW a \in Attempt, Serve(a) PROVE CheckoutInv'
  BY <1>3, ServeOrderKeeps, TakeAnswerKeeps, PayKeeps DEF Serve
<1> QED
  BY <1>1, <1>2, <1>3, ShopKeeps, EditKeeps, PlaceOrderKeeps, PayKeeps
  DEF CheckoutNext

LEMMA CheckoutTyped == CheckoutInv => CheckoutTypeOK
<1> SUFFICES ASSUME CheckoutInv PROVE CheckoutTypeOK
  OBVIOUS
<1>1. Cardinality(Attempt) \in Nat \ {0}
  BY CheckoutAssumption, FS_CardinalityType, FS_EmptySet
<1>2. orderCount < MaxOrders + Cardinality(Attempt)
  BY <1>1, CheckoutAssumption DEF CheckoutInv, OneRun, ShopTyped
<1>3. \A a \in Attempt : attempt[a] # Idle =>
        /\ attempt[a].step \in {"order", "answered", "pay"}
        /\ attempt[a].result \in Result \cup {"none"}
  BY OnlyRun DEF Run
<1>4. {isAuthenticated, contactVerified, codeSent, modal, loading}
        \subseteq BOOLEAN
  BY DEF CheckoutInv, ShopTyped
<1> QED
  BY <1>2, <1>3, <1>4
  DEF CheckoutInv, ShopTyped, IsCart, Distinct, CheckoutTypeOK

(* handlePlaceOrder (checkout/page.tsx): no sequence of clicks, refusals,     *)
(* codes and corrections orders the same cart twice, for any catalogue, any   *)
(* number of lines and of runs, as long as no call failed.                    *)
THEOREM OneOrder == CheckoutSpec => []OneOrderPerCart
<1>1. CheckoutInv => OneOrderPerCart
  <2> SUFFICES ASSUME CheckoutInv, failures = 0 PROVE Len(placed) <= 1
    BY DEF OneOrderPerCart
  <2>1. CASE \A a \in Attempt : attempt[a] = Idle
    <3>1. placed = << >>
      BY <2>1 DEF CheckoutInv, CartOrdered
    <3> QED BY <3>1
  <2>2. ASSUME NEW a \in Attempt, attempt[a] # Idle PROVE Len(placed) <= 1
    <3>1. attempt[a] \in Run /\ Placing(attempt[a])
      BY <2>2, OnlyRun
    <3>2. placed = << >> \/ placed = <<Named(attempt[a].lines)>>
      BY <3>1 DEF Placing, Run
    <3>3. CASE placed = << >>
      BY <3>3
    <3>4. ASSUME NEW names, placed = <<names>> PROVE Len(placed) <= 1
      BY <3>4
    <3> QED BY <3>2, <3>3, <3>4
  <2> QED BY <2>1, <2>2
<1> QED BY <1>1, CheckoutStart, CheckoutStep, PTL DEF CheckoutSpec

(* The page empties the cart only of lines it has ordered: it cannot change   *)
(* while an order is in the air but in its measurements.                      *)
THEOREM CartKept == CheckoutSpec => CartKeptUntilOrdered
<1>1. CheckoutInv /\ [CheckoutNext]_shopVars =>
        (cart' # cart /\ attempt' # attempt /\ failures = 0 =>
           \A l \in cart : <<l.item, l.size>> \in Ordered)
  <2> SUFFICES ASSUME CheckoutInv, [CheckoutNext]_shopVars, cart' # cart,
                      attempt' # attempt, failures = 0
               PROVE  \A l \in cart : <<l.item, l.size>> \in Ordered
    OBVIOUS
  <2>1. ~Shop /\ ~VerifyContact /\ ~UNCHANGED shopVars
    BY DEF Shop, AddItem, RemoveItem, SetMeasurements, VerifyContact, shopVars
  <2>2. \A i, row : ~EditProduct(i, row)
    BY DEF EditProduct
  <2>3. \A a, method, code : ~PlaceOrder(a, method, code)
    BY DEF PlaceOrder
  <2>4. \A a, result : ~ServeOrder(a, result) /\ ~Fail(a)
    BY DEF ServeOrder, Fail
  <2>5. PICK a \in Attempt : TakeAnswer(a) \/ Pay(a)
    BY <2>1, <2>2, <2>3, <2>4 DEF CheckoutNext, Serve
  <2>6. \/ attempt[a].step = "answered" /\ attempt[a].result = "placed"
        \/ attempt[a].step = "pay"
    BY <2>5 DEF TakeAnswer, Finished, Pay
  <2>7. attempt[a] # Idle
    BY <2>6, IdleIsNoRun
  <2>8. /\ placed = <<Named(attempt[a].lines)>>
        /\ Named(cart) = Named(attempt[a].lines)
    BY <2>6, <2>7, OnlyRun DEF Placing
  <2>9. Ordered = Named(cart)
    <3>1. DOMAIN placed = {1} /\ placed[1] = Named(cart)
      BY <2>8
    <3> QED BY <3>1 DEF Ordered
  <2> QED BY <2>9 DEF Named
<1> QED
  BY <1>1, CheckoutStart, CheckoutStep, PTL
  DEF CheckoutSpec, CartKeptUntilOrdered

(* "Kept in step by hand": the API refuses the measurements of a line the     *)
(* page let through only if the product was edited in between.                *)
THEOREM RefusedWhenEdited == CheckoutSpec => RefusedOnlyIfEdited
<1>1. CheckoutInv /\ [CheckoutNext]_shopVars =>
        \A a \in Attempt :
          attempt'[a] # attempt[a] /\ attempt'[a].step = "answered"
            /\ attempt'[a].result = "measurements" =>
          \E l \in attempt[a].lines : l.copy # products[l.item]
  <2> SUFFICES ASSUME CheckoutInv, [CheckoutNext]_shopVars, NEW a \in Attempt,
                      attempt'[a] # attempt[a], attempt'[a].step = "answered",
                      attempt'[a].result = "measurements"
               PROVE  \E l \in attempt[a].lines : l.copy # products[l.item]
    OBVIOUS
  <2>1. attempt \in [Attempt -> Run \cup {Idle}]
    BY DEF CheckoutInv, ShopTyped
  <2>2. ~Shop /\ ~VerifyContact /\ ~UNCHANGED shopVars
    BY DEF Shop, AddItem, RemoveItem, SetMeasurements, VerifyContact, shopVars
  <2>3. \A i, row : ~EditProduct(i, row)
    BY DEF EditProduct
  <2>4. ASSUME NEW b \in Attempt, NEW method, NEW code,
               PlaceOrder(b, method, code)
        PROVE  FALSE
    <3>1. attempt'[a].step = "order"
      BY <2>1, <2>4 DEF PlaceOrder
    <3> QED BY <3>1
  <2>5. ASSUME NEW b \in Attempt, TakeAnswer(b) \/ Pay(b) \/ Fail(b)
        PROVE  FALSE
    <3>1. \/ attempt' = [attempt EXCEPT ![b].step = "pay"]
          \/ attempt' = [attempt EXCEPT ![b] = Idle]
      BY <2>5 DEF TakeAnswer, Pay, Fail, Finally
    <3>2. CASE attempt' = [attempt EXCEPT ![b] = Idle]
      BY <2>1, <3>2, IdleIsNoRun
    <3>3. CASE attempt' = [attempt EXCEPT ![b].step = "pay"]
      <4>1. attempt[b].step \in {"order", "answered", "pay"}
        BY <2>5 DEF TakeAnswer, Pay, Fail
      <4>2. attempt[b] \in Run
        BY <2>1, <4>1, IdleIsNoRun
      <4>3. attempt'[b].step = "pay"
        BY <2>1, <3>3, <4>2 DEF Run
      <4> QED BY <2>1, <3>3, <4>3
    <3> QED BY <3>1, <3>2, <3>3
  <2>6. PICK b \in Attempt, result \in Result : ServeOrder(b, result)
    BY <2>2, <2>3, <2>4, <2>5 DEF CheckoutNext, Serve
  <2> DEFINE q == attempt[b]
  <2>7. /\ q.step = "order" /\ result \in Outcomes(q)
        /\ attempt' = [attempt EXCEPT ![b] =
                         [q EXCEPT !.step = "answered", !.result = result]]
    BY <2>6 DEF ServeOrder
  <2>8. q # Idle
    BY <2>7, IdleIsNoRun
  <2>9. q \in Run /\ IsCart(q.lines) /\ Complete(q.lines)
    BY <2>8, OnlyRun
  <2>10. a = b /\ result = "measurements"
    BY <2>1, <2>7, <2>9 DEF Run
  <2>11. Faults(q.lines) # {}
    <3>1. Gate(q) # "measurements"
      BY DEF Gate
    <3> QED BY <2>7, <2>10, <3>1 DEF Outcomes
  <2>12. PICK l \in q.lines :
           Api!ValidateMeasurements(products[l.item], l.set, l.size) # {}
    BY <2>11 DEF Faults
  <2>13. /\ l.copy \in Rows[l.item] /\ l.item \in Item
         /\ l.set \in MeasurementSet
         /\ Page!IsComplete(l.copy, l.set, l.size)
    BY <2>9 DEF IsCart, CartLine, Complete
  <2>14. l.copy.requiresMeasurement \in BOOLEAN
    BY <2>13, RowsAreRows
  <2>15. l.set.given \in BOOLEAN /\ l.set.named \in BOOLEAN
    BY <2>13, SetFlags
  <2>16. Api!ValidateMeasurements(l.copy, l.set, l.size) = {}
    BY <2>13, <2>14, <2>15, MirrorAgrees
  <2>17. l.copy # products[l.item]
    BY <2>12, <2>16
  <2> QED BY <2>10, <2>17
<1> QED
  BY <1>1, CheckoutStart, CheckoutStep, PTL
  DEF CheckoutSpec, RefusedOnlyIfEdited

------------------------------------------------------------------------------
(* What is left of the types of the share dialog and of the audit's report.   *)
DialogTyped ==
  /\ ready \subseteq Channel
  /\ dialog \in [open : BOOLEAN, pending : Share \cup {Nobody}]
ReportTyped ==
  /\ report \in [Sku -> SUBSET Problem]
  /\ drifted \subseteq Sku /\ moved \subseteq Sku

LEMMA DialogStart == SocialInit => DialogTyped
BY DEF SocialInit, DialogTyped

LEMMA DialogKept ==
  LogInv /\ DialogTyped /\ [SocialNext]_socialVars => DialogTyped'
<1> SUFFICES ASSUME LogInv, DialogTyped, [SocialNext]_socialVars
             PROVE  DialogTyped'
  OBVIOUS
<1>1. CASE UNCHANGED <<ready, dialog>>
  BY <1>1 DEF DialogTyped
<1>2. ASSUME NEW r \in Share, NEW picks, ShareNow(r, picks) PROVE DialogTyped'
  BY <1>2 DEF ShareNow, DialogTyped
<1>3. ASSUME NEW r \in Share, ShareAnswered(r) PROVE DialogTyped'
  BY <1>3 DEF ShareAnswered, DialogTyped, LogInv, ShareRow
<1>4. CASE OpenOrClose
  BY <1>4 DEF OpenOrClose, DialogTyped
<1>5. CASE ApiRestarts
  BY <1>5 DEF ApiRestarts, DialogTyped
<1>6. ASSUME NEW r \in Share, NEW c \in Channel,
             \/ NextChannel(r, c) \/ ContainerMade(r) \/ Published(r)
             \/ CallFails(r) \/ AnswerLost(r) \/ Record(r) \/ Load(r)
      PROVE  UNCHANGED <<ready, dialog>>
  BY <1>6 DEF NextChannel, ContainerMade, Published, CallFails, AnswerLost,
              Record, Load, adminPage
<1>7. UNCHANGED socialVars \/ DeleteProduct => UNCHANGED <<ready, dialog>>
  BY DEF socialVars, DeleteProduct
<1>8. "FACEBOOK" \in Channel
  BY DEF Channel
<1>9. ASSUME NEW r \in Share, NotFound(r) \/ RecordFails(r)
      PROVE  DialogTyped'
  BY <1>9 DEF NotFound, RecordFails, Rejected, DialogTyped
<1> QED
  BY <1>1, <1>2, <1>3, <1>4, <1>5, <1>6, <1>7, <1>8, <1>9 DEF SocialNext

LEMMA ReportStart == ReconciliationInit => ReportTyped
BY DEF ReconciliationInit, ReportTyped

LEMMA ReportKept ==
  ReportTyped /\ [ReconciliationNext]_auditVars => ReportTyped'
<1> SUFFICES ASSUME ReportTyped, [ReconciliationNext]_auditVars
             PROVE  ReportTyped'
  OBVIOUS
<1>1. CASE UNCHANGED <<report, drifted, moved>>
  BY <1>1 DEF ReportTyped
<1>2. ASSUME NEW p \in Sku, NEW row, Moving(p, row),
             drifted' = drifted \/ drifted' = drifted \cup {p}
      PROVE  ReportTyped'
  BY <1>2 DEF Moving, ReportTyped
<1>3. CASE FindDrift
  BY <1>3 DEF FindDrift, ReportTyped, Drift
<1>4. ASSUME NEW p \in Sku,
             \/ Reserves(p) \/ Sells(p) \/ Releases(p)
             \/ \E change \in {-1, 1} : Adjusts(p, change)
             \/ \E total \in 0 .. MaxUnits : EditsSizes(p, total)
      PROVE  ReportTyped'
  BY <1>2, <1>4 DEF Reserves, Sells, Releases, Adjusts, EditsSizes
<1>5. ASSUME NEW p \in Sku, RepairWrite(p)
      PROVE  UNCHANGED <<report, drifted, moved>>
  BY <1>5 DEF RepairWrite
<1>6. RepairRead \/ RepairDone \/ AuditOnly \/ UNCHANGED auditVars =>
        UNCHANGED <<report, drifted, moved>>
  BY DEF RepairRead, RepairDone, AuditOnly, auditVars
<1> QED BY <1>1, <1>3, <1>4, <1>5, <1>6, Zenon DEF ReconciliationNext

------------------------------------------------------------------------------
(* The storefront is its parts: whichever part a behaviour follows, the       *)
(* others stutter.                                                            *)
LEMMA PartsStart ==
  StorefrontInit =>
    /\ SessionsInit /\ OtpInit /\ ReviewsInit /\ CheckoutInit
    /\ CatalogueInit /\ RowLocksInit /\ AssistantInit /\ ListingInit
    /\ VisualSearchInit /\ SocialInit /\ ReconciliationInit
BY DEF StorefrontInit

LEMMA PartsMove ==
  [StorefrontNext]_storefrontVars =>
    /\ [SessionsNext]_sessionVars /\ [OtpNext]_otpVars
    /\ [ReviewsNext]_reviewVars /\ [CheckoutNext]_shopVars
    /\ [CatalogueNext]_catalogueVars /\ [RowLocksNext]_lockVars
    /\ [AssistantNext]_chatVars /\ [ListingNext]_listingVars
    /\ [VisualSearchNext]_visualVars /\ [SocialNext]_socialVars
    /\ [ReconciliationNext]_auditVars
BY DEF StorefrontNext, storefrontVars, userVars, browseVars, officeVars

(* Each component of the storefront runs as its own specification says, so    *)
(* what is proved of one of them holds of the whole.                          *)
THEOREM StorefrontIsItsParts ==
  StorefrontSpec =>
    /\ SessionsSpec /\ OtpSpec /\ ReviewsSpec /\ CheckoutSpec
    /\ CatalogueSpec /\ RowLocksSpec /\ AssistantSpec /\ ListingSpec
    /\ VisualSearchSpec /\ SocialSpec /\ ReconciliationSpec
BY PartsStart, PartsMove, PTL
DEF StorefrontSpec, SessionsSpec, OtpSpec, ReviewsSpec, CheckoutSpec,
    CatalogueSpec, RowLocksSpec, AssistantSpec, ListingSpec,
    VisualSearchSpec, SocialSpec, ReconciliationSpec

LEMMA PeopleTyped ==
  /\ SessionsSpec => []SessionsTypeOK
  /\ OtpSpec => []OtpTypeOK
  /\ ReviewsSpec => []ReviewsTypeOK
  /\ CheckoutSpec => []CheckoutTypeOK
<1>1. SessionsSpec => []SessionsTypeOK
  BY SessionsTypeStart, SessionsTypeStep, SameType, PTL DEF SessionsSpec
<1>2. OtpInv => OtpTypeOK
  BY DEF OtpInv
<1>3. OtpSpec => []OtpTypeOK
  BY <1>2, OtpStart, OtpKeeps, PTL DEF OtpSpec
<1>4. ReviewsInv => ReviewsTypeOK
  BY DEF ReviewsInv
<1>5. ReviewsSpec => []ReviewsTypeOK
  BY <1>4, ReviewsStart, ReviewsKeep, PTL DEF ReviewsSpec
<1>6. CheckoutSpec => []CheckoutTypeOK
  BY CheckoutStart, CheckoutStep, CheckoutTyped, PTL DEF CheckoutSpec
<1> QED BY <1>1, <1>3, <1>5, <1>6

LEMMA PagesTyped ==
  /\ AssistantSpec => []AssistantTypeOK
  /\ ListingSpec => []ListingTypeOK
  /\ VisualSearchSpec => []VisualSearchTypeOK
<1>1. AssistantInv => AssistantTypeOK
  BY DEF AssistantInv, AssistantTypeOK, Question, Message
<1>2. AssistantSpec => []AssistantTypeOK
  BY <1>1, AssistantStart, AssistantStep, PTL DEF AssistantSpec
<1>3. ListingInv => ListingTypeOK
  BY DEF ListingInv
<1>4. ListingSpec => []ListingTypeOK
  BY <1>3, ListingStart, ListingKeeps, PTL DEF ListingSpec
<1>5. CameraInv => VisualSearchTypeOK
  BY DEF CameraInv
<1>6. VisualSearchSpec => []VisualSearchTypeOK
  BY <1>5, CameraStart, CameraKeeps, PTL DEF VisualSearchSpec
<1> QED BY <1>2, <1>4, <1>6

LEMMA OfficeTyped ==
  /\ SocialSpec => []SocialTypeOK
  /\ ReconciliationSpec => []ReconciliationTypeOK
<1>1. LogInv /\ DialogTyped => SocialTypeOK
  BY DEF LogInv, DialogTyped, SocialTypeOK, ShareRow, Step
<1>2. SocialSpec => []SocialTypeOK
  BY <1>1, LogStart, LogKept, DialogStart, DialogKept, PTL DEF SocialSpec
<1>3. AuditInv /\ ReportTyped => ReconciliationTypeOK
  BY DEF AuditInv, ReportTyped, ReconciliationTypeOK
<1>4. ReconciliationSpec => []ReconciliationTypeOK
  BY <1>3, AuditStart, AuditKept, ReportStart, ReportKept, PTL
     DEF ReconciliationSpec
<1> QED BY <1>2, <1>4

(* Every table and page of the storefront keeps its type, whatever the        *)
(* catalogue, the carts, the tree and the number of requests.                 *)
THEOREM StorefrontTyped == StorefrontSpec => []StorefrontTypeOK
<1> DEFINE PartNamed == part \in Parts
<1>1. StorefrontInit => PartNamed
  BY DEF StorefrontInit
<1>2. PartNamed /\ [StorefrontNext]_storefrontVars => PartNamed'
  <2>1. StorefrontNext => part' = part
    BY Zenon DEF StorefrontNext
  <2>2. UNCHANGED storefrontVars => part' = part
    BY DEF storefrontVars
  <2> QED BY <2>1, <2>2
<1>3. StorefrontSpec => []PartNamed
  <2> HIDE DEF PartNamed
  <2> QED BY <1>1, <1>2, PTL DEF StorefrontSpec
<1>4. RowLocksSpec => []RowLocksTypeOK
  BY LocksAreHeldApart, PTL
<1>5. /\ PartNamed
      /\ SessionsTypeOK /\ OtpTypeOK /\ ReviewsTypeOK /\ CheckoutTypeOK
      /\ CatalogueTypeOK /\ RowLocksTypeOK /\ AssistantTypeOK
      /\ ListingTypeOK /\ VisualSearchTypeOK /\ SocialTypeOK
      /\ ReconciliationTypeOK
      => StorefrontTypeOK
  BY DEF StorefrontTypeOK
<1> HIDE DEF PartNamed
<1> QED
  BY <1>3, <1>4, <1>5, StorefrontIsItsParts, PeopleTyped, PagesTyped,
     OfficeTyped, CatalogueTyped, PTL

(* So what the components promise holds of the storefront as it is run.       *)
THEOREM StorefrontKeepsPromises ==
  StorefrontSpec =>
    /\ []GuessesLimited /\ []SendsLimited /\ []HelpfulCountsVotes
    /\ []OneOrderPerCart /\ CartKeptUntilOrdered /\ RefusedOnlyIfEdited
    /\ []ShownIsAsked /\ []CameraFollowsModal /\ []OnlyRealProducts
    /\ []NothingDangles /\ TwoLevels /\ []LogTellsTruth /\ []ReportIsEarned
BY StorefrontIsItsParts, GuessesBounded, SendsBounded, CountTrue, OneOrder,
   CartKept, RefusedWhenEdited, ListShown, CameraOff, CardsAreReal, KeysHold,
   TreeFlat, LogHonest, ReportHonest, PTL
=============================================================================
