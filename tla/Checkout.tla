------------------------------- MODULE Checkout ------------------------------
(* One shopper's cart (frontend/src/store/useCartStore.ts), the checkout page *)
(* that orders it (app/(shop)/checkout/page.tsx) and what the API does with   *)
(* its requests (orders.service.ts guestCheckout and create, up to the        *)
(* transaction that Platform models), for as long as the shopper stays on the *)
(* page with an order in the air.  Quantities and the order of the lines are  *)
(* left out.                                                                  *)
EXTENDS Integers, Sequences, FiniteSets

Api  == INSTANCE Measurements
Page == INSTANCE PageMeasurements

CONSTANTS
  Offer,        \* <<item, size>> pairs a page can put in the cart
  Rows,         \* Rows[item]: the products rows it may have over time
  Attempt,      \* runs of handlePlaceOrder that may overlap, 1 .. n
  MaxLines, MaxEdits, MaxOrders, MaxFailures   \* bounds

Item == {offer[1] : offer \in Offer}

ASSUME CheckoutAssumption ==
  /\ \A offer \in Offer : offer = <<offer[1], offer[2]>>
  /\ \A i \in Item : \A row \in Rows[i] : row.requiresMeasurement \in BOOLEAN
  /\ IsFiniteSet(Attempt) /\ Attempt # {} /\ MaxOrders \in Nat

VARIABLES
  products,     \* the row of each item
  cart,         \* the lines; each holds a copy of the row it was made from
  isAuthenticated, contactVerified,
  codeSent,     \* a live one-time code is in the shopper's inbox
  modal,        \* the page has asked for a code
  loading,      \* what disables the buttons
  attempt,      \* handlePlaceOrder, as far as it got
  placed,       \* the lines of each order placed since the cart was emptied
  edits, orderCount, failures

accountVars == <<isAuthenticated, contactVerified, codeSent, modal>>
bounds      == <<edits, orderCount, failures>>
shopVars    == <<products, cart, accountVars, loading, attempt, placed, bounds>>

NoSize == "no size"
NoSet  == [given |-> FALSE, named |-> FALSE, values |-> << >>]
Idle   == [step |-> "idle"]
Result == {"placed", "VERIFICATION_REQUIRED", "OTP_INVALID", "measurements",
           "error"}

CheckoutTypeOK ==
  /\ \A i \in Item : products[i] \in Rows[i]
  /\ \A line \in cart : /\ <<line.item, line.size>> \in Offer
                        /\ line.copy \in Rows[line.item]
  /\ \A l, k \in cart : l.item = k.item /\ l.size = k.size => l = k
  /\ {isAuthenticated, contactVerified, codeSent, modal, loading}
       \subseteq BOOLEAN
  /\ \A a \in Attempt : attempt[a] # Idle =>
       /\ attempt[a].step \in {"order", "answered", "pay"}
       /\ attempt[a].result \in Result \cup {"none"}
  /\ Len(placed) <= orderCount
  /\ orderCount < MaxOrders + Cardinality(Attempt)

CheckoutInit ==
  /\ products \in [Item -> UNION {Rows[i] : i \in Item}]
  /\ \A i \in Item : products[i] \in Rows[i]
  /\ cart = {} /\ placed = << >>
  /\ isAuthenticated \in BOOLEAN /\ contactVerified \in BOOLEAN
  /\ codeSent = FALSE /\ modal = FALSE /\ loading = FALSE
  /\ attempt = [a \in Attempt |-> Idle]
  /\ edits = 0 /\ orderCount = 0 /\ failures = 0

------------------------------------------------------------------------------
(* The cart.  A size that is not given matches every line of the product,     *)
(* except when a line is added.                                               *)
Matches(line, item, size) ==
  line.item = item /\ (size = NoSize \/ line.size = size)

NeverSame(line, item, size) == FALSE
SameLine(line, item, size) == line.item = item /\ line.size = size

AddItem(item, size, set) ==
  LET same == {l \in cart : SameLine(l, item, size)} IN
  /\ ~loading
  /\ same # {} \/ Cardinality(cart) < MaxLines
  /\ cart' = IF same = {}
             THEN cart \cup {[item |-> item, size |-> size,
                              copy |-> products[item], set |-> set]}
             ELSE IF ~set.given THEN cart
             ELSE (cart \ same) \cup {[l EXCEPT !.set = set] : l \in same}
  /\ UNCHANGED <<products, accountVars, loading, attempt, placed, bounds>>

RemoveItem(line) ==
  /\ ~loading
  /\ cart' = {l \in cart : ~Matches(l, line.item, line.size)}
  /\ UNCHANGED <<products, accountVars, loading, attempt, placed, bounds>>

SetMeasurements(line, set) ==
  /\ cart' = {IF Matches(l, line.item, line.size)
              THEN [l EXCEPT !.set = set] ELSE l : l \in cart}
  /\ UNCHANGED <<products, accountVars, loading, attempt, placed, bounds>>

(* A filled-in measurement form, with the least value of each field.          *)
Form(product) ==
  LET fields == Page!FieldsFor(product) IN
  [given |-> TRUE, named |-> TRUE,
   values |-> [f \in DOMAIN fields |-> fields[f][1]]]

(* Cards and the wishlist give no size; a product's page and the quick view   *)
(* give one, and the page a form when one was filled in.                      *)
Shop ==
  \/ \E offer \in Offer :
       \/ AddItem(offer[1], offer[2], NoSet)
       \/ /\ offer[2] # NoSize
          /\ AddItem(offer[1], offer[2], Form(products[offer[1]]))
  \/ \E line \in cart :
       \/ RemoveItem(line)
       \/ /\ Page!NeedsMeasurements(line.copy, line.size)
          /\ Page!Saves(line.copy, Form(line.copy))
          /\ SetMeasurements(line, Form(line.copy))

(* An admin edits a product; carts keep their copies.                         *)
EditProduct(i, row) ==
  /\ edits < MaxEdits /\ row # products[i]
  /\ edits' = edits + 1
  /\ products' = [products EXCEPT ![i] = row]
  /\ UNCHANGED <<cart, accountVars, loading, attempt, placed, orderCount,
                 failures>>

------------------------------------------------------------------------------
(* handlePlaceOrder, as far as its first request.                             *)
Missing == {l \in cart : ~Page!IsComplete(l.copy, l.set, l.size)}
AlwaysEnabled == TRUE
Enabled == ~loading
StaysDisabled == TRUE
LoadingWhenMissing == FALSE

PlaceOrder(a, method, code) ==
  /\ Enabled /\ attempt[a] = Idle /\ \A b \in 1 .. a - 1 : attempt[b] # Idle
  /\ cart # {} /\ orderCount < MaxOrders
  /\ code # "none" => modal
  /\ IF Missing # {}
     THEN loading' = LoadingWhenMissing /\ UNCHANGED attempt
     ELSE /\ loading' = TRUE
          /\ attempt' = [attempt EXCEPT ![a] =
               [step |-> "order", guest |-> ~isAuthenticated, method |-> method,
                code |-> code, lines |-> cart, result |-> "none"]]
  /\ UNCHANGED <<products, cart, accountVars, placed, bounds>>

(* guestCheckout finds or makes the account, tries the code, and asks for a   *)
(* verified contact only for COD; create asks for one always, and is sent no  *)
(* code.                                                                      *)
CodeTried(q) == q.guest /\ q.code # "none"
CodeRight(q) == CodeTried(q) /\ q.code = "right" /\ codeSent
Gate(q) ==
  IF CodeTried(q) /\ ~CodeRight(q) THEN "OTP_INVALID"
  ELSE IF (q.guest => q.method = "cod") /\ ~contactVerified /\ ~CodeRight(q)
  THEN "VERIFICATION_REQUIRED" ELSE "open"

(* createOrderInternal looks the products up by their ids and expects as many *)
(* rows as lines; a product may also be inactive or out of stock.             *)
TwiceOnIt(lines) == \E l, k \in lines : l # k /\ l.item = k.item
Faults(lines) ==
  UNION {Api!ValidateMeasurements(products[l.item], l.set, l.size) :
           l \in lines}

Outcomes(q) ==
  IF Gate(q) # "open" THEN {Gate(q)}
  ELSE IF TwiceOnIt(q.lines) THEN {"error"}
  ELSE IF Faults(q.lines) # {} THEN {"error", "measurements"}
  ELSE {"error", "placed"}

ServeOrder(a, result) ==
  LET q == attempt[a] IN
  /\ q.step = "order"
  /\ result \in Outcomes(q)
  /\ attempt' = [attempt EXCEPT ![a] =
                   [q EXCEPT !.step = "answered", !.result = result]]
  /\ contactVerified' = (contactVerified \/ CodeRight(q))
  /\ codeSent' = (codeSent /\ ~CodeRight(q))
  /\ IF result = "placed"
     THEN /\ placed' = Append(placed, {<<l.item, l.size>> : l \in q.lines})
          /\ orderCount' = orderCount + 1
     ELSE UNCHANGED <<placed, orderCount>>
  /\ UNCHANGED <<products, cart, isAuthenticated, modal, loading, edits,
                 failures>>

------------------------------------------------------------------------------
(* The page takes the answer.  A guest's COD order needs no payment request.  *)
Finally(a) ==
  /\ attempt' = [attempt EXCEPT ![a] = Idle]
  /\ loading' = FALSE
ClearCart == cart' = {} /\ placed' = << >>

ClearsOnAnyAnswer(q) == q.guest /\ q.method = "cod"
Finished(q) == q.guest /\ q.method = "cod" /\ q.result = "placed"

TakeAnswer(a) ==
  LET q == attempt[a] IN
  /\ q.step = "answered"
  /\ isAuthenticated' = (isAuthenticated \/ (q.guest /\ q.result = "placed"))
  /\ IF q.result = "placed" /\ ~Finished(q)
     THEN /\ attempt' = [attempt EXCEPT ![a].step = "pay"]
          /\ UNCHANGED loading
     ELSE Finally(a)
  /\ IF Finished(q) THEN ClearCart ELSE UNCHANGED <<cart, placed>>
  /\ modal' = (modal \/ q.result \in {"VERIFICATION_REQUIRED", "OTP_INVALID"})
  /\ codeSent' \in IF q.result = "VERIFICATION_REQUIRED" /\ ~q.guest
                   THEN {codeSent, TRUE} ELSE {codeSent}
  /\ UNCHANGED <<products, contactVerified, bounds>>

(* createCodPayment, createInstallmentPayment or createPayherePayment.        *)
Pay(a) ==
  /\ attempt[a].step = "pay"
  /\ Finally(a) /\ ClearCart
  /\ UNCHANGED <<products, accountVars, bounds>>

(* A payment request is refused, or an answer is lost: the catch block.       *)
Fail(a) ==
  /\ attempt[a].step \in {"order", "answered", "pay"} /\ failures < MaxFailures
  /\ failures' = failures + 1
  /\ Finally(a)
  /\ UNCHANGED <<products, cart, accountVars, placed, edits, orderCount>>

(* The verify page, for who is signed in.                                     *)
VerifyContact ==
  /\ isAuthenticated /\ ~contactVerified /\ ~loading
  /\ contactVerified' = TRUE
  /\ UNCHANGED <<products, cart, isAuthenticated, codeSent, modal, loading,
                 attempt, placed, bounds>>

------------------------------------------------------------------------------
Serve(a) == (\E result \in Result : ServeOrder(a, result)) \/ TakeAnswer(a)
            \/ Pay(a)
CheckoutNext ==
  \/ Shop
  \/ \E i \in Item : \E row \in Rows[i] : EditProduct(i, row)
  \/ \E a \in Attempt :
       \/ \E method \in {"cod", "online"}, code \in {"none", "right", "wrong"} :
            PlaceOrder(a, method, code)
       \/ Serve(a) \/ Fail(a)
  \/ VerifyContact

CheckoutFairness == \A a \in Attempt : WF_shopVars(Serve(a))
CheckoutSpec ==
  CheckoutInit /\ [][CheckoutNext]_shopVars /\ CheckoutFairness

------------------------------------------------------------------------------
(* Properties.                                                                *)

(* One cart, one order: as long as no call failed, no sequence of clicks,     *)
(* refusals, codes and corrections orders the same cart twice.                *)
OneOrderPerCart == failures = 0 => Len(placed) <= 1

(* The page takes lines out of the cart only once they are ordered.           *)
Ordered == UNION {placed[n] : n \in DOMAIN placed}
CartKeptUntilOrdered ==
  [][cart' # cart /\ attempt' # attempt /\ failures = 0 =>
       \A l \in cart : <<l.item, l.size>> \in Ordered]_shopVars

(* The API refuses measurements the page let through only when the product    *)
(* was edited after it was put in the cart: the copy of the rules that is     *)
(* "kept in step by hand" asks for what the API asks for.                     *)
RefusedOnlyIfEdited ==
  [][\A a \in Attempt :
       attempt'[a] # attempt[a] /\ attempt'[a].step = "answered"
         /\ attempt'[a].result = "measurements" =>
       \E l \in attempt[a].lines : l.copy # products[l.item]]_shopVars

(* The buttons do not stay disabled: every run of handlePlaceOrder ends.      *)
ButtonsComeBack == loading ~> ~loading
=============================================================================
