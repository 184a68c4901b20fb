# Formal model of the textile automation platform

TLA+ modules, TLC configurations and TLAPS proofs for the NestJS backend under
`backend/src` and for the parts of the storefront and of the AI service whose
own state can go wrong. The core is the order pipeline: how an order, its
stock, its garments and its payment stay in step while requests, PayHere's
notifications and restarts interleave. Around it stand the parts a shopper or
an admin works with: sessions, codes, reviews, the cart, the catalogue, the
list, the camera, the assistant, social sharing and the stock audit.

    tlc -workers 4 -config racing_stock.cfg MCPlatform.tla      # the pipeline
    tlc -workers 4 -config storefront.cfg MCStorefront.tla      # the rest
    tlapm PlatformProofs.tla                                    # a proof module

## 1. Inventory of the system

| Part | State it keeps | Operations | What makes it hard |
|---|---|---|---|
| Order machine `orders/order.machine.ts` | none: the status graph | `canTransition`, `allowedOrderActions` | two services must agree on it |
| Production machine `production/production.machine.ts` | none | `applyAction`, `allowedActions` | its backward edge (a QC failure) must be one of the order graph |
| Inventory `inventory/inventory.service.ts` | `inventory`, `inventory_movements`, the cache `products.stock_quantity`, `attributes.sizeStock` | reserve, sale, release, restock, adjust, setMinimum, low-stock alert | concurrent guarded UPDATEs; three copies of one number |
| Stock audit `inventory/reconcile.ts` | the rows it has read | findDrift, repairCache | reads and writes one row at a time beside an open shop |
| Orders `orders/orders.service.ts` | `orders`, `order_status_history` | create, cancel, advance, deliver, confirmOrder | decides on rows read before the transaction |
| Production `production/production.service.ts` | `production_tasks` | createTasksForOrder, assign, act, syncOrderStatus | derives the order's status from a READ COMMITTED snapshot |
| Payments `payments/payments.service.ts` | `payments`, `installments`, `payment_webhook_events` | PayHere checkout and notify, COD, installments, Stripe webhook, mark paid, reject | several statements with no transaction around them; redelivery; restarts |
| Row locks (PostgreSQL under all of them) | the rows each transaction holds | create, cancel, confirm, act, adjust, delete | lock order follows the cart and the handler |
| Catalogue `products/products.service.ts` | products, the tree of categories | create, update, archive, delete; create, move and delete a category | looks in one statement, writes in another |
| Sessions `auth/auth.service.ts`, `frontend/src/services/http.ts`, `lib/api.ts` | `refresh_tokens`, the browser's cookie and access token | login, refresh with rotation, logout, single-flight refresh | reuse detection against concurrent requests, lost answers |
| Verification `verification/verification.service.ts` | `verification_codes` | sendCode, verifyCode | attempts and hourly limits counted by read-then-write |
| Reviews `reviews/reviews.service.ts` | `reviews`, helpful votes, reports | create, update, toggle helpful, report, moderate, remove | a cached counter beside the rows it counts |
| Cart and checkout `store/useCartStore.ts`, `checkout/page.tsx`, `lib/measurements.ts` | the cart, the page's state, a copy of the measurement rules | edit the cart, place the order, enter the code | double submits, failures half way, two copies of one rule set |
| Product list and header search | the list, the pager, the suggestions | filter, turn the page, type | answers out of order |
| Search by image `VisualSearchModal.tsx` | the camera stream, the picture | open, start, capture, choose a file or a preset, search again, close, Escape | closures that see an old stream; a late grant; pictures that do not stop the camera |
| Assistant `ai.service.ts`, `ai/app/chat.py`, the widget | the conversation | ask, answer, fall back | the model may answer anything, late, or not at all |
| Social sharing `social/social.service.ts`, the share dialog | `social_posts`, the dialog | share to Facebook and Instagram | published before it is logged; lost answers; a row that cannot be written |
| Notifications, e-mail, SMS, invoices, uploads, analytics, the rest of the pages | rows, files and pages nothing reads back | - | best effort or read only |

Calls between the parts: every payment path calls `OrdersService.confirmOrder`,
which runs `InventoryService.sale` for each line and
`ProductionService.createTasksForOrder` in one transaction. `cancel` calls
`release` or `restock`. `ProductionService.act` moves the order through
`syncOrderStatus`. All of it shares one PostgreSQL database at READ COMMITTED.
PayHere calls back whenever it likes, as often as it likes. An admin, customers
and workers use the API at the same time. The storefront reaches the API
through two HTTP clients, each with its own refresh of the session; the cart
keeps copies of product rows, which the create request checks again; the AI
service reads the catalogue through the API's database and answers the widget
through the API's gateway.

What makes the parts correct:

* **Inventory**: never more promised than on the shelf; both balances and the
  cache are what the ledger says; the low-stock flag follows the stock; the
  audit's clean report is one that was earned.
* **Orders**: an order moves along the graph; its reservation ends in exactly
  one sale or release; the history says what happened.
* **Production**: COMPLETED means inspected; inspected means COMPLETED; a legal
  action is never refused because the order cannot follow.
* **Payments**: one deduction per order however often it is confirmed; a
  reported success ends in a confirmed order; a cancellation settles the
  payment and its installments; what was paid stays paid.
* **Sessions**: the reuse alarm is not raised against the honest browser, and a
  signed-in page that makes a request gets its answer.
* **Codes**: wrong guesses and codes sent stay within the limits, up to the
  requests that overlap.
* **Reviews**: the cached count is the number of votes.
* **Checkout**: one order per cart; a line stays in the cart until it is
  ordered; the API refuses only what changed meanwhile; the buttons come back.
* **Catalogue**: no product, category or order line refers to a deleted row;
  the tree has two levels.
* **Locks**: the only deadlocks are those between transactions that take their
  rows in a known, different order.
* **Browsing**: at rest the page shows what its address asks for; the camera is
  on only while the modal shows its tab, but for a grant that comes too late and
  for a preset or a file, behind which it runs on while the modal stays there;
  the assistant shows only real products.
* **Social**: while the product exists, the log tells what Meta shows, but for
  posts whose answer, process or row was lost.

`PROJECT.json` lists the hazards with the line at which each one bites.

## 2. Modules

| Module | Models | Shape |
|---|---|---|
| `OrderMachine` | the status graph, the admin's verbs | pure operators |
| `ProductionMachine` | the task machine, and the derivation of an order's status | pure operators |
| `Tables` | the tables, the requests in flight, their types | variables, `TypeOK` |
| `InventoryService` | stock operations | operators on one product's row; `Adjust`, `SetMinimum`, `EditSizes` as actions |
| `ProductionService` | tasks | `Assign...`, `ActRead`, `ActUpdate`, `ActDerive`, `ActCommit` |
| `OrdersService` | orders | `Create...`, `Cancel...`, `Verb...`, and `ConfirmOrder`, which payments call |
| `PaymentsService` | payments, PayHere | `Pay...`, `Stripe...`, `Notify...`, `Attempt` |
| `Platform` | all of them over one database, restarts, fairness, the properties | `Spec` |
| `StockPromise` | abstract: units are free, promised or gone | refined by `Platform` |
| `Reservations` | abstract: an order holds, sells or gives back its units once | refined by `Platform`, a cancellation being alone with its order |
| `Reconciliation` | the audit script and its repair beside a shop that trades | specification |
| `RowLocks` | the rows each transaction locks, in order; deadlock and its victim | specification |
| `Catalogue` | categories and products, look then write, foreign keys | specification |
| `Sessions` | rotation, reuse detection, two HTTP clients, page loads, sign-out | specification |
| `Verification` | one-time codes | specification |
| `Reviews` | the review of one product on one order, its votes | specification |
| `Measurements`, `PageMeasurements` | the measurement rules, as the API and as the page have them | pure operators |
| `Checkout` | the cart, the checkout page, and the API's answers to it | specification, uses both copies of the rules |
| `Listing` | the product list with its pager, the header's suggestions | specification |
| `VisualSearch` | the camera of the search by image | specification |
| `Assistant` | the widget, the gateway, the model and its fallbacks | specification |
| `Social` | the share dialog, the service, Meta | specification |
| `Storefront` | the eleven specifications above, one `part` at a time | `StorefrontSpec` |
| `MCPlatform`, `MCStorefront` | instances for TLC | constants, symmetry |
| `PlatformProofs`, `StockProofs`, `ConfirmProofs`, `OrderProofs`, `UserProofs`, `BrowseProofs`, `OfficeProofs`, `StorefrontProofs` | theorems | TLAPS |

Each service module EXTENDS the one it calls, so the chain `Tables` -
`InventoryService` - `ProductionService` - `OrdersService` - `PaymentsService` -
`Platform` is the call graph. The parts of `Storefront` share no state: a
behaviour of all of them is one of each, side by side, and its runs follow the
part picked in the first state, which costs the sum of their state spaces and
not the product. Where two of these parts do meet, one module holds both: the
page, the rules and the API's validation in `Checkout`, the widget and the
catalogue in `Assistant`, the script and the shop in `Reconciliation`.

**From code to action, pipeline.** A request is a slot of `call`. Its first
step reads and validates; what it read and will use again is kept in the slot;
each later step is one transaction, or one statement outside any. Code that
decides on a row read before its transaction therefore decides on the copy in
the slot, and everything else sees the tables as they are:

* `createOrderInternal` - `CreateRead` (products, outside), `CreateCommit`
  (the transaction: guarded reserve of every line, or nothing);
* `cancel` - `CancelRead` keeps the status, the payment and whether an
  installment was paid; `CancelCommit` writes what these say;
* `advance`, `deliver` - `VerbRead`, `VerbCommit`;
* `act` - one transaction in the code, four steps in the model, because at
  READ COMMITTED it reads its task without a lock (`ActRead`), takes the row's
  lock and reads the order (`ActUpdate`), reads the other tasks as last
  committed (`ActDerive`), and writes and commits (`ActCommit`). `Locked` is
  that row lock;
* `confirmOrder` - one step, since the order row is locked and read again;
* the payment handlers - one step per statement, and a restart may fall between
  any two;
* `adjust`, `setMinimum` and the product update - one step each: row locks and
  guarded UPDATEs inside one transaction.

**From code to action, the other parts.** The same rule: one step per statement
of the API, per answer that reaches a page, per effect or handler of a page.
A page's closure that keeps a value of an older render keeps it in the model
too (`cleanup` in `VisualSearch`, the lines an attempt was made from in
`Checkout`, whether a fetch is still current in `Listing`). Variables commented
as history record what happened for a property and are read by no guard.

**Data.** Quantities are integers; a size is a model value; prices, addresses,
names and notes are left out, except where a property is about them
(`Assistant` has prices, `Checkout` the measurements a product needs). `trail`
is the newest history row. `rows` counts, per order, how often each movement
type was written for its lines. The alert is the flag that files it. The dues
of a plan are the status of its first installment: no routed endpoint tells the
others apart.

**Left out of the modelled operations.** Who owns what and who is verified
(they only refuse requests, save for the code a checkout asks for); signatures
and amounts (a notification is a genuine one for the right amount); PayHere's
other status codes, of which -1 and -3 act like -2 and the rest change nothing;
`createFullPayment`, `payInstallment`, `confirmInstallment`, which have no
route; e-mails, in-app notifications and audit rows, which nothing reads back.
`Platform` does not show deadlocks between row locks, `RowLocks` does:
PostgreSQL aborts one of the transactions and the request fails whole.
`confirmPayment` reads the payment and pays the first installment in one step:
its plan, once INSTALLMENT, stays so.

## 3. Runs

`Ops` names the endpoints a run of `MCPlatform` exercises, `Slot` the requests
served at the same time, `Parts` the parts a run of `MCStorefront` follows.
Every run disables the deadlock check: the shop may be idle for good.

| Run | Bounds | Shows |
|---|---|---|
| `serial_orders` | 1 slot; two orders (two garments and a belt; two belts), stock 1, 1, 3; two workers | the order, floor and stock rules along every legal sequence of calls; `Reservations` is implemented |
| `serial_payments` | 1 slot; one order for the last unit; two PayHere attempts | the payment rules, with liveness |
| `racing_stock` | 2 slots; two orders for one of three belts; admin moves of one unit | `StockFloor`, `LedgerReconciles`, `AlertTracksFloor`, `DeductedOnce` under interleaving |
| `racing_payments` | 2 slots; one order; one attempt; one restart | `EventActedOnOnce` |
| `racing_sizes` | 2 slots; two orders for two sizes, one unit each; adjustments and edits | sizes under stale writes; `StockPromise` is implemented |
| `storefront` | below | the properties of the other eleven parts |

Two requests are enough for each of the races the pipeline is exposed to, since
all of them are between one read and one write; two orders are needed for one
to take another's reservation, and two garments for one task to overtake
another. Three units let an adjustment and both orders meet at the floor.
`MaxMoved` bounds the totals an admin moves by hand per movement type, the
minimum set and the stock an edit of the sizes can leave (1), `MaxCrashes` the
restarts; nothing else is bounded, the state space being finite otherwise.
`racing_stock` permutes slots and orders, which its cart and its properties do
not tell apart; `racing_payments` permutes slots. No run with a temporal
property uses symmetry.

The bounds of `storefront`, part by part, and what each lets happen:

| Part | Bounds | Enough for |
|---|---|---|
| session | one HTTP client, two requests, one page load or sign-in, one lost refresh | requests refused together; a refresh crossed by a sign-out; a cookie whose rotation was lost |
| codes | two requests at once, `MaxSends` 1, `MaxAttempts` 2, three codes | two guesses between one read and one write, at and past each limit |
| reviews | two voters, two requests, three rows ever | a double click; a vote beside a removal; a second review after it |
| checkout | two items, one with two forms, two attempts, two lines, one product edit, two orders, one failed call | a double submit, a code asked half way, an order whose payment request fails, a refusal after an edit |
| catalogue | three categories, three starting trees, one product, two clerks, one order line | each look with each write of the other clerk between |
| locks | two transactions on three orders, two of them with the same products in opposite orders | every pair of transactions that can meet (for more, see `RingsNeedCarts` in section 4) |
| assistant | two products and an invented one, two prices, one change, one question | a product repriced or archived before, while and after the model answers |
| listing | two filters, of two pages and one, three navigations, two keystrokes, two words | an answer overtaken by a newer one; a page the new filter has not |
| camera | three streams, seven moves | a grant after a tab was left and entered again, with Escape, capture and close; a camera running behind a preset or a file, and what stops it |
| social | two requests, two clicks, one trouble (a lost answer, a database error or a restart), one deletion of the product | the dialog closed and used again while the first request runs; a row refused after its post was published |
| audit | two rows, two opening states, two units, two trades | trades between the reads, between read and write, and after |

**Why some properties are checked one request at a time.** `SettledOnce`,
`FloorFinishes`, `ReservedBacksPending`, `StatusFollowsGraph`,
`TrailTellsTruth`, `CompletedMeansInspected`, `PaidIsConfirmed`,
`PaidStaysPaid` and `OrdersHoldTheirUnits` hold of every sequence of requests
and several of them do not hold when two requests overlap on one order. How far
each one does hold, for any number of requests, is what `OrderProofs` proves
(section 4); where a document of the repository claims more, a run shows the
difference:

| Run | Property | What happens |
|---|---|---|
| `double_cancel` | `SettledOnce` | two cancellations read PENDING; both release; the second takes another order's reservation |
| `floor_race` | `FloorFinishes` | two QC passes at once; each misses the other; every task is done and the order stays in QUALITY_CHECK |
| `lost_success` | `SuccessConfirms` | a restart after the event is recorded; the redelivery is a duplicate; the paid order stays PENDING |
| `stale_status` | `StatusFollowsGraph` | a cancellation and a fulfilment both read CONFIRMED; the cancelled order, its stock returned, becomes COMPLETED |
| `unflagged_refund` | `CancelFlagsRefund` | an installment plan marked paid by an admin, then cancelled, ends FAILED, not REFUNDED |
| `two_clients` | `NoFalseAlarm` | a page uses both HTTP clients; each refreshes on its own; the second refresh is taken for reuse and revokes every session |

**Also against a document**, and in the model, without a run of its own:

* editing the sizes of a product writes balance and cache with no movement row
  (`products.service.ts:597`), which `update-product.dto.ts:7-12` warns against:
  `LedgerReconciles` fails under the constants of `racing_sizes`;
* a second checkout, or COD, that read the payment before a success arrived
  writes PENDING over COMPLETED (`payments.service.ts:593`, 784), although the
  plan (4.2) lets a paid payment only be refunded: `PaidStaysPaid` fails under
  the constants of `serial_payments` with two slots;
* `social.service.ts:84-88` says that each platform is wrapped and every attempt
  recorded. But `record` is returned without an await (171, 239) and caught
  nowhere: when its row is refused, by the foreign key of a product deleted
  meanwhile or by the database, the request ends, the next channel is not tried,
  and a post that was published is not logged. The action `RecordFails` of
  `Social` does this, and `LogTellsTruth` counts such posts as unknown.

**Known gaps, claimed by no document and so only recorded.** The properties
name these cases as exceptions, or hold only without them:

* payments: a declined attempt notified late overwrites a COMPLETED payment;
  COD and installments accept a cancelled order; after a failed confirmation
  the admin's "mark paid" refuses to try again; a second order can be placed
  after a payment request failed;
* stock: concurrent checkouts of two sizes lose one count, so the sizes do not
  add up to the stock; editing the sizes does not run the low-stock check;
  reservations never expire; a repair of the caches beside an open shop can
  write a cache that is already stale;
* orders and floor: `assign` that overlaps a start hands a running job to
  another worker; two sizes of one product as two lines of an order are always
  refused (`orders.service.ts:136`); two carts with the same products in
  opposite orders deadlock, and so can `cancel` and `confirmOrder` - when the
  victim is a webhook's confirmation its event is already recorded;
* catalogue: two moves of categories that overlap leave a third level or a
  cycle;
* session: a refresh whose answer is lost raises the reuse alarm later;
* pages: an unsized line of the cart matches every line of its product
  (`useCartStore.ts:64`); the header's suggestions keep a stale answer
  (`Header.tsx:317`); the quick view keeps the previous product's size
  (`QuickViewModal.tsx:34-55`); two quick filter clicks lose one; a camera
  granted after its tab was left stays on (`startCamera`,
  `VisualSearchModal.tsx:84-93`); a preset clicked on the camera's tab, or a
  file that is read once it is shown, leaves the camera on behind the picture
  until the modal is closed, or the picture given up and a photo taken or the
  tab left (163-166); the results of a closed
  search turn up later; closing and reopening the share dialog allows a second
  post, and a caption edited there is not what is posted; Meta's page token,
  once the fallback was taken, is the user's until the process restarts
  (`social.service.ts:272-288`).

**Refinements.** `KeepsPromises` is `Promises!Spec`: through the balances
alone, each step of the API, under every interleaving and with sizes edited and
stock adjusted, moves a whole order's units between free and promised, sells or
returns them, or recounts what is free. `OrdersHoldTheirUnits` is
`Reserving!Spec`: the same per order, the order's status saying where its units
are, checked with one request at a time and proved for any number of them as
long as a cancellation is alone with its order.

**Fairness.** Pipeline: `WF_vars(Continue(c))` for every slot: a request that
was accepted is carried to its end. Node runs the handler to its next await,
and no statement waits for anything but a row lock held by a transaction that
is itself carried on. `SuccessConfirms` starts from the recorded event and
needs no more. Session and checkout: a request that was sent is answered or
fails, and a page's handler runs to its end; `RequestsEnd` and
`ButtonsComeBack` rest on that. Nothing is assumed of customers, admins,
workers, PayHere or Meta: nobody has to send a request or a notification.

## 4. Proofs

Each theorem holds for every value of its constants that its statement allows:
any catalogue, carts, workers, sizes, endpoints, number of requests in flight
and of restarts; any number of voters, requests, filters, pages, streams. A
hypothesis on the constants or on the behaviour stands in the theorem, and a run
or an example shows what goes wrong without it.

* `PlatformProofs`
  * `TypeCorrect`: `Spec => []TypeOK`. `TypeOK` alone is not inductive: the
    floor writes back a task it read, and a missing task (`NoTask`) with one
    field changed is of no type. `IInv` adds `FloorHasTask`: a request of the
    floor is about a task that exists, which holds because no step removes one.
    One lemma per action, then one case per disjunct of `Next`.
  * `StockSafe`: `Spec => []StockFloor`, no oversell (BR4). Each stock
    operation keeps the CHECK constraint when its guard, the WHERE of its
    UPDATE, holds; orders touch each row by one such operation (`OnLines`) or
    not at all. The argument never mentions the status of an order, which is
    why BR4 survives the races above.
  * `LedgerSafe`: `Spec => []LedgerReconciles`, assuming `"edit_sizes"` is not
    among `Ops`; an edit moves both balances without a movement row.
* `StockProofs`
  * `SizesSafe`: `Spec => []SizesNeverNegative`. The invariant adds `CopiesFit`:
    the sizes a checkout in flight has read were not negative either, since it
    writes them all back, floored at zero.
  * `AlertSafe`: `Spec => []AlertTracksFloor`, again without `"edit_sizes"`. A
    step either checks the alert last or moves nothing the alert looks at
    (`Alarmed`).
  * `PromisesKept`: `Spec => KeepsPromises`, the step simulation of
    `StockPromise`, from `StockFloor`.
* `ConfirmProofs`
  * `DeductsOnce`: `Spec => []DeductedOnce`. Statuses are written by id after a
    stale read, so the invariant cannot speak of rows alone. `Deducts` is, for
    each order, that its sale count and tasks fit its status (`OrderFits`), and
    for each request, that what it will write is harmless (`CallFits`): a
    verb, a cancellation of a confirmed order and the floor have all seen an
    order that was sold, and sold it stays, since the only way back to PENDING
    is a create, which is alone on an order that does not exist yet.
  * `EventsOnce`: `Spec => []EventActedOnOnce`. A delivery enters with the
    insert of its event, which the unique key allows once; no step removes an
    event.
* `OrderProofs`: what holds of orders, floor and payments when requests overlap.
  Its theorems have the hypotheses the code needs, and no more:
  `[]CancelsAlone` (nothing else is in flight for an order that is being
  cancelled; `double_cancel` shows it needed), `[]Apart` (the requests in
  flight are for different orders; `stale_status` and `floor_race` show it
  needed for `GraphFollowed` and `FloorDone`), `[](crashes = 0)` (a restart
  between the payment's write and `confirmOrder` leaves a paid order PENDING).
  One request at a time satisfies the first two, and `OneAtATime` says so.
  * `SettledSafe`, `ReservedSafe`, `UnitsHeld` assume `[]CancelsAlone`. The
    invariant `OrderInv` adds to `Deducts` that each order's counts of movements
    are those of its status and that a cancellation in flight has read what is
    still so (`Settles`), and that what is reserved of a product is a sum over
    the PENDING orders (`Backed`). The sum is over a set of any finite size.
    `MapThenSumSet` is a fold: that adding an order adds its units and removing
    one removes them is proved once, from the uniqueness of the fold's table,
    by a least counterexample. `UnitsHeld` is the refinement of `Reservations`,
    step by step.
  * `DuesVoided` and `PaidConfirmed` add `Money` (a plan's dues belong to an
    INSTALLMENT payment, and who collects a payment knows which) and `PaidInv`
    (a paid order that is PENDING has a request that will confirm it). The
    confirmation cannot fail, since by `Backed` what it sells is reserved.
  * `GraphFollowed`, `TrailTrue`, `PaymentStays`, `CompletedInspected`,
    `FloorDone`, `MachinesAgree` assume `[]Apart`. `Serial` says that a request
    has read what is still so (`Fresh`) and that each order's tasks are of one
    of the shapes its status allows (`Shapes`), for any number of garments:
    the status is the one `Derive` gives the tasks, or one past the floor.
  * `OfferSafe`: `Spec => []OfferedIsAccepted`, with no hypothesis at all: an
    order the floor has moved has something to make, and tasks never vanish.
* `UserProofs`
  * `GuessesBounded`, `SendsBounded`: the limits of the one-time codes, up to
    the requests in flight. The counter trails what was tried by the requests
    that read it and have not written (`TriedIsCounted`), and those are fewer
    than the requests; likewise a code sent this hour was counted by everyone
    who asks for another, but for those already past the count (`SentOrAsked`).
  * `CountTrue`: the helpful count is the number of votes. The invariant adds
    that there are no votes without a review and that a toggle in flight names
    a review that exists or existed, so its transaction finds it or fails.
  * `NoAlarm`, `CookieHeld`: `NoFalseAlarm` and `SessionHeld` for pages that use
    `services/http.ts` alone (`Client \subseteq {"http"}`; `two_clients` shows
    the hypothesis needed), with any number of requests, loads and sign-ins.
    As long as nothing was lost or crossed (`Clean`), at most one refresh is in
    the air and it carries the browser's own cookie (`OneHolder`), what the
    page knows is what that cookie can renew (`PageKnows`), and the other
    device's token is in nobody's hands (`Untouched`).
* `BrowseProofs`
  * `ListShown`: `ShownIsAsked`. Only the fetch of the current address is
    active, and the list shown is of the current address or a load is on or
    failed.
  * `CameraOff`: `CameraFollowsModal`, with the two exceptions it names. A live
    stream is the one the modal holds or a late one (`Traced`), so that a photo,
    a switch or a closing stops all but the late ones; while a prompt of the
    running effect is open nothing but late ones is live (`Asked`); and without
    a picture nothing is behind one (`Uncovered`).
  * `CardsAreReal`: `OnlyRealProducts`. What was retrieved and what was hydrated
    was on sale since the question was sent, and since the model answered, at
    each step of the question (`OnSaleSeen`), whatever the shop changes.
* `OfficeProofs`
  * `KeysHold`: `CatalogueSpec => []NothingDangles`. The foreign keys are
    checked by the statement that writes (`Keyed` is inductive), so it does not
    matter what a request had read.
  * `TreeFlat`, `CatalogueTyped`: `CatalogueSpec => TwoLevels`, the depth the
    service checks by reading first. It is safe but for a write whose look has
    gone stale, which `TwoLevels` names: a request that is not stale has seen a
    parent without a parent and a category without children, and the tree is
    still so (`DeskInv`).
  * `LogHonest`: `SocialSpec => []LogTellsTruth`. A step of a share moves the
    published, logged and unknown counts of a channel by as much as the number
    of requests that have posted and not logged yet (`Unrecorded`) changes; a
    row that is refused moves its post to the unknown ones. A deletion clears
    the log, and no row can follow it.
  * `ReportHonest`: `ReconciliationSpec => []ReportIsEarned`. A row that no
    trade touched since the repair read it is right, or the repair still holds
    the right value for it (`HeldIsRight`); a move keeps a right row right.
  * `LocksAreHeldApart`, `PairsCross`, `RingsNeedCarts`, `DeadlocksKnown`: the
    rows transactions lock, for any orders and carts. `InTurn` says, for each
    kind of transaction, what may be said of two rows of which it takes one
    before the other; that the sequences of the code do take them so is proved
    from what `FlattenSeq` does to a sequence of sequences, itself by a least
    counterexample. `LockInv` is then inductive: a transaction holds what comes
    before what it still wants, a checkout refers to a product before it takes
    its stock, and no two locks that are held clash. Two transactions that
    wait for each other have taken a pair of rows in opposite orders, and
    `InvertedCrosses` goes through the pairs: only those of `Cross` can, but for
    a deletion against a checkout, which the reference keeps apart. That is
    `PairsCross`, whoever else is there, and for two transactions at a time it
    is `DeadlocksAreKnown` (`DeadlocksKnown`). With three it is more than the
    code keeps: carts of a and b, b and c, c and a wait in a ring although no
    two of them have two products in common. What does hold of rings of any
    length is `RingsNeedCarts`: every transaction but checkouts,
    cancellations, edits, deletions and confirmations of several products
    takes rows of ever higher tables (`Level`), so one of these is in the ring.
* `StorefrontProofs`
  * `MirrorAgrees`: the two copies of the measurement rules ask for the same
    fields with the same limits for every product, so that what the page calls
    complete the API accepts.
  * `OneOrder`, `CartKept`, `RefusedWhenEdited`: the three properties of the
    checkout page. At most one attempt is being placed; what it orders are the
    lines it was made from, which are the cart's until it ends (`CartOrdered`);
    and those lines were complete by the page's rules for the copies they
    carry, so by `MirrorAgrees` the API refuses them only if a copy is old.
  * `StorefrontIsItsParts`: `StorefrontSpec` implies the specification of each
    of the eleven components. `StorefrontTyped` and `StorefrontKeepsPromises`
    carry the types and the safety properties of the components over to the
    specification the run checks.

They rest on the assumptions of the modules about their constants: quantities
are naturals, garments are products, the opening stock is the total of the
opening sizes, the sets of requests, voters and shares are finite, the audit
starts from rows that promise no more than they have, the names for "none" are
not members of the sets, a cart has each product once, a page sends its
requests through one of the two clients that exist, a product either needs
measurements or does not. TLC evaluates each of them in a run.

Induction over data is done by hand: the fold behind a sum and the flattening
of a sequence have a table of partial results, and what is claimed of the last
entry is proved by taking the least entry of which it is false.

Model-checked only: liveness, `SuccessConfirms`, `RequestsEnd` and
`ButtonsComeBack`, since fairness and ENABLED are out of the prover's reach.
Every other property of a passing run is stated by a theorem, some under a
hypothesis that the run's constants satisfy.

## 5. Not modelled

* **Notifications, e-mail and SMS**: rows written beside a move inside its
  transaction, and sends after the commit that catch every error; nothing reads
  them but the bell, and no decision depends on them.
* **Invoices, analytics, the business chat, lists and detail pages**: they
  read and render. What they could get wrong is arithmetic or layout, not an
  order of events.
* **Uploads**: a file is stored and its address returned.
* **The simulated image analysis** of the AI service: a pure function of the
  picture and the catalogue, with no state between requests.
* **The pages' markup**, which is most of the frontend's lines, the seed data
  and the e-mail templates. Of the pages, those with asynchronous state of
  their own are modelled; the rest show what one request returned. The polling
  of the payment-success page only reads an order's status until it has moved.
* **Profile, password and user administration**: single updates by id that
  touch no session and no order.

For this reason the modules cover about an eighth of the repository's lines and
nearly all of those that change shared state.
