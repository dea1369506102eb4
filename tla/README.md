# A TLA+ development of ProcurementCore

ProcurementCore buys things with real money from suppliers that can time out,
answer late or answer twice. This directory models the parts of it where that
matters, checks them with TLC on small instances and proves the most important
results with TLAPS for any number of orders, handlers, requests and keys.

Contents: [the system](#the-system), [the modules](#the-modules),
[the runs](#the-runs), [bounds and fairness](#bounds-and-fairness),
[what is proved](#what-is-proved), [what disagrees](#what-disagrees),
[what is not modelled](#what-is-not-modelled), [the plan](#the-plan).

## The system

One Go process (`cmd/server`) serves a browser UI ("native" requests) and an
MCP endpoint for assistants ("guided" requests: a preview that changes nothing,
then an execution that repeats the preview's exact context, a phrase and an
`Idempotency-Key`). All state is in PostgreSQL. Every handler body is one
transaction, except where a supplier must be called: such handlers commit, call,
and commit again. Amazon Business also calls in, with order confirmations and
shipment notices.

| component | state | operations | what is hard | what makes it correct |
|---|---|---|---|---|
| Supplier submission (`amazon_submission_mcp.go`, `adam_hall_checkout_workflow.go`, `order_submission_schema.go`) | `proc_order_submissions` (claim, outcome), order status, idempotency receipt; in memory: the outcome between two transactions | claim, call, save outcome, finalize, replay | crash between any two steps, lost answer, repeats, concurrent edits | bought at most once; shown as sent only if bought; outcome and receipt never change; always decidable |
| Human reconciliation (`submission_reconciliation_mcp.go`) | `proc_submission_reconciliations` | found order / confirmed not sent, 15 minutes after the claim | an attempt that is still alive after the wait; confirmation at the same moment | a decision is final; "not sent" is true for ever (for Amazon; for Adam Hall it is not) |
| Amazon confirmations (`amazon_confirmation.go`, `amazon/confirmation.go`) | `proc_amazon_line_confirmations`, `..._events`, order status | whole accept/reject, line detail, partial cancellation, shipment | notices delayed, reordered, repeated; goods arriving meanwhile | rows equal Amazon's decisions; nothing newer undone; no revival; receipts within the confirmed quantity |
| Order status (`handler.go` updateOrder) | `proc_purchase_orders.status` | user transitions | races with all of the above | forward only; claimed orders are never drafts again |
| Goods receipt (`handler.go` applyGoodsReceipt, `goods_receipt_mcp.go`) | received quantities, stock, devices, putaway tasks, receipts | book in, replay | repeats, partial failure, concurrent receipts of one line | counted once; order, line and warehouse agree |
| Adam Hall cart checkout (`adam_hall_checkout_*.go`, `scraper/adamhall_reviewed_checkout.go`) | `proc_adam_hall_checkouts`; the shop's cart; a process-wide mutex | prepare cart, review, send | one shared cart, stale review, incomplete or late fast orders, unbounded wait at the mutex | what is paid is what was reviewed; no cart is filled twice |
| Idempotency (`handler.go` 2192-2243) | `proc_idempotency_records`, one per user, operation and key | begin, complete, replay | same key concurrently, other payload, rollback | one effect per key; replays answer the same |
| Requisitions (`handler.go` 1418-1804, `approval_mcp.go`, `requisition_*`) | requisition status, approver, basket | draft, submit, decide, convert, create from offer | two deciders, two converters, edits after approval | a distinct approver; the order equals the approved basket; converted once |
| Order drafts (`order_draft*.go`) | draft lines, version | create, edit, replay | lost updates | edits never reach a claimed order |
| Locks (`requisition_order_mcp.go` 33-35 and others) | row and table locks | every handler | native and guided handlers lock in different orders | transactions are serialised; no deadlock without a way out |
| Catalog lifecycle (`master_lifecycle.go`, `workflow_lifecycle_mcp.go`, `database/*_schema.go`) | archived flags, triggers | archive, restore, reference | archive against a concurrent reference | an active record never refers to an archived one |
| PunchOut (`amazon_punchout.go`) | session status, expiry | start, return | return posted twice or late | one draft per session |
| Pricing (`service/pricing.go`, alert handlers in `handler.go`) | offers, price alerts | save an offer, make or change an alert | an alert made while an offer is being saved | an alert fires when a known price is low enough |
| Warehouse links, imports, scraping, Jev, auth, config, UI | little or none | read, parse, rank, render | external input | see "What is not modelled" |

The components meet in the purchase order: its status and its lines are written
by users, by the submission, by confirmations, by goods receipts and by
reconciliation. Triggers in the database guard a claimed order against all
writers.

## The modules

**`OrderStatus`** holds the statuses and `orderTransitionAllowed`, shared by the
components below.

**`PurchaseOnce`** is the abstract promise about the money: an order leaves
"free" once, is bought at most once, is acknowledged only when bought, and is
never bought after it was declared absent if it is one of those that can be
closed for good (`Final`). `SupplierSubmission` implements it with the Amazon
orders as `Final`.

**`SupplierSubmission`** is the submission protocol with everything that
interferes with it. State and code:

| variable | code |
|---|---|
| `status` | `proc_purchase_orders.status` |
| `claim` | `proc_order_submissions.status`, `"none"` when there is no row |
| `age` | time since the claim's `created_at`, in ticks up to `Settle` (15 minutes) |
| `receipt` | `operation_status` in the idempotency record of an order and key |
| `reconciled` | `proc_submission_reconciliations.resolution` |
| `confirmed` | the order has rows in `proc_amazon_line_confirmations` |
| `pc`, `reqOrder`, `reqKey`, `answer` | a running `runAmazonSubmission` / `runAdamHallCheckout` |
| `wire`, `placed` | the supplier: requests under way, purchases booked (external) |
| `sends`, `manual` | history, read only by properties |

One action is one transaction or one step of the outside world. `Claim` is the
first transaction, `CallSupplier`/`FailBeforeCall`/`ReceiveAnswer` the call,
`RecordOutcome` the second transaction, `Finalize` the third; `Replay` is a
repeated request, which finalizes a saved outcome and never calls.
`HandlerFails` and `Crash` end a handler between any two of these. `Confirm`,
`ReceiveGoods`, `UserSetsStatus` and `Reconcile` are the other writers. What the
reconciling human reports is what the supplier's account shows at that moment.
Checks on catalogue data can only prevent a claim; a claim is always optional in
the model, so they need no state. `Tick` is time: `AttemptBound` holds an attempt
to what the code's timeouts allow, except while it is `Queued`, an Adam Hall
submission that waits for the checkout mutex. That wait may outlast everything.

**`AmazonConfirmation`** follows one submitted order through Amazon's notices.
`mail` is everything Amazon ever sent; a notice can be delivered at any time and
any number of times. `truth` is what Amazon decided, `rows` what the program
holds; a row's `date` 0 means there is no row. `ordered` picks, per behaviour, a
network that keeps the order of notices. `Apply` is the whole transaction: the
guards on the status, the new rows, the check of every line's sum, the new
status, the recorded event. A refused notice is a transaction rolled back, so
nothing changes.

**`AdamHallCheckout`** is the reviewed purchase from Adam Hall's shop: a guided
or native user lets the program fill the shop's cart, looks at the result, and
later pays for it. All orders share one cart with people who use the shop.

| variable | code |
|---|---|
| `lines`, `price`, `version` | the local draft: quantities by article, unit prices, and what `local_context` hashes |
| `claimed` | `proc_order_submissions`: the checkout named in `reviewed_payload` |
| `owner`, `items`, `seen` | the row in `proc_adam_hall_checkouts`: its order, its `reviewed_request`, its `local_context` |
| `state`, `snapshot`, `old` | its status, its `cart_snapshot`, and whether it is more than 15 minutes old |
| `receipt` | the answer saved under the key of the preparing request |
| `prep`, `quote`, `send` | running requests: where a preparation stands, the cart it holds in memory, where a payment stands |
| `adrift` | fast orders whose client has timed out or died, and which the shop may still carry out |
| `shop`, `paid` | the remote cart and its prices; what the shop has booked (external) |
| `disturbed` | history, read only by properties: something other than a running preparation has changed the cart since it was paid |

`ClaimCart` .. `SaveCart`/`FinishCart` is a preparation: claim, read the cart,
fill it, quote it, save the outcome, save the answer. `ClaimSend`, `CheckCart`,
`PlaceOrder` is a payment: the claim repeats every check of the review, the cart
is compared under the mutex, and the last request pays whatever is in the cart.
The shop carries out a fast order whole or in part (`ShopAdds`): while it is
waited for (`FillCart`), or, after the client's 12 s are over (`LoseFastOrder`)
or the process died, at any later time or never (`FillLate`), when the mutex is
free and other preparations are under way. `EditOrder`, `ChangeShop`, `FillLate`,
`GrowOld` and `Crash` interfere at any step. What
becomes of a claimed order after the call is `SupplierSubmission`; here an order
is sent once and stays so. Whether a supplier, product or offer is eligible is a
free choice, since it can only refuse.

**`GoodsReceipt`** is the booking of goods with the locks it runs under. State
and code:

| variable | code |
|---|---|
| `status`, `version` | `proc_purchase_orders.status` and `updated_at` (counted) |
| `received` | `proc_purchase_order_lines.received_quantity` |
| `receipts` | `proc_receipts`, each with the stock or devices and the putaway task created beside it |
| `records` | `proc_idempotency_records` of the operations `mcp_order_receive:<order>` |
| `pc`, `input`, `line0`, `held` | an open transaction: the statement it has reached, its request, the quantity it read, the serial numbers it has locked |

An action is a statement that may have to wait, with everything up to the next
such statement; `WaitsFor` is PostgreSQL's side, one disjunct per kind of lock.
`InsertRecord` waits for an uncommitted record of the same key.
`LockPurchaseTables` and `LockStockTables` are the one `LOCK TABLE` statement,
which takes its tables in the order it lists them; native writers touch the
warehouse tables first. `LockOrder`, `LockSerial`, `WriteStock`, `WriteLine` and
`Commit` are `applyGoodsReceipt`, run by both kinds of request. `Abort` is every
way a transaction can fail, a dying process included; `BreakCircle` is
PostgreSQL's deadlock detector. `UpdateOrder` is a user's status change, with
its two short locks in one step: it holds nothing between actions. Every line
has a linked product of its own, so the product row, locked after the order row
and always in that order, adds no wait of its own. A queued lock request does
not block later ones in the model; PostgreSQL may do so, and reorders its queue
where that closes a circle.

**`ReceiptLedger`** is the abstract promise about goods: receipts are booked one
at a time into a ledger, each only if the order as it then stands allows it, a
key and a serial number once, and what a line has received is the sum of its
receipts. It knows no locks, retries or aborts. `BooksAsIfAlone` says that
`GoodsReceipt` implements it; `receipts`, `status` and `version` map to
themselves, and only `Commit` and `UpdateOrder` are steps of the ledger.

**`WorkflowTriggers`** is the side of PostgreSQL that no handler can bypass: the
triggers on requisitions, orders, products and suppliers. It has no variables;
a database is a function from rows to records, a transaction's writes are such
a function on the rows it touches, and `TriggersAllow(db, w, lined)` says
whether the database accepts them. `References` is the set of rows the triggers
lock `FOR SHARE` while they look. One operator per trigger function:
`LifecycleTrigger` (`workflow_lifecycle_schema.go`), `ReferencesTrigger`
(`workflow_references_schema.go`), `MasterTrigger` (`master_lifecycle_schema.go`).

**`RequisitionFlow`** runs both kinds of handlers against these triggers: a
requisition from draft over approval to purchase orders, the order drafts
beside it, the PunchOut basket that may replace it, and the archival of
everything involved. State and code:

| variable | code |
|---|---|
| `db` | the committed rows of `proc_requisitions`, `proc_purchase_orders`, `proc_products`, `proc_suppliers` and the PunchOut session |
| `pc`, `request`, `pend` | an HTTP request: where it stands, what it asks for, what its transaction has written |
| `stale` | a row the handler locked, or its preview showed, was written since: what comparing `updated_at`, versions and fingerprints finds out |
| `key` | the `Idempotency-Key`: fresh ones are named by the session that used them first, `"old"` has a receipt, `"legacy"` one saved by the former native routes |
| `made` | the orders conversions have made |
| `expired` | the two hours of the PunchOut session are over |

| action | code |
|---|---|
| `NativeBegin`, `NativeWrite` | a browser handler up to its `SELECT ... FOR UPDATE` and checks; its writes with the triggers' locks |
| `CreateRequisition` .. `UpdateSupplier` | the checks of the single browser handlers |
| `Preview` | the preview of a guided handler: all checks, no change |
| `GuidedLock` | `beginIdempotentMutation` and `LOCK TABLE ... SHARE ROW EXCLUSIVE` |
| `ConvertLock`, `ConvertRequisition` | the browser's conversion, which takes the same table locks |
| `RequisitionOrderMCP`, `RequisitionDraftMCP`, `ApprovalMCP`, `OrderDraftMCP`, `WorkflowLifecycleMCP`, `MasterLifecycle` | the execution of the guided handlers: every check again, the context compared, the writes |
| `Repeat`, `Replay` | the same request a second time; the answer from a receipt, the former routes' included |
| `Refuse`, `Rollback`, `Commit` | the ways a transaction ends |
| `StartAmazonPunchout`, `Expire` | the PunchOut session (`HandleAmazonReturn` is a browser request) |

`WaitsFor` is again PostgreSQL's side: a writer waits for the holder of the table
lock, for a row somebody writes or has locked `FOR SHARE`, and its triggers wait
for rows somebody writes. `Effect` is what each request writes. The lines of a
requisition or order are abstracted to the one product they name.

**`PurchasePath`** is the abstract promise about requisitions and orders: the
steps a purchase may take, each on the records as they are at that moment, for
example that only what is a draft is edited, that what was approved is converted
into one order, and that an order goes on only for a requisition that is not
archived. It knows no sessions, locks, previews or keys. `KeepsToPath` says that
`RequisitionFlow` implements it: its two variables are rows of `db`, and only a
commit can be a step of the path. Rights and the state of products and suppliers
are left to `RequisitionFlow` (`OpenReferencesActive`).

**`PriceAlerts`** is one product's offers and alerts at the granularity of
statements, because neither side locks the other: an offer is saved in a
transaction that evaluates the alerts it can see (`CreateOffer`, `UpdateOffer`,
`RecordPriceAndEvaluateAlerts`, `SaveAlerts`, `Commit`); an alert is inserted,
compared and saved again outside any transaction (`CreateAlert`,
`EvaluateKnownPrices`, `StoreAlert`, `UpdateAlert`, `DeleteAlert`).

`MC...` modules give TLC its instances; `...Proofs` modules hold the theorems.
Definitions named "Variant with a defect" are wrong on purpose: each replaces
the definition after it to show that a property notices that mistake.

## The runs

| run | question | result |
|---|---|---|
| `submission` | Two orders (Amazon, Adam Hall), two handlers, two keys, the native endpoint in use: can anything buy twice, show a phantom order, lose or reverse a decision, buy an Amazon order closed as absent, or break the promise of `PurchaseOnce`? | holds |
| `submission_live` | When every submission has a key: can an order in flight be left where neither the client nor a human can decide it? | no |
| `submission_native` | The same question for the native Amazon call | violated: see below |
| `submission_adamhall` | Can an Adam Hall order closed as absent still be bought? | violated: yes, after a long wait for the mutex |
| `confirmation` | Three notices over two lines and two Amazon numbers, in every order of delivery, with goods receipts and user edits: do rows and status end up as Amazon decided, does anything revive a cancelled order, set a line back or rewrite a delivered one? | holds |
| `confirmation_rest` | ... and Amazon also cancels the rest of a partly refused share | violated |
| `confirmation_delayed` | Does a delayed notice ever undo a newer one? | violated by whole-order acceptances |
| `checkout` | Two orders, two preparations, one shop cart, people in the shop, changing prices, incomplete, lost and late fast orders, an edit, crashes, expiry: is ever anything paid that was not reviewed or is not ordered, do running preparations fill a cart twice, does an answer differ from its outcome? | holds |
| `receipt` | Two open transactions, native or guided, on two orders with three lines, two serial numbers named in both orders, one key with two payloads, status changes: is a booking lost, doubled, too large without saying so, or made on an order its user did not see? Is the outcome one of booking one receipt at a time? Do all requests end although their locks close circles? | holds; all end |
| `requisition` | A browser and an assistant work on one requisition, two orders, two products and two suppliers, decide, edit, convert, archive and restore them, and a PunchOut basket comes back: can an archived record be bound, a requisition be converted twice, a basket leave Amazon, a decision be made on something that has changed, or a key act twice? Is every commit a step a purchase may take at that moment? | holds |
| `requisition_live` | Rows first against tables first: does every transaction end? | yes |
| `price_alerts` | Does an alert fire when an offer at or under its target is known? | violated |

`AlertsFire` is the only claim about prices; it is stated for the moment when
nobody is at work and for alerts their user has not edited or deleted, so it
asks nothing of a half-done request.

## Bounds and fairness

*Submission.* Two handlers and two keys suffice for every race between two
invocations; a third would only repeat one of the two. Orders do not interact
except through handlers and keys, so one order of each supplier is enough, and
the theorems hold for any number. `Settle = 2` gives a wait with an inside and
an end. `AttemptBound = 1 < Settle` says that an attempt is over before a human
may reconcile. For Amazon the code justifies it: the client's timeout is 15 s
and the outcome must be stored within 30 s. An Adam Hall submission first waits
for the checkout mutex, with no deadline, and while it does (`Queued`) the bound
does not hold it; what follows the wait is bounded by the client's 12 s per
request. So `AmazonAbsentStaysAbsent` is checked for Amazon only,
`AbsentStaysAbsent` is the same for every order and is what
`submission_adamhall` refutes, and `PurchasesOnce` lets an Adam Hall order that
was closed as absent be bought, once. No other property of the run needs the
bound, and the theorems about them are proved without it.

*Fairness* (`submission_live` only): a running handler takes its next step, a
request under way arrives or is dropped, time passes. All three follow from the
timeouts in the code and from Go's mutex, which starves nobody: those who hold it
make a few requests with a timeout each. Nothing is asked of users, clients or the human, so the
property ends in what they *can* do, not in what they do. `Crash` and
`HandlerFails` are always possible and never forced.

*Confirmation.* Quantities 2 and 1 are the least with a partial cancellation and
two lines; two numbers are a split; three notices are a decision, a change and
one that overtakes. `Over` bounds over-delivery to one unit. Deadlock is not
checked there: Amazon stops after `NoticeBound` notices and a cancelled order
may legitimately rest.

*Checkout.* Two orders with two preparations make every pair of owners of the
shared cart; one article with quantities up to 2 tells a doubled cart from a
full and from an incomplete one; two prices and one edit make a review stale. The
run takes `QuietCheckout = TRUE`: nobody changes the shop's cart or its prices,
and no late fast order lands, between the program's last comparison and the
request that pays, which takes effect while it is waited for or never. (A paying
request given up after 12 s and carried out later would only stretch that time.)
The code cannot close this gap, since the paying request names no cart version
(`adamhall_reviewed_checkout.go` 112-125). `PaidAsReviewed` and `PaidIsOrdered`
are promises under this assumption, the other properties do not use it.
`CartNotDoubled` speaks of what running preparations do to a cart. A fast order
that lands late can double a cart, which nothing in the program could prevent;
that such a cart is not paid is part of `PaidAsReviewed`.

*Goods receipt.* A wait or a lost update needs two transactions; the same run
with three (`Requests = {r1, r2, r3}`) also holds and takes some minutes.
`VersionBound = 2` changes of an order let a guided user be late by one or two.
Deadlock is not checked: with the versions used up there is nothing left to do.
Fairness: `SF` for each request, because PostgreSQL grants locks in the order of
the queue, and `WF` for its deadlock detector. `Abort` is never forced, so the
property does not rest on the guided requests' 5 s lock timeout.

*Requisitions.* A race needs two sessions, one of which is a browser in the run
and the other the assistant or a second browser; `Requests` lists what each may
ask for, chosen so that every operation, both ways of each contested one and
every pair that takes locks in opposite order are there. One requisition is
enough because requisitions meet only in the rows they name; a second order
tells "another order" from "this order", a second product an edit from a
repetition, and a supplier that the catalog does not hold yet is the one a
basket creates. `Room` bounds the identities: a request that would need a
further row is not made. Deadlock is not checked, since once the orders are
used up and closed there may be nothing to ask for. The run has some 290 000
states. `requisition_live` keeps the requests that can block each other (some
11 000 states). Fairness there: `SF` for the write and the refusal of a session,
because PostgreSQL queues lock requests and passes nobody over for ever; `WF`
for `Rollback`, its deadlock detector, and for `Commit`. Guided handlers and
conversions also give up after `lock_timeout` 5 s (`approval_mcp.go` 72,
`handler.go` 1759); browsers do not, so a circle of browsers would rest on the
detector alone. Nothing is asked of users: a preview may be shown for ever.

*Price alerts.* One offer, one alert, two prices and two sessions; the
violation needs no more.

## What is proved

`SupplierSubmissionProofs`, for any sets of orders, handlers and keys:

* `TypeCorrect`, `CalledAtMostOnce`, `NeverOrderedTwice`, `SentOrdersExist`,
  `UncertainOnlyIfUnknown` (invariants) and `DecisionsStand`, `ReceiptsStand`
  (action properties), with no assumption on time;
* `AmazonOrdersStayAbsent` (`AmazonAbsentStaysAbsent`) and `KeepsPurchasePromise`
  (`PurchasesOnce`, the refinement of `PurchaseOnce`) under
  `AttemptBound < Settle`, a hypothesis about Amazon's attempts: nothing is
  assumed of the wait for the Adam Hall mutex, and nothing claimed about Adam
  Hall orders closed as absent but that they are bought at most once.

The invariants are not inductive alone. That an order is called for once rests
on who holds the claim: `HandlerInv` ties a running handler to a pending claim
on its order, `OneHandler` says no two handlers share an order, `ClaimInv`
bounds calls and requests under way by the claim, `SupplierInv` counts a request
on the wire and a purchase together as at most one, `RealInv` says what is
acknowledged exists, and `StatusInv` and `ReceiptInv` tie status and receipts to
the saved outcome. Their conjunction `IInv` is inductive. `TimedInv` adds that a
reconciled Amazon order has no attempt left; it is inductive given `IInv` and
the hypothesis.

The fact that an acknowledged order can be finished, `GuidedOrdersCanBeFinished`
(`AcknowledgedCanBeFinished`), needs `WaitingInv`: an order in flight has a key
whose receipt is still pending. It is proved under `~NativeAmazon`, which is what
the run checks too: the native call has no key, and run `submission_native`
shows the order it strands.

`AmazonConfirmationProofs`, for any order, any split and any network:

* `TypeCorrect`, `DeliveriesWithinConfirmed`, `CancelledOrdersStay` and
  `RowsOfDeliveredGoodsStand` (`DeliveredRowsStand`) rest on `ReceivedInv`: goods
  are in stock only for an order whose status keeps notices out, or that is
  cancelled;
* `LineNoticesKeepOrder` (`NewerLineNoticeStands`). The handler compares dates,
  but a refusal of the whole order empties rows of any date; `RefusalInv` says
  that nothing follows such a refusal, because whatever else Amazon may decide
  needs a unit that is not refused yet, and `DatesInv` that no row is newer than
  the last notice;
* `RowsCatchUp` (`CaughtUp`) and `RefusedOrdersAreCancelled`
  (`FullyRejectedIsCancelled`), under the hypothesis `~CancelsRest` that Amazon
  does not cancel the rest of a partly refused share. The hypothesis cannot go:
  run `confirmation_rest` is the counterexample. `HistoryInv` says there is a
  history of what Amazon had decided after each notice, `RowsAfter` being what
  the handler makes of one, and that over a network that keeps the order the
  rows are one of its entries; `TruthInv` makes a repeated notice harmless. In
  the second theorem, `RejectedInv` needs no order of delivery: rows that add up
  to a refusal of everything never coexist with another status.

They assume that lines and Amazon numbers are finite, so that there are sums.

`SumTheorems` holds what these and the next proofs need to know of sums: the sum
over a finite set exists, is a natural number, grows with its terms, is the term
of one member plus the sum of the others, and is only reached term by term. The
library's induction theorems take an operator, which no installed prover can
instantiate; `SubsetInduction` takes a set of subsets instead and follows from
the well-foundedness of the strict-subset relation.

`AdamHallCheckoutProofs`, for any orders, preparations, articles and prices:
`TypeCorrect`, `AnswersAgree`, `NothingRemoved`, and, under `QuietCheckout`,
`ReviewedIsPaid` and `OrderedIsPaid`. `Base` ties rows, answers and claims of a
preparation together, `Exclusive` says that while a payment has compared the
cart nobody else is inside the shop's mutex, and `Checked` that the cart it has
compared is until then still the reviewed one. Their
conjunction is inductive; the mutex alone would not do, because people do not
take it, hence the assumption. `CartHoldsOneOrder` (`CartNotDoubled`) does
without it: the property speaks of a cart that only running preparations have
changed, and `CartInv` adds that one preparation at a time is between its first
and its last request, so the cart it found empty is empty when it fills it, in
part or whole (`ShopAddsFacts`). `NothingRemoved` (`NeverRemoved`) is proved
only: no run repeats what the proof shows for every instance.

`GoodsReceiptProofs`, for any orders, lines, quantities, serial numbers, keys and
open requests: `TypeCorrect`, `SerialsStayUnique`, `BooksOnce`,
`NeverSilentlyMore`, `StatusFollowsLines` and `BooksWhatWasSeen`. What has been
booked says too little about what is about to be, so the invariant says who
holds what: `Readers` (one transaction at a time has read an order, and what it
read is still so), `Devices` (its serial numbers are locked by nobody else and
in no receipt) and `Claims` (its key is claimed by nobody else and has no
record). Every step but a commit and a user's change of a status is `Private`:
it leaves the orders alone and lets its request ask, end, or go on in one of
four ways; a commit turns what was private into what is public. Assumed of the
constants: quantities are positive, a request names a serial number once and
either none or as many as goods, and every order has a line
(`validateOrder`).

Two more theorems of that module say what these facts are for. `ReceiptsAreBooked`
(`ReceivedIsBooked`): what a line has received is the sum of its receipts, since
what a commit read of its line is still so and it adds one receipt.
`ReceiptsAreSerial` (`BooksAsIfAlone`): `GoodsReceipt` implements `ReceiptLedger`.
`LedgerStep` goes through the actions: a commit is `Book` (`CommitIsBook`; that
the key is new is `Claims`, that the devices are is `Devices`, that the order
still allows it is `Readers`), a status change is `ChangeStatus`, everything else
a stutter.

`RequisitionFlowProofs`, for any sessions, users, orders, products and suppliers:
`TypeCorrect`, `OneOrderPerRequisition` (`ConvertedOnce`), `CommitsAreFresh`
(`ActsOnWhatItRead`) and `KeysAreUsedOnce` (`OncePerKey`). Every step but a commit
leaves the database alone and moves one session in one of five ways (`Moves`).
`Exclusive` (who holds the tables is alone among the writers), `RowLocks` (no row
is held twice) and `Checked` (what a browser's handler found still holds) make a
commit find its rows as they were checked; `Made` says what each open transaction
will do to the requisition and its orders, `Fresh` that only a preview can be
outdated, `Keyed` that a key once answered is not locked with again.

`RequisitionReferencesProofs` continues that invariant: `ReferencesStayActive`
(`OpenReferencesActive`) and `BasketStaysIntact` (`BasketIntact`). The triggers
look when a statement runs, the invariant speaks of the commit. `Safe` carries the
one to the other: what a transaction writes needs only rows it holds itself, rows
its triggers have locked `FOR SHARE`, or rows that its old row needed already, and
nobody needs what it archives. `SharedLocks` and `RowLocks` show that another
commit breaks neither half, `Verified` keeps the checks of a browser's handler
until its write, and `KeepsBasket` says what every write leaves of a basket.
Assumed of the constants: the kinds of identities are disjoint, and no
requisition (`NULL`) is not a supplier. These modules use `:>` and `@@` as
`WorkflowTriggers` defines them, since the prover sees no definition of TLC's.

`PurchasePathProofs` adds the refinement, `PurchasesKeepToPath` (`KeepsToPath`):
`RequisitionFlow` implements `PurchasePath`. Only a commit changes records, but
what it writes was decided earlier. `Lawful` says that what an open transaction
has written is still a step of the path from the records as they are now. A
browser's handler establishes it from what it found out about the row it has
locked (`Prepared`), a guided one from the checks it repeats under the table
locks (`WroteLawful`); it lasts because the step looks only at rows the
transaction holds or, for a conversion and a restoration, under the table locks
(`LawfulStays`, `CommitOnPath`). Where a step looks at other records all the
same, `Safe` answers: an order goes on only for a live requisition (`GoesOn`),
and a requisition is archived only when no open order is of it (`NothingBinds`).
`CommitIsStep` then reads one lemma per kind of request, and `StepIsStep` shows
that everything else stutters.

Only model-checked: the liveness properties `NeverStranded`, `EveryRequestEnds`
and `RequestsEnd`, because reasoning about fairness and `ENABLED` is outside the
prover, and the violations of the next section, for which a behaviour is the
proof. Every other property of the passing runs is also a theorem.

## What disagrees

1. *Native Amazon orders can be stranded.* README.md 119-121 and 130-132 promise
   that a later local failure can be finished from the saved confirmation. The
   native call has no idempotency record, so nobody can: not the user
   (`submitting` has no way out), not a repeat (a claim exists), not
   reconciliation (the claim is `accepted`). Run `submission_native`.
2. *An Adam Hall order closed as absent can still be bought.* The message of the
   reconciliation says "This order can never be sent again"
   (`submission_reconciliation_mcp.go` 140). The claim makes that so for any new
   attempt; but the one attempt there was may still wait for the checkout mutex
   (`adamhall_reviewed_checkout.go` 92) when the 15 minutes are over, and nothing
   looks at the order again after the wait. Run `submission_adamhall`.
3. *Cancelling the rest forgets earlier rejections.*
   `amazon_confirmation.go` 208 compares with `<`. Run `confirmation_rest`.
4. *A late whole-order acceptance undoes a newer cancellation*, against the
   comment on line 203. Run `confirmation_delayed`.
5. *A price alert can miss a price.* README.md 747 promises alerts that trigger
   on new and changed offers, and `handler.go` 1313 an immediate comparison with
   known prices. An alert made while an offer is being saved is seen by neither
   side; an offer restored from the archive is compared with nothing. Run
   `price_alerts`.

Also met while reading, not turned into runs: a price changed between the
comparison and the paying request is paid unseen, since these are two requests and
the second carries nothing that lets the shop refuse, while
`adamhall_reviewed_checkout.go` 89-90 and README.md 40-42 say that changed prices
block the sending (with `QuietCheckout = FALSE`, TLC finds `PaidAsReviewed`
violated); after a user has cancelled the rest of a partly delivered order, a
rejection of the whole order rewrites the rows of lines in stock, against the
comment on line 150 of `amazon_confirmation.go` (`DeliveredRowsStand` names the
exception); a confirmation that says too
little moves `confirmed` back to `sent` (README.md 527 speaks of refused
backward transitions); a later shipment date is overwritten by an older
confirmation date; a cancellation that overtakes its acceptance makes the
acceptance be skipped; a returned requisition that came from PunchOut is a dead
end, because an edit refuses baskets (`handler.go` 1572) and a submission takes
drafts only (1638).

## What is not modelled

Parsing, scraping, OCR, ranking, rendering, XML and encryption keep no state a
model checker could get wrong. Authentication and delegation only refuse. In
`GoodsReceipt` quantities are natural numbers where the code has `float64`, free
text lines without a product are left out, and so is the endpoint that replays
receipts saved before the guided one existed. Devices that WarehouseCore itself
creates do not take the advisory lock, so `SerialsUnique` speaks of receipts
only.

`RequisitionFlow` leaves out texts, amounts and delivery dates; categories,
which are archived like suppliers but guarded by fewer references, and the
archival of offers; the statuses an order takes after it was confirmed, which
`GoodsReceipt` and `SupplierSubmission` follow; and the permission checks of the
delegation layer, which only refuse. A process that dies in the middle is the
same as a rollback there. What a preview shows is compared as rows: the
fingerprints also contain names and prices, which live in those rows.
Warehouse product links are single rows under an advisory lock; `GoodsReceipt`
takes what they say as input. A reconciliation locks claim and order in one
step, while the code takes them one after the other. The shipment notice and
cXML are not modelled.

## The plan

Done so far: the four components that move money or goods, the workflow before
them with its triggers, and the alerts; every safety property of a passing run
is proved, three of the components against an abstract specification. What is
left, in this order:

1. Shipment notices and delivery dates in `AmazonConfirmation`.
2. A module composing `AdamHallCheckout` with `SupplierSubmission`.
3. Categories and the archival of offers in `WorkflowTriggers`.
4. An abstract specification of `AmazonConfirmation`, with the history of
   `HistoryInv` as its state.
