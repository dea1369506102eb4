-------------------------- MODULE AdamHallCheckout --------------------------
(***************************************************************************)
(* The reviewed checkout at Adam Hall: a request fills the cart of the     *)
(* company's one shop account and keeps a snapshot of it, a person reviews *)
(* the snapshot, a second request pays exactly that cart.                  *)
(*   src/internal/api/adam_hall_checkout_mcp.go, ..._workflow.go,          *)
(*   src/internal/scraper/adamhall_reviewed_checkout.go,                   *)
(*   src/internal/database/adam_hall_checkout_schema.go.                   *)
(*                                                                         *)
(* The two remote procedures run under one mutex of the process, but each  *)
(* is several HTTP requests, the cart is shared by all purchase orders,    *)
(* people use the same shop account in a browser, and a request that the   *)
(* program stopped waiting for may still reach the shop.                   *)
(*                                                                         *)
(* What a preview shows is part of the claim: the claim is refused unless  *)
(* the context the user confirmed is still exact, so previewing and        *)
(* claiming are one step here.  Eligibility checks that read other tables  *)
(* can only keep a claim from being made; a claim is always a choice.      *)
(* What becomes of the answer to the paying request, and that a claimed    *)
(* order is never a draft again, is the subject of SupplierSubmission; a   *)
(* claim is permanent here and the answer is forgotten.                    *)
(***************************************************************************)
EXTENDS Naturals, Sequences

CONSTANTS
  Orders,         \* purchase orders at Adam Hall
  Checkouts,      \* identities of proc_adam_hall_checkouts rows
  Articles,       \* product numbers of the shop
  Quantity,       \* largest quantity of an article on an order
  Prices,         \* what the shop may ask for a unit: a price list
  NoOrder,        \* the order of a row that does not exist yet
  NoCheckout,     \* no submission row names a checkout
  NoCart,         \* no snapshot
  OwnPrice,       \* a unit price the shop did not quote
  EditBound,      \* how often an order may change, for TLC
  QuietCheckout   \* TRUE: cart and prices hold still between the last check
                  \* and the paying request: no person, price change or
                  \* abandoned fast order gets in between

ASSUME CheckoutConstants ==
  /\ NoOrder \notin Orders
  /\ NoCheckout \notin Checkouts
  /\ OwnPrice \notin Prices
  /\ Quantity \in Nat
  /\ EditBound \in Nat
  /\ QuietCheckout \in BOOLEAN

Lines == [Articles -> Nat]
Empty == [a \in Articles |-> 0]
OrderLines == [Articles -> 0..Quantity] \ {Empty}
Carts == [lines : Lines, price : Prices]

ASSUME NoCartIsNone == NoCart \notin Carts

VARIABLES
  lines,       \* proc_purchase_order_lines, combined by product number
  price,       \* their unit prices
  version,     \* what local_context hashes: the order and its dependencies
  claimed,     \* proc_order_submissions: the checkout in reviewed_payload
  owner,       \* purchase_order_id of a checkout row
  items,       \* supplier_items in its reviewed_request
  seen,        \* its local_context
  state,       \* its status, "none" before the row exists
  snapshot,    \* its cart_snapshot
  old,         \* checkout rows created more than 15 minutes ago
  receipt,     \* operation_status in the receipt of the preparing request
  prep,        \* where the request preparing a checkout stands
  quote,       \* the cart it holds in memory
  send,        \* where the request paying an order stands
  adrift,      \* preparations that gave up waiting for a fast order the
               \* shop may still carry out
  shop,        \* the shop's cart and its current price list
  disturbed,   \* history: since the cart was paid something other than a
               \* running preparation has changed it
  paid         \* what the shop has booked for a purchase order, in order

order    == <<lines, price, version, claimed>>
checkout == <<owner, items, seen, state, snapshot, old, receipt>>
supplier == <<shop, disturbed, paid>>
jobs     == <<prep, quote, send, adrift>>
vars == <<lines, price, version, claimed, owner, items, seen, state, snapshot,
          old, receipt, prep, quote, send, adrift, shop, disturbed, paid>>

Preparing == {"none", "queued", "empty", "stocked", "quoted", "refused"}

TypeOK ==
  /\ lines \in [Orders -> Lines]
  /\ price \in [Orders -> Prices \cup {OwnPrice}]
  /\ version \in [Orders -> Nat]
  /\ claimed \in [Orders -> Checkouts \cup {NoCheckout}]
  /\ owner \in [Checkouts -> Orders \cup {NoOrder}]
  /\ items \in [Checkouts -> Lines]
  /\ seen \in [Checkouts -> Nat]
  /\ state \in [Checkouts -> {"none", "preparing", "ready", "failed"}]
  /\ snapshot \in [Checkouts -> Carts \cup {NoCart}]
  /\ old \subseteq Checkouts
  /\ receipt \in [Checkouts -> {"none", "pending", "ready", "failed"}]
  /\ prep \in [Checkouts -> Preparing]
  /\ quote \in [Checkouts -> Carts \cup {NoCart}]
  /\ send \in [Orders -> {"none", "queued", "checked"}]
  /\ shop \in Carts
  /\ adrift \subseteq Checkouts
  /\ disturbed \in BOOLEAN
  /\ paid \in [Orders -> Seq(Carts)]

Init ==
  /\ lines \in [Orders -> OrderLines]
  /\ price = [o \in Orders |-> OwnPrice]
  /\ version = [o \in Orders |-> 0]
  /\ claimed = [o \in Orders |-> NoCheckout]
  /\ owner = [c \in Checkouts |-> NoOrder]
  /\ items = [c \in Checkouts |-> Empty]
  /\ seen = [c \in Checkouts |-> 0]
  /\ state = [c \in Checkouts |-> "none"]
  /\ snapshot = [c \in Checkouts |-> NoCart]
  /\ old = {}
  /\ receipt = [c \in Checkouts |-> "none"]
  /\ prep = [c \in Checkouts |-> "none"]
  /\ quote = [c \in Checkouts |-> NoCart]
  /\ send = [o \in Orders |-> "none"]
  /\ shop \in [lines : {Empty}, price : Prices]
  /\ adrift = {}
  /\ disturbed = FALSE
  /\ paid = [o \in Orders |-> <<>>]

-----------------------------------------------------------------------------
(* Claims: one transaction each, under the table locks of                  *)
(* lockRequisitionOrderContext.                                            *)

Unclaimed(o) == claimed[o] = NoCheckout

(* Variant with a defect: a claimed order can still be edited. *)
EditAnyOrder(o, q) ==
  /\ \A p \in Orders : version[p] < EditBound
  /\ lines' = [lines EXCEPT ![o] = q]
  /\ price' = [price EXCEPT ![o] = OwnPrice]
  /\ version' = [version EXCEPT ![o] = @ + 1]
  /\ UNCHANGED <<claimed, checkout, jobs, supplier>>

(* A user changes the draft, or something its context depends on. *)
EditOrder(o, q) ==
  /\ Unclaimed(o)
  /\ \A p \in Orders : version[p] < EditBound
  /\ lines' = [lines EXCEPT ![o] = q]
  /\ price' = [price EXCEPT ![o] = OwnPrice]
  /\ version' = [version EXCEPT ![o] = @ + 1]
  /\ UNCHANGED <<claimed, checkout, jobs, supplier>>

(* A preparation of the order that began less than 15 minutes ago. *)
LivePreparation(o) ==
  \E c \in Checkouts : owner[c] = o /\ state[c] = "preparing" /\ c \notin old

ClaimCart(c, o) ==
  /\ state[c] = "none"
  /\ Unclaimed(o)
  /\ ~LivePreparation(o)
  /\ owner' = [owner EXCEPT ![c] = o]
  /\ items' = [items EXCEPT ![c] = lines[o]]
  /\ seen' = [seen EXCEPT ![c] = version[o]]
  /\ state' = [state EXCEPT ![c] = "preparing"]
  /\ receipt' = [receipt EXCEPT ![c] = "pending"]
  /\ prep' = [prep EXCEPT ![c] = "queued"]
  /\ UNCHANGED <<order, snapshot, old, quote, send, adrift, supplier>>

(* The checkout may be paid: ready, fresh, and nothing it rests on changed. *)
Payable(c, o) ==
  /\ owner[c] = o /\ state[c] = "ready"
  /\ c \notin old
  /\ seen[c] = version[o]

ClaimSend(c, o) ==
  /\ Unclaimed(o)
  /\ Payable(c, o)
  /\ price' = [price EXCEPT ![o] = snapshot[c].price]
  /\ claimed' = [claimed EXCEPT ![o] = c]
  /\ send' = [send EXCEPT ![o] = "queued"]
  /\ UNCHANGED <<lines, version, checkout, prep, quote, adrift, supplier>>

-----------------------------------------------------------------------------
(* PrepareAdamHallReviewedCheckout, one action per request to the shop.    *)

(* Some remote procedure is between its first and its last request. *)
MutexHeld ==
  \/ \E c \in Checkouts : prep[c] \in {"empty", "stocked"}
  \/ \E o \in Orders : send[o] = "checked"

(* Variant with a defect: the checkout mutex is not taken. *)
ReadWithoutMutex(c) ==
  /\ prep[c] = "queued"
  /\ prep' = [prep EXCEPT ![c] = IF shop.lines = Empty THEN "empty"
                                 ELSE IF shop.lines = items[c] THEN "stocked"
                                 ELSE "refused"]
  /\ UNCHANGED <<order, checkout, quote, send, adrift, supplier>>

(* An equal cart is reused, any other is refused and left alone. *)
ReadCart(c) ==
  /\ prep[c] = "queued" /\ ~MutexHeld
  /\ prep' = [prep EXCEPT ![c] = IF shop.lines = Empty THEN "empty"
                                 ELSE IF shop.lines = items[c] THEN "stocked"
                                 ELSE "refused"]
  /\ UNCHANGED <<order, checkout, quote, send, adrift, supplier>>

(* The shop carries out a fast order: it adds to whatever the cart holds  *)
(* by now, all of the articles or only some of them.                      *)
ShopAdds(c) ==
  \E part \in [Articles -> 0..Quantity] :
    /\ \A a \in Articles : part[a] <= items[c][a]
    /\ shop' = [shop EXCEPT !.lines =
                  [a \in Articles |-> shop.lines[a] + part[a]]]

(* The fast order is carried out while it is waited for.  Its answer may   *)
(* be lost or say that something is missing.                               *)
FillCart(c) ==
  /\ prep[c] = "empty"
  /\ ShopAdds(c)
  /\ \E p \in {"stocked", "refused"} : prep' = [prep EXCEPT ![c] = p]
  /\ UNCHANGED <<order, checkout, quote, send, adrift, disturbed, paid>>

(* The fast order times out (12 s) before the shop has looked at it.       *)
LoseFastOrder(c) ==
  /\ prep[c] = "empty"
  /\ prep' = [prep EXCEPT ![c] = "refused"]
  /\ adrift' = adrift \cup {c}
  /\ UNCHANGED <<order, checkout, quote, send, supplier>>

(* The confirmed cart is read back and must be exactly the order's. *)
QuoteCart(c) ==
  /\ prep[c] = "stocked"
  /\ IF shop.lines = items[c]
     THEN /\ prep' = [prep EXCEPT ![c] = "quoted"]
          /\ quote' = [quote EXCEPT ![c] = shop]
     ELSE prep' = [prep EXCEPT ![c] = "refused"] /\ UNCHANGED quote
  /\ UNCHANGED <<order, checkout, send, adrift, supplier>>

(* A request to the shop fails without an effect on the cart. *)
PreparationFails(c) ==
  /\ \/ prep[c] = "queued" /\ ~MutexHeld
     \/ prep[c] \in {"empty", "stocked"}
  /\ prep' = [prep EXCEPT ![c] = "refused"]
  /\ UNCHANGED <<order, checkout, quote, send, adrift, supplier>>

(* completeAdamHallRemoteCart, first transaction. *)
SaveCart(c) ==
  /\ prep[c] \in {"quoted", "refused"}
  /\ state' = [state EXCEPT ![c] =
                 IF prep[c] = "quoted" THEN "ready" ELSE "failed"]
  /\ snapshot' = [snapshot EXCEPT ![c] = quote[c]]
  /\ prep' = [prep EXCEPT ![c] = "none"]
  /\ quote' = [quote EXCEPT ![c] = NoCart]
  /\ UNCHANGED <<order, owner, items, seen, old, receipt, send, adrift,
                 supplier>>

(* Variant with a defect: a preparation not known to be ready is answered  *)
(* as failed.                                                              *)
AnswerFailed(c) ==
  /\ receipt[c] = "pending"
  /\ receipt' = [receipt EXCEPT ![c] =
                   IF state[c] = "ready" THEN "ready" ELSE "failed"]
  /\ UNCHANGED <<order, owner, items, seen, state, snapshot, old, jobs,
                 supplier>>

(* Variant with a defect: the answer is written before there is an outcome. *)
AnswerEarly(c) ==
  /\ receipt[c] = "pending"
  /\ receipt' = [receipt EXCEPT ![c] = state[c]]
  /\ UNCHANGED <<order, owner, items, seen, state, snapshot, old, jobs,
                 supplier>>

(* finishAdamHallCart: the saved outcome becomes the answer, given by the  *)
(* request itself or, if it died, by a repetition of it.                   *)
FinishCart(c) ==
  /\ receipt[c] = "pending" /\ state[c] # "preparing"
  /\ receipt' = [receipt EXCEPT ![c] = state[c]]
  /\ UNCHANGED <<order, owner, items, seen, state, snapshot, old, jobs,
                 supplier>>

-----------------------------------------------------------------------------
(* SubmitReviewedAdamHallCheckout.                                         *)

(* Variant with a defect: only the articles are compared. *)
SameArticles(o) == shop.lines = lines[o]

(* The cart and its prices are those reviewed, and they are the order's. *)
StillReviewed(o) ==
  /\ shop = snapshot[claimed[o]]
  /\ shop.lines = lines[o]

CheckCart(o) ==
  /\ send[o] = "queued" /\ ~MutexHeld
  /\ send' = [send EXCEPT ![o] =
                IF StillReviewed(o) THEN "checked" ELSE "none"]
  /\ UNCHANGED <<order, checkout, prep, quote, adrift, supplier>>

(* The shop books what the cart holds now, if it holds anything; the       *)
(* answer may be lost.                                                     *)
PlaceOrder(o) ==
  /\ send[o] = "checked"
  /\ shop.lines # Empty
  /\ paid' = [paid EXCEPT ![o] = Append(@, shop)]
  /\ shop' = [shop EXCEPT !.lines = Empty]
  /\ disturbed' = FALSE
  /\ send' = [send EXCEPT ![o] = "none"]
  /\ UNCHANGED <<order, checkout, prep, quote, adrift>>

SendFails(o) ==
  /\ \/ send[o] = "queued" /\ ~MutexHeld
     \/ send[o] = "checked"
  /\ send' = [send EXCEPT ![o] = "none"]
  /\ UNCHANGED <<order, checkout, prep, quote, adrift, supplier>>

-----------------------------------------------------------------------------
(* The world around it.                                                    *)

(* Nothing gets between the last check and the paying request.             *)
MayChange == QuietCheckout => \A o \in Orders : send[o] # "checked"

(* People put articles in the cart, remove them or pay them themselves; *)
(* the shop changes its prices.                                         *)
ChangeShop(s) ==
  /\ MayChange
  /\ s # shop
  /\ shop' = s
  /\ disturbed' = (disturbed \/ s.lines # shop.lines)
  /\ UNCHANGED <<order, checkout, jobs, paid>>

(* The shop carries out a fast order that nobody waits for any more: other *)
(* preparations may have read, filled or quoted the cart since.            *)
FillLate(c) ==
  /\ c \in adrift
  /\ MayChange
  /\ ShopAdds(c)
  /\ adrift' = adrift \ {c}
  /\ disturbed' = (disturbed \/ shop'.lines # shop.lines)
  /\ UNCHANGED <<order, checkout, prep, quote, send, paid>>

(* Fifteen minutes have passed since the row was created; the age of a *)
(* failed preparation makes no difference to anyone.                   *)
GrowOld(c) ==
  /\ state[c] \in {"preparing", "ready"} /\ c \notin old
  /\ old' = old \cup {c}
  /\ UNCHANGED <<order, owner, items, seen, state, snapshot, receipt, jobs,
                 supplier>>

(* The outcome of a preparation cannot be saved. *)
SaveFails(c) ==
  /\ prep[c] \in {"quoted", "refused"}
  /\ prep' = [prep EXCEPT ![c] = "none"]
  /\ quote' = [quote EXCEPT ![c] = NoCart]
  /\ UNCHANGED <<order, checkout, send, adrift, supplier>>

(* The process dies, and the mutex and every running request with it; a   *)
(* fast order it has sent may still reach the shop.                        *)
Crash ==
  /\ prep' = [c \in Checkouts |-> "none"]
  /\ quote' = [c \in Checkouts |-> NoCart]
  /\ send' = [o \in Orders |-> "none"]
  /\ \E lost \in SUBSET {c \in Checkouts : prep[c] = "empty"} :
       adrift' = adrift \cup lost
  /\ UNCHANGED <<order, checkout, supplier>>

Next ==
  \/ \E o \in Orders :
       \/ \E q \in OrderLines : EditOrder(o, q)
       \/ \E c \in Checkouts : ClaimCart(c, o) \/ ClaimSend(c, o)
       \/ CheckCart(o) \/ PlaceOrder(o) \/ SendFails(o)
  \/ \E c \in Checkouts :
       \/ ReadCart(c) \/ FillCart(c) \/ LoseFastOrder(c) \/ QuoteCart(c)
       \/ PreparationFails(c) \/ SaveCart(c) \/ FinishCart(c) \/ SaveFails(c)
       \/ GrowOld(c) \/ FillLate(c)
  \/ \E s \in [lines : [Articles -> 0..Quantity], price : Prices] :
       ChangeShop(s)
  \/ Crash

Spec == Init /\ [][Next]_vars

-----------------------------------------------------------------------------
(* Properties.                                                             *)

(* The shop books at most one order for a purchase order, and it is the    *)
(* cart, at the prices, that the person who released it had reviewed:      *)
(* SubmitReviewedAdamHallCheckout never rebuilds a cart, pays somebody     *)
(* else's articles or accepts changed prices.                              *)
PaidAsReviewed ==
  \A o \in Orders : paid[o] # <<>> => paid[o] = <<snapshot[claimed[o]]>>

(* A purchase order the shop has booked says what was bought and what it   *)
(* costs: the context hash keeps a changed order from being paid, the      *)
(* claim writes the reviewed prices and keeps a paid order from changing.  *)
PaidIsOrdered ==
  \A o \in Orders : paid[o] # <<>> =>
    /\ lines[o] = paid[o][1].lines
    /\ price[o] = paid[o][1].price

(* The answer a client gets for its preparation, directly or on replay     *)
(* after a crash, is the outcome saved for it: never of a preparation that *)
(* is still running, and never changed afterwards.                         *)
AnswerIsOutcome ==
  \A c \in Checkouts :
    receipt[c] \notin {"none", "pending"} => receipt[c] = state[c]

(* As long as only running preparations change the cart, it holds at most  *)
(* the articles of one order once, however many preparations overlap,      *)
(* repeat, stop short or die: the mutex and the reuse of an equal cart     *)
(* keep a cart from being filled twice.  A fast order that lands late can  *)
(* double it; PaidAsReviewed says that such a cart is not paid.            *)
CartNotDoubled ==
  ~disturbed =>
    \/ shop.lines = Empty
    \/ \E c \in Checkouts : \A a \in Articles : shop.lines[a] <= items[c][a]

(* Nothing the program does takes an article out of the shared cart,       *)
(* except by paying it.                                                    *)
NeverRemoved ==
  [][jobs' # jobs /\ paid' = paid =>
       \A a \in Articles : shop'.lines[a] >= shop.lines[a]]_vars
=============================================================================
