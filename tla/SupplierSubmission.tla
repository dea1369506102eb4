------------------------- MODULE SupplierSubmission -------------------------
(***************************************************************************)
(* The paid submission of purchase orders to Amazon Business and Adam      *)
(* Hall: src/internal/api/amazon_submission_mcp.go, the send half of       *)
(* adam_hall_checkout_workflow.go, submission_reconciliation_mcp.go and    *)
(* the triggers of database/order_submission_schema.go.                    *)
(*                                                                         *)
(* A handler commits a durable claim, then calls the supplier outside any  *)
(* transaction, then commits the outcome, then commits the order status    *)
(* and the replay receipt.  The process may die, the answer may be lost    *)
(* and a transaction may fail between any two of these steps; meanwhile    *)
(* users change the order, clients repeat their request, the supplier      *)
(* reports back and a human reconciles.                                    *)
(*                                                                         *)
(* One action is one database transaction or one step of the outside       *)
(* world.  That a transaction is atomic although native handlers lock      *)
(* rows and guided handlers lock tables is the subject of RequisitionFlow.    *)
(*                                                                         *)
(* Checks that only read catalogue data (active supplier and products, a   *)
(* requisition approved by someone else, the reviewed context, the EUR     *)
(* total) can only keep a claim from being made.  A claim is always one    *)
(* of two choices here, so they are left out.                              *)
(***************************************************************************)
EXTENDS Naturals, OrderStatus

CONSTANTS
  Orders,         \* purchase orders that start as drafts
  AmazonOrders,   \* those that came from an Amazon PunchOut cart
  Requests,       \* handler invocations that can be in progress at once
  Keys,           \* Idempotency-Key values clients use
  NoKey,          \* a native Amazon request carries no key
  NoOrder,        \* the order of an idle handler slot
  NativeAmazon,   \* TRUE: the UI's own Amazon endpoint is in use
  Settle,         \* ticks after the claim before a human may reconcile
  AttemptBound    \* ticks after the claim during which an attempt may live
                  \* that does not wait for the Adam Hall mutex

ASSUME SubmissionConstants ==
  /\ AmazonOrders \subseteq Orders
  /\ NoKey \notin Keys
  /\ NoOrder \notin Orders
  /\ NativeAmazon \in BOOLEAN
  /\ Settle \in Nat \ {0}
  /\ AttemptBound \in Nat

VARIABLES
  status,      \* proc_purchase_orders.status
  claim,       \* proc_order_submissions.status, "none" without a row
  age,         \* ticks since the claim's created_at, capped at Settle
  receipt,     \* operation_status in the idempotency record of a key
  reconciled,  \* proc_submission_reconciliations.resolution
  confirmed,   \* orders with rows in proc_amazon_line_confirmations
  pc,          \* where a handler invocation stands
  reqOrder,    \* the order it works on
  reqKey,      \* its idempotency key
  answer,      \* the supplier outcome it holds in memory
  wire,        \* orders whose supplier request is still under way
  placed,      \* purchases the supplier has booked
  sends,       \* history: supplier calls made
  manual       \* history: orders a user marked as sent by other means

local    == <<status, claim, receipt, reconciled, confirmed>>
handler  == <<pc, reqOrder, reqKey, answer>>
supplier == <<wire, placed>>
history  == <<sends, manual>>
vars == <<status, claim, age, receipt, reconciled, confirmed, pc, reqOrder,
          reqKey, answer, wire, placed, sends, manual>>

Outcomes == {"accepted", "unknown"}
Receipts == {"none", "pending", "sent", "submission_unknown"}

TypeOK ==
  /\ status \in [Orders -> Statuses]
  /\ claim \in [Orders -> {"none", "pending"} \cup Outcomes]
  /\ age \in [Orders -> 0..Settle]
  /\ receipt \in [Orders -> [Keys -> Receipts]]
  /\ reconciled \in [Orders -> {"none", "found_order", "confirmed_not_sent"}]
  /\ confirmed \subseteq AmazonOrders
  /\ pc \in [Requests -> {"idle", "claimed", "calling", "answered", "recorded"}]
  /\ reqOrder \in [Requests -> Orders \cup {NoOrder}]
  /\ reqKey \in [Requests -> Keys \cup {NoKey}]
  /\ answer \in [Requests -> {"none"} \cup Outcomes]
  /\ wire \subseteq Orders
  /\ placed \in [Orders -> Nat]
  /\ sends \in [Orders -> Nat]
  /\ manual \subseteq Orders

Init ==
  /\ status = [o \in Orders |-> "draft"]
  /\ claim = [o \in Orders |-> "none"]
  /\ age = [o \in Orders |-> 0]
  /\ receipt = [o \in Orders |-> [k \in Keys |-> "none"]]
  /\ reconciled = [o \in Orders |-> "none"]
  /\ confirmed = {}
  /\ pc = [r \in Requests |-> "idle"]
  /\ reqOrder = [r \in Requests |-> NoOrder]
  /\ reqKey = [r \in Requests |-> NoKey]
  /\ answer = [r \in Requests |-> "none"]
  /\ wire = {}
  /\ placed = [o \in Orders |-> 0]
  /\ sends = [o \in Orders |-> 0]
  /\ manual = {}

-----------------------------------------------------------------------------
(* The submitting handler.                                                 *)

(* An attempt is in progress on the order. *)
Live(o) == \E r \in Requests : pc[r] # "idle" /\ reqOrder[r] = o

(* Amazon orders go through the guided endpoint with a key or through the  *)
(* native one without; an Adam Hall checkout always requires a key.        *)
KeyAccepted(o, k) == k = NoKey => NativeAmazon /\ o \in AmazonOrders

(* The key has not been used for this order: its receipt row is new. *)
FreshKey(o, k) == k # NoKey => receipt[o][k] = "none"

(* Variant with a defect: an uncertain order may be submitted again. *)
UnsubmittedOrUncertain(o) ==
  /\ status[o] \in {"draft", "submission_unknown"}
  /\ o \notin confirmed

(* The order is a draft that was never claimed and never confirmed. *)
UnsubmittedDraft(o) ==
  /\ status[o] = "draft"
  /\ claim[o] = "none"
  /\ o \notin confirmed

SetReceipt(o, k, v) ==
  receipt' = IF k = NoKey THEN receipt ELSE [receipt EXCEPT ![o][k] = v]

(* First transaction: claim, order status "submitting", receipt "pending". *)
Claim(r, o, k) ==
  /\ pc[r] = "idle"
  /\ KeyAccepted(o, k)
  /\ FreshKey(o, k)
  /\ UnsubmittedDraft(o)
  /\ claim' = [claim EXCEPT ![o] = "pending"]
  /\ age' = [age EXCEPT ![o] = 0]
  /\ status' = [status EXCEPT ![o] = "submitting"]
  /\ SetReceipt(o, k, "pending")
  /\ pc' = [pc EXCEPT ![r] = "claimed"]
  /\ reqOrder' = [reqOrder EXCEPT ![r] = o]
  /\ reqKey' = [reqKey EXCEPT ![r] = k]
  /\ UNCHANGED <<reconciled, confirmed, answer, supplier, history>>

(* The one supplier call of the claim leaves the process. *)
CallSupplier(r) ==
  /\ pc[r] = "claimed"
  /\ pc' = [pc EXCEPT ![r] = "calling"]
  /\ wire' = wire \cup {reqOrder[r]}
  /\ sends' = [sends EXCEPT ![reqOrder[r]] = @ + 1]
  /\ UNCHANGED <<local, age, reqOrder, reqKey, answer, placed, manual>>

(* The call fails before the order request is written: a cancelled         *)
(* request, a changed Adam Hall cart, a lost connection.                   *)
FailBeforeCall(r) ==
  /\ pc[r] = "claimed"
  /\ pc' = [pc EXCEPT ![r] = "answered"]
  /\ answer' = [answer EXCEPT ![r] = "unknown"]
  /\ UNCHANGED <<local, age, reqOrder, reqKey, supplier, history>>

(* An acknowledgement comes only for a booked order; an error or a timeout *)
(* may come whatever the supplier did or will still do.                    *)
ReceiveAnswer(r) ==
  /\ pc[r] = "calling"
  /\ pc' = [pc EXCEPT ![r] = "answered"]
  /\ \/ /\ placed[reqOrder[r]] > 0
        /\ answer' = [answer EXCEPT ![r] = "accepted"]
     \/ answer' = [answer EXCEPT ![r] = "unknown"]
  /\ UNCHANGED <<local, age, reqOrder, reqKey, supplier, history>>

(* Second transaction: the outcome, which the trigger makes immutable. *)
RecordOutcome(r) ==
  LET o == reqOrder[r] IN
  /\ pc[r] = "answered"
  /\ claim[o] \in {"pending", answer[r]}
  /\ claim' = [claim EXCEPT ![o] = answer[r]]
  /\ pc' = [pc EXCEPT ![r] = "recorded"]
  /\ UNCHANGED <<status, age, receipt, reconciled, confirmed, reqOrder,
                 reqKey, answer, supplier, history>>

(* The handler returns; its slot is free for another request. *)
Release(r) ==
  /\ pc' = [pc EXCEPT ![r] = "idle"]
  /\ reqOrder' = [reqOrder EXCEPT ![r] = NoOrder]
  /\ reqKey' = [reqKey EXCEPT ![r] = NoKey]
  /\ answer' = [answer EXCEPT ![r] = "none"]

(* Variant with a defect: every outcome reads as a success. *)
OutcomeAlwaysSent(o) == "sent"

(* Variant with a defect: an uncertain outcome echoes the order's status. *)
OutcomeEchoed(o) == IF claim[o] = "accepted" THEN "sent" ELSE status[o]

(* What a saved outcome means for the order and for the receipt. *)
OutcomeStatus(o) ==
  IF claim[o] = "accepted" THEN "sent" ELSE "submission_unknown"

(* Variant with a defect: the saved outcome overwrites whatever came first. *)
FinalizedStatusForced(o) == OutcomeStatus(o)

(* Only an order that still waits for its outcome takes it. *)
FinalizedStatus(o) ==
  IF status[o] = "submitting" THEN OutcomeStatus(o) ELSE status[o]

(* finalizeAmazonSubmission, for the handler that called and for a replay. *)
FinalizeOrder(o, k) ==
  /\ status' = [status EXCEPT ![o] = FinalizedStatus(o)]
  /\ SetReceipt(o, k, OutcomeStatus(o))
  /\ UNCHANGED <<claim, age, reconciled, confirmed, supplier, history>>

(* Third transaction of the handler that called the supplier. *)
Finalize(r) ==
  /\ pc[r] = "recorded"
  /\ FinalizeOrder(reqOrder[r], reqKey[r])
  /\ Release(r)

(* Variant with a defect: any claim counts as one with an outcome. *)
AnyClaim(o) == claim[o] # "none"

(* Variant with a defect: only an uncertain outcome can be picked up. *)
UncertainSaved(o) == claim[o] = "unknown"

OutcomeSaved(o) == claim[o] \in Outcomes

(* The original request is repeated with its key.  It never calls the      *)
(* supplier: it finalizes a saved outcome, or returns what is stored.      *)
Replay(o, k) ==
  /\ receipt[o][k] = "pending"
  /\ OutcomeSaved(o)
  /\ FinalizeOrder(o, k)
  /\ UNCHANGED handler

(* One handler gives up without finishing: the answer of a commit is lost, *)
(* or its next transaction fails (lock or statement timeout, deadlock, the *)
(* 30 second completion deadline).                                         *)
HandlerFails(r) ==
  /\ pc[r] \in {"claimed", "answered", "recorded"}
  /\ Release(r)
  /\ UNCHANGED <<local, age, supplier, history>>

(* The process dies with everything it had in memory. *)
Crash ==
  /\ \E r \in Requests : pc[r] # "idle"
  /\ pc' = [r \in Requests |-> "idle"]
  /\ reqOrder' = [r \in Requests |-> NoOrder]
  /\ reqKey' = [r \in Requests |-> NoKey]
  /\ answer' = [r \in Requests |-> "none"]
  /\ UNCHANGED <<local, age, supplier, history>>

-----------------------------------------------------------------------------
(* The supplier (external) and its order confirmations.                    *)

(* The supplier books the order it received. *)
SupplierBooks(o) ==
  /\ o \in wire
  /\ placed' = [placed EXCEPT ![o] = @ + 1]
  /\ wire' = wire \ {o}
  /\ UNCHANGED <<local, age, handler, history>>

(* The request is lost, or the supplier refuses it. *)
SupplierDrops(o) ==
  /\ o \in wire
  /\ wire' = wire \ {o}
  /\ UNCHANGED <<local, age, handler, placed, history>>

(* applyAmazonConfirmation, seen from the order: Amazon reports on an      *)
(* order it has booked, and the status becomes what the confirmed and      *)
(* rejected quantities say (module AmazonConfirmation computes them).      *)
Confirm(o, s) ==
  /\ o \in AmazonOrders
  /\ placed[o] > 0
  /\ claim[o] # "none"
  /\ status[o] \notin {"draft", "received", "partially_received"}
  /\ status[o] = "cancelled" => s = "cancelled"
  /\ status' = [status EXCEPT ![o] = s]
  /\ confirmed' = confirmed \cup {o}
  /\ UNCHANGED <<claim, age, receipt, reconciled, handler, supplier, history>>

-----------------------------------------------------------------------------
(* Users.                                                                  *)

(* Variant with a defect: the database does not watch claimed orders. *)
TriggerOff(o, to) == TRUE

(* guard_procurement_submitted_order: a claimed order is never a draft     *)
(* again and never starts a second submission.                             *)
TriggerAllows(o, to) ==
  claim[o] # "none" =>
    /\ to # "draft"
    /\ to = "submitting" => status[o] \in {"draft", "submitting"}

(* updateOrder and the guided status approval.  "submitting" is not a      *)
(* status a user can name.  Marking a draft as sent records an order that  *)
(* was placed by telephone or mail.                                        *)
UserSetsStatus(o, to) ==
  /\ to # "submitting"
  /\ TransitionAllowed(status[o], to)
  /\ ~(o \in AmazonOrders /\ status[o] = "draft" /\ to = "sent")
  /\ ~(o \in AmazonOrders /\ status[o] = "submission_unknown" /\ to = "draft")
  /\ TriggerAllows(o, to)
  /\ status' = [status EXCEPT ![o] = to]
  /\ manual' = IF status[o] = "draft" /\ to = "sent" THEN manual \cup {o}
                                                    ELSE manual
  /\ UNCHANGED <<claim, age, receipt, reconciled, confirmed, handler,
                 supplier, sends>>

(* applyGoodsReceipt, seen from the order. *)
ReceiveGoods(o, s) ==
  /\ status[o] \in Receivable
  /\ s \in {"partially_received", "received"}
  /\ status' = [status EXCEPT ![o] = s]
  /\ UNCHANGED <<claim, age, receipt, reconciled, confirmed, handler,
                 supplier, history>>

-----------------------------------------------------------------------------
(* Human reconciliation.                                                   *)

(* Variant with a defect: the 15 minutes are not waited for. *)
SettledAtOnce(o) == TRUE

(* The attempt is 15 minutes old (tick Settle). *)
Settled(o) == age[o] >= Settle

(* The order's outcome is uncertain and nothing else has decided it. *)
Uncertain(o) ==
  /\ status[o] \in {"submitting", "submission_unknown"}
  /\ claim[o] \in {"pending", "unknown"}
  /\ reconciled[o] = "none"
  /\ o \notin confirmed

CanReconcile(o) == Uncertain(o) /\ Settled(o)

(* submissionReconciliationMCP.  The human verification is external: what  *)
(* the person reports is what the supplier's account holds at that time.   *)
Reconcile(o, resolution) ==
  /\ CanReconcile(o)
  /\ resolution = "found_order" <=> placed[o] > 0
  /\ reconciled' = [reconciled EXCEPT ![o] = resolution]
  /\ status' = [status EXCEPT ![o] =
                  IF resolution = "found_order" THEN "sent" ELSE "cancelled"]
  /\ UNCHANGED <<claim, age, receipt, confirmed, handler, supplier, history>>

-----------------------------------------------------------------------------
(* An Adam Hall submission that waits for the checkout mutex.  The wait    *)
(* has no deadline, and the order is not looked at again afterwards.       *)
Queued(o) ==
  /\ o \notin AmazonOrders
  /\ \E r \in Requests : pc[r] = "claimed" /\ reqOrder[r] = o

(* Time.  Apart from that wait an attempt older than AttemptBound has      *)
(* ended: its handler has returned (HTTP timeouts of 15 and 12 s, 30 s to  *)
(* store the outcome) and its request is no longer under way.  What is     *)
(* left of an attempt that waited longer is taken to need no time.         *)
Tick ==
  /\ \E o \in Orders : claim[o] # "none" /\ age[o] < Settle
  /\ \A o \in Orders :
       (Live(o) \/ o \in wire) /\ ~Queued(o) => age[o] < AttemptBound
  /\ age' = [o \in Orders |->
               IF claim[o] = "none" \/ age[o] = Settle THEN age[o]
                                                       ELSE age[o] + 1]
  /\ UNCHANGED <<local, handler, supplier, history>>

-----------------------------------------------------------------------------
HandlerStep(r) ==
  CallSupplier(r) \/ FailBeforeCall(r) \/ ReceiveAnswer(r)
    \/ RecordOutcome(r) \/ Finalize(r)

Next ==
  \/ \E r \in Requests, o \in Orders, k \in Keys \cup {NoKey} : Claim(r, o, k)
  \/ \E r \in Requests : HandlerStep(r) \/ HandlerFails(r)
  \/ \E o \in Orders, k \in Keys : Replay(o, k)
  \/ \E o \in Orders : SupplierBooks(o) \/ SupplierDrops(o)
  \/ \E o \in Orders, s \in {"sent", "confirmed", "partially_confirmed",
                            "cancelled"} : Confirm(o, s)
  \/ \E o \in Orders, s \in Statuses : UserSetsStatus(o, s)
  \/ \E o \in Orders, s \in Statuses : ReceiveGoods(o, s)
  \/ \E o \in Orders, resolution \in {"found_order", "confirmed_not_sent"} :
       Reconcile(o, resolution)
  \/ Crash
  \/ Tick

Spec == Init /\ [][Next]_vars

(* A running handler takes its next step unless the process dies, requests *)
(* under way arrive or are dropped, and time passes.  Nothing is asked of  *)
(* users, clients or the reconciling human.                                *)
Fairness ==
  /\ \A r \in Requests : WF_vars(HandlerStep(r))
  /\ \A o \in Orders : WF_vars(SupplierBooks(o) \/ SupplierDrops(o))
  /\ WF_vars(Tick)

FairSpec == Spec /\ Fairness

-----------------------------------------------------------------------------
(* Properties.                                                             *)

(* No order is sent to its supplier twice, whatever dies, times out or is  *)
(* repeated ("exactly this process to send once",                          *)
(* amazon_submission_mcp.go 293).                                          *)
AtMostOneCall == \A o \in Orders : sends[o] <= 1

(* An order is not both ordered through the integration and marked by a    *)
(* user as ordered elsewhere: the claim and the manual change exclude each *)
(* other through the order's status.                                       *)
NoManualDuplicate == \A o \in manual : sends[o] = 0

(* A submitted order that reads as sent, confirmed or delivered exists at  *)
(* the supplier: neither an uncertain answer nor a lost one is ever shown  *)
(* as an order.                                                            *)
SentIsReal ==
  \A o \in Orders :
    /\ claim[o] # "none"
    /\ status[o] \in {"sent", "confirmed", "partially_confirmed",
                      "partially_received", "received"}
    => placed[o] = 1

(* An order reads as "submission_unknown" only when the durable outcome is *)
(* "unknown"; an acknowledged order never ends there, where it could be    *)
(* neither finished nor reconciled.                                        *)
UnknownMeansUnknown ==
  \A o \in Orders : status[o] = "submission_unknown" => claim[o] = "unknown"

(* A submission closed by hand as never sent holds no purchase. *)
NotBought(o) == reconciled[o] = "confirmed_not_sent" => placed[o] = 0

(* What the code says of every order closed as never sent: "This order can *)
(* never be sent again" (submission_reconciliation_mcp.go 140).  It fails  *)
(* for an Adam Hall submission that still waits for the checkout mutex     *)
(* when the 15 minutes are over.                                           *)
AbsentStaysAbsent == \A o \in Orders : NotBought(o)

(* For Amazon orders it is so: the attempt is over, with the request it    *)
(* sent, before a human may say what became of it.                         *)
AmazonAbsentStaysAbsent == \A o \in AmazonOrders : NotBought(o)

(* A human decision is not undone: no late outcome, replay or confirmation *)
(* makes a reconciled order uncertain again or revives a closed one.       *)
ReconciliationStands ==
  [][\A o \in Orders :
       /\ reconciled[o] # "none" =>
            status'[o] \notin {"submitting", "submission_unknown"}
       /\ reconciled[o] = "confirmed_not_sent" => status'[o] = "cancelled"]_vars

(* A client that has been told a final result under its key is told the    *)
(* same result ever after.                                                 *)
FinalReceiptStands ==
  [][\A o \in Orders, k \in Keys :
       receipt[o][k] \in {"sent", "submission_unknown"} =>
         receipt'[o][k] = receipt[o][k]]_vars

(* The client that holds the order's key can still finish it. *)
CanReplay(o) ==
  OutcomeSaved(o) /\ \E k \in Keys : receipt[o][k] = "pending"

(* An acknowledged order whose handler is gone before the order status was *)
(* stored can be finished from the saved acknowledgement, as README.md     *)
(* 119-121 promises for both the guided and the native call (131-132).     *)
AcknowledgedCanBeFinished ==
  \A o \in Orders :
    claim[o] = "accepted" /\ status[o] = "submitting" /\ ~Live(o)
      => CanReplay(o)

(* No submission stays open for ever with nobody able to decide it: every  *)
(* order in flight is eventually decided, or can be finished with its key, *)
(* or can be reconciled by a human.                                        *)
NeverStranded ==
  \A o \in Orders :
    status[o] \in {"submitting", "submission_unknown"} ~>
      \/ status[o] \notin {"submitting", "submission_unknown"}
      \/ CanReplay(o)
      \/ CanReconcile(o)

(* The promise of PurchaseOnce is kept; closing an order is final for the  *)
(* suppliers whose attempts end by themselves.                             *)
Purchase == INSTANCE PurchaseOnce WITH
  Final <- AmazonOrders,
  phase <- [o \in Orders |->
             IF claim[o] = "none" THEN "free"
             ELSE IF reconciled[o] = "confirmed_not_sent" THEN "absent"
             ELSE "committed"],
  bought <- placed,
  acknowledged <- {o \in Orders : \/ claim[o] = "accepted"
                                  \/ reconciled[o] = "found_order"
                                  \/ o \in confirmed}

PurchasesOnce == Purchase!Spec
=============================================================================
