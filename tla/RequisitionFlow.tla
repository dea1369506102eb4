--------------------------- MODULE RequisitionFlow ---------------------------
(***************************************************************************)
(* A requisition on its way from draft over approval to purchase orders,   *)
(* the order drafts beside it, and the archival of the products, suppliers *)
(* and workflows involved: the handlers of the UI (handler.go,             *)
(* order_draft.go, requisition_offer.go) and the guided handlers of the    *)
(* assistant (..._mcp.go, master_lifecycle.go) on one PostgreSQL database. *)
(*                                                                         *)
(* A UI handler locks the row it changes (SELECT FOR UPDATE), checks it,   *)
(* then writes; the triggers of WorkflowTriggers lock what the row refers  *)
(* to FOR SHARE.  A guided handler first shows a preview; on execution it  *)
(* locks the tables (SHARE ROW EXCLUSIVE), checks that nothing shown has   *)
(* changed, then writes.  The two orders of locking can block each other.  *)
(* One session is one HTTP request at a time; one action is what a         *)
(* transaction does between two points where it can wait.                  *)
(*                                                                         *)
(* The versions (updated_at, strictly increasing in every trigger) and the *)
(* fingerprint of a preview are equal exactly when no row shown was        *)
(* written since: "stale" records that one was.  What the lines say is     *)
(* abstracted to the product they name.  An Amazon basket comes back from   *)
(* PunchOut as a requisition without catalog products, which nobody edits. *)
(***************************************************************************)
EXTENDS WorkflowTriggers

CONSTANTS
    Sessions,       \* HTTP requests in progress at once
    Users,
    Admins,         \* users with the administrator flag
    NewMasters,     \* products and suppliers the catalog does not hold yet
    AmazonSupplier, \* the supplier with the code AMAZON-BUSINESS
    Punchout,       \* the identity of the one PunchOut session
    Requests        \* the requests each session may make (bounds the model)

Ways == {"native", "guided"}
NoRequest == [op |-> "none"]
Fixed(op, row, value, way) ==
    [op : {op}, row : row, value : value, supplier : Suppliers, way : way,
     user : Users]

(* The status the UI may give a new order, which may already be placed.    *)
InitialStatus == ("order" :> "draft") @@ ("order sent" :> "sent")
                 @@ ("order confirmed" :> "confirmed")
OrderOps == DOMAIN InitialStatus

AllRequests ==
    UNION ({ Fixed(op, {Requisition, NoRequisition}, Products, {"native"}) :
                op \in OrderOps } \cup
          { Fixed("create", {Requisition}, Products, Ways),
            Fixed("offer", {Requisition}, Products, {"native"}),
            Fixed("basket", {Punchout}, {NoProduct}, {"native"}),
            Fixed("edit", {Requisition}, Products, Ways),
            Fixed("submit", {Requisition}, {NoProduct}, Ways),
            Fixed("decide", {Requisition}, {"approved", "rejected", "returned"}, Ways),
            Fixed("convert", {Requisition}, {NoProduct}, Ways),
            Fixed("order", {NoRequisition}, Products, {"guided"}),
            Fixed("redraft", OrderIds, Products, Ways),
            Fixed("move", OrderIds, {"sent", "confirmed", "cancelled"}, Ways),
            Fixed("rename", Masters, {NoProduct}, {"native"}),
            Fixed("archive", Workflows, {NoProduct}, {"guided"}),
            Fixed("restore", Workflows, {NoProduct}, {"guided"}),
            Fixed("archive", Masters, {NoProduct}, Ways),
            Fixed("restore", Masters, {NoProduct}, Ways) })

ASSUME SessionsAssumption ==
    /\ Admins \subseteq Users
    /\ NewMasters \subseteq Masters
    /\ AmazonSupplier \in Suppliers
    /\ Punchout \notin Rows
    /\ Requests \in [Sessions -> SUBSET AllRequests]

VARIABLES
    db,       \* the committed rows
    pc,       \* where each session is
    request,  \* what it asks for
    pend,     \* what its transaction has written and not yet committed
    stale,    \* a row it locked or its preview showed was written since
    key,      \* its Idempotency-Key: fresh keys are named by their first user
    made,     \* the orders conversions have made
    expired   \* the two hours of the PunchOut session are over

vars == <<db, pc, request, pend, stale, key, made, expired>>

AbsentRow == [status |-> "absent"]
RequisitionRow ==
    [status : {"draft", "submitted", "approved", "rejected", "returned", "ordered"},
     archived : BOOLEAN, requester : Users, product : Products \cup {NoProduct},
     supplier : Suppliers, amazon : BOOLEAN]
OrderRow ==
    [status : {"draft", "sent", "confirmed", "cancelled"}, archived : BOOLEAN,
     requisition : {Requisition, NoRequisition},
     product : Products \cup {NoProduct}, supplier : Suppliers, amazon : BOOLEAN]
MasterRow == [status : {"active", "archived"}]
PunchoutRow == [status : {"started", "failed", "returned"}, user : Users]
RowOf(r) == IF r = Requisition THEN RequisitionRow
            ELSE IF r \in OrderIds THEN OrderRow
            ELSE IF r = Punchout THEN PunchoutRow ELSE MasterRow

(* Every variable has the values its name promises.                        *)
TypeOK ==
    /\ DOMAIN db = Rows \cup {Punchout}
    /\ \A r \in DOMAIN db : db[r] \in RowOf(r) \cup {AbsentRow}
    /\ pc \in [Sessions -> {"idle", "shown", "begun", "locked", "written"}]
    /\ request \in [Sessions -> AllRequests \cup {NoRequest}]
    /\ \A s \in Sessions : /\ DOMAIN pend[s] \subseteq DOMAIN db
                           /\ \A r \in DOMAIN pend[s] : pend[s][r] \in RowOf(r)
    /\ stale \in [Sessions -> BOOLEAN]
    /\ key \in [Sessions -> Sessions \cup {"old", "legacy"}]
    /\ made \subseteq OrderIds
    /\ expired \in BOOLEAN

-----------------------------------------------------------------------------
(* Rights and references.                                                  *)

Admin(q) == q.user \in Admins

RequesterOrAdmin(q) == Admin(q) \/ db[Requisition].requester = q.user

(* Approval by the assistant needs an administrator, and for a requisition *)
(* another person than its requester.                                      *)
ApprovalRights(q) ==
    /\ Admin(q)
    /\ q.op = "decide" => db[Requisition].requester # q.user

DraftRights(q) == q.op # "create" => RequesterOrAdmin(q)

ReferencesActive(product, supplier) ==
    /\ product # NoProduct => Active(db, product)
    /\ Active(db, supplier)

RequisitionIs(statuses) ==
    /\ Exists(db, Requisition)
    /\ db[Requisition].status \in statuses

OrderTransition(from, to) ==
    \/ from = to
    \/ from = "draft" /\ to \in {"sent", "cancelled"}
    \/ from = "sent" /\ to \in {"confirmed", "cancelled"}
    \/ from = "confirmed" /\ to = "cancelled"

-----------------------------------------------------------------------------
(* The checks of the UI's handlers, made after the row is locked.          *)

CreateRequisition(q) ==
    /\ q.op = "create"
    /\ ~Exists(db, Requisition)
    /\ ReferencesActive(q.value, q.supplier)

(* The products of an imported offer may be new: they are created together *)
(* with the requisition.                                                   *)
CreateRequisitionFromOffer(q) ==
    /\ q.op = "offer"
    /\ Admin(q)
    /\ ~Exists(db, Requisition)
    /\ Active(db, q.supplier)
    /\ Exists(db, q.value) => Active(db, q.value)

(* The public address Amazon sends the browser back to; the PunchOut       *)
(* session is the row locked.                                              *)
HandleAmazonReturn(q) ==
    /\ q.op = "basket"
    /\ db[Punchout].status = "started"
    /\ ~expired

UpdateRequisition(q) ==
    /\ q.op = "edit"
    /\ RequisitionIs({"draft", "returned"})
    /\ ~db[Requisition].amazon
    /\ RequesterOrAdmin(q)
    /\ ReferencesActive(q.value, q.supplier)

SubmitRequisition(q) ==
    /\ q.op = "submit"
    /\ RequisitionIs({"draft"})
    /\ RequesterOrAdmin(q)
    /\ ReferencesActive(db[Requisition].product, db[Requisition].supplier)

DecideRequisition(q) ==
    /\ q.op = "decide"
    /\ Admin(q)
    /\ RequisitionIs({"submitted"})

CreateOrder(q) ==
    /\ q.op \in OrderOps
    /\ Admin(q)
    /\ ReferencesActive(q.value, q.supplier)

(* Variant with a defect: only confirmed baskets are protected.            *)
ConfirmedByHand(q) ==
    /\ db[q.row].amazon
    /\ q.value = "confirmed"

(* A basket is sent to Amazon by the program only (SupplierSubmission).    *)
SentByHand(q) ==
    /\ db[q.row].amazon
    /\ db[q.row].status = "draft"
    /\ q.value = "sent"

UpdateOrder(q) ==
    /\ q.op = "move"
    /\ Admin(q)
    /\ Exists(db, q.row)
    /\ OrderTransition(db[q.row].status, q.value)
    /\ ~SentByHand(q)

UpdateOrderDraft(q) ==
    /\ q.op = "redraft"
    /\ Admin(q)
    /\ db[q.row].status = "draft"
    /\ ~db[q.row].amazon
    /\ ReferencesActive(q.value, q.supplier)

UpdateProduct(q) ==
    /\ q.op \in {"rename", "archive", "restore"}
    /\ q.row \in Products
    /\ Admin(q)
    /\ Exists(db, q.row)
    /\ q.op = "archive" => ~NeededMaster(db, q.row)

UpdateSupplier(q) ==
    /\ q.op \in {"rename", "archive", "restore"}
    /\ q.row \in Suppliers
    /\ Admin(q)
    /\ Exists(db, q.row)
    /\ q.op = "archive" => ~NeededMaster(db, q.row)

NativeReady(q) ==
    \/ CreateRequisition(q)
    \/ CreateRequisitionFromOffer(q)
    \/ HandleAmazonReturn(q)
    \/ UpdateRequisition(q)
    \/ SubmitRequisition(q)
    \/ DecideRequisition(q)
    \/ CreateOrder(q)
    \/ UpdateOrder(q)
    \/ UpdateOrderDraft(q)
    \/ UpdateProduct(q)
    \/ UpdateSupplier(q)

-----------------------------------------------------------------------------
(* What the guided handlers require, at the preview and again under the    *)
(* table locks at the execution.                                           *)

(* Variant with a defect: nothing looks for an order already made.         *)
ConversionReadyAgain(q) ==
    /\ q.op = "convert"
    /\ Admin(q)
    /\ RequisitionIs({"approved", "ordered"})
    /\ ~db[Requisition].archived
    /\ Active(db, q.supplier)
    /\ db[Requisition].amazon => q.supplier = AmazonSupplier
    /\ ReferencesActive(db[Requisition].product, db[Requisition].supplier)

ConversionReady(q) ==
    /\ q.op = "convert"
    /\ Admin(q)
    /\ RequisitionIs({"approved"})
    /\ ~db[Requisition].archived
    /\ Active(db, q.supplier)
    /\ db[Requisition].amazon => q.supplier = AmazonSupplier
    /\ ReferencesActive(db[Requisition].product, db[Requisition].supplier)
    /\ \A o \in OrderIds : Exists(db, o) => db[o].requisition # Requisition

RequisitionDraftReady(q) ==
    /\ q.op \in {"create", "edit", "submit"}
    /\ q.op = "create" => /\ ~Exists(db, Requisition)
                          /\ ReferencesActive(q.value, q.supplier)
    /\ q.op = "edit" =>
          /\ RequisitionIs({"draft", "returned"})
          /\ ReferencesActive(q.value, q.supplier)
          /\ \/ db[Requisition].status = "returned"
             \/ db[Requisition].product # q.value
             \/ db[Requisition].supplier # q.supplier
    /\ q.op = "submit" =>
          /\ RequisitionIs({"draft"})
          /\ ReferencesActive(db[Requisition].product, db[Requisition].supplier)
    /\ q.op # "create" => ~db[Requisition].archived /\ ~db[Requisition].amazon
    /\ DraftRights(q)

(* A decision or a status that lets the purchase go on needs everything    *)
(* the record refers to; a refusal does not.                               *)
LiveReferences(r, goesOn) ==
    goesOn => ReferencesActive(db[r].product, db[r].supplier)

RequisitionApprovalReady(q) ==
    /\ q.op = "decide"
    /\ RequisitionIs({"submitted"})
    /\ ~db[Requisition].archived
    /\ LiveReferences(Requisition, q.value = "approved")
    /\ ApprovalRights(q)

OrderApprovalReady(q) ==
    /\ q.op = "move"
    /\ Exists(db, q.row)
    /\ ~db[q.row].archived
    /\ db[q.row].status # q.value
    /\ OrderTransition(db[q.row].status, q.value)
    /\ ~SentByHand(q)
    /\ LiveReferences(q.row, q.value \in {"sent", "confirmed"})
    /\ q.value # "cancelled" /\ db[q.row].requisition = Requisition =>
          ~db[Requisition].archived
    /\ ApprovalRights(q)

OrderDraftReady(q) ==
    /\ q.op \in {"order", "redraft"}
    /\ Admin(q)
    /\ ReferencesActive(q.value, q.supplier)
    /\ q.op = "redraft" =>
          /\ db[q.row].status = "draft"
          /\ ~db[q.row].archived
          /\ ~db[q.row].amazon
          /\ db[q.row].requisition = Requisition => ~db[Requisition].archived
          /\ db[q.row].product # q.value \/ db[q.row].supplier # q.supplier

WorkflowLifecycleReady(q) ==
    /\ q.op \in {"archive", "restore"}
    /\ q.row \in Workflows
    /\ Exists(db, q.row)
    /\ IF q.row = Requisition THEN RequesterOrAdmin(q) ELSE Admin(q)
    /\ db[q.row].archived = (q.op = "restore")
    /\ q.op = "archive" => ArchivalAllowed(db, q.row)
    /\ q.op = "restore" =>
          /\ ReferencesActive(db[q.row].product, db[q.row].supplier)
          /\ q.row \in OrderIds /\ db[q.row].requisition = Requisition =>
                ~db[Requisition].archived

MasterLifecycleReady(q) ==
    /\ q.op \in {"archive", "restore"}
    /\ q.row \in Masters
    /\ Admin(q)
    /\ db[q.row].status = (IF q.op = "archive" THEN "active" ELSE "archived")
    /\ q.op = "archive" => ~NeededMaster(db, q.row)

GuidedReady(q) ==
    \/ ConversionReady(q)
    \/ RequisitionDraftReady(q)
    \/ RequisitionApprovalReady(q)
    \/ OrderApprovalReady(q)
    \/ OrderDraftReady(q)
    \/ WorkflowLifecycleReady(q)
    \/ MasterLifecycleReady(q)

-----------------------------------------------------------------------------
(* What a request writes.                                                  *)

Unused(r) == ~Exists(db, r) /\ \A t \in Sessions : r \notin DOMAIN pend[t]
NewOrder == CHOOSE o \in OrderIds : Unused(o)

NewRequisition(q) ==
    [status |-> "draft", archived |-> FALSE, requester |-> q.user,
     product |-> q.value, supplier |-> q.supplier, amazon |-> FALSE]

(* The basket becomes a draft of the user who started the session, and     *)
(* Amazon a supplier if it is not one yet.                                 *)
Basket ==
    (Requisition :> [status |-> "draft", archived |-> FALSE,
                     requester |-> db[Punchout].user, product |-> NoProduct,
                     supplier |-> AmazonSupplier, amazon |-> TRUE])
    @@ (Punchout :> [db[Punchout] EXCEPT !.status = "returned"])
    @@ IF Exists(db, AmazonSupplier) THEN << >>
       ELSE AmazonSupplier :> [status |-> "active"]

(* A conversion copies what the requisition says and makes it "ordered".   *)
Conversion(q) ==
    (Requisition :> [db[Requisition] EXCEPT !.status = "ordered"])
    @@ (NewOrder :> [status |-> "draft", archived |-> FALSE,
                     requisition |-> Requisition,
                     product |-> db[Requisition].product,
                     supplier |-> q.supplier,
                     amazon |-> db[Requisition].amazon])

(* Variant with a defect: the status of the order is not looked up.        *)
PlacedAs(q) ==
    NewOrder :> [status |-> q.op, archived |-> FALSE, requisition |-> q.row,
                 product |-> q.value, supplier |-> q.supplier, amazon |-> FALSE]

PlacedOrder(q) ==
    NewOrder :> [status |-> InitialStatus[q.op], archived |-> FALSE,
                 requisition |-> q.row, product |-> q.value,
                 supplier |-> q.supplier, amazon |-> FALSE]

Lifecycle(q) ==
    q.row :> IF q.row \in Masters
             THEN [status |-> IF q.op = "archive" THEN "archived" ELSE "active"]
             ELSE [db[q.row] EXCEPT !.archived = (q.op = "archive")]

Effect(q) ==
    CASE q.op = "create"  -> Requisition :> NewRequisition(q)
      [] q.op = "offer"   -> (Requisition :> NewRequisition(q))
                             @@ IF Exists(db, q.value) THEN << >>
                                ELSE q.value :> [status |-> "active"]
      [] q.op = "basket"  -> Basket
      [] q.op = "edit"    -> Requisition :> [db[Requisition] EXCEPT
                                 !.status = "draft", !.product = q.value,
                                 !.supplier = q.supplier]
      [] q.op = "submit"  -> Requisition :> [db[Requisition] EXCEPT !.status = "submitted"]
      [] q.op = "decide"  -> Requisition :> [db[Requisition] EXCEPT !.status = q.value]
      [] q.op = "convert" -> Conversion(q)
      [] q.op \in OrderOps -> PlacedOrder(q)
      [] q.op = "redraft" -> q.row :> [db[q.row] EXCEPT !.product = q.value,
                                                       !.supplier = q.supplier]
      [] q.op = "move"    -> q.row :> [db[q.row] EXCEPT !.status = q.value]
      [] q.op = "rename"  -> q.row :> db[q.row]
      [] q.op \in {"archive", "restore"} -> Lifecycle(q)

(* The rows whose lines it inserts or rewrites.                            *)
Lined(q, w) ==
    IF q.op \in {"create", "offer", "basket", "edit", "redraft"} \cup OrderOps
    THEN DOMAIN w \cap Workflows
    ELSE IF q.op = "convert" THEN DOMAIN w \cap OrderIds
    ELSE {}

(* A bound of the model: there is one requisition and a few orders.        *)
Room(q) ==
    /\ q.op \in {"create", "offer", "basket"} => Unused(Requisition)
    /\ q.op \in {"convert"} \cup OrderOps => \E o \in OrderIds : Unused(o)

Creates(q) == q.op \in {"create", "offer"} \cup OrderOps

Allowed(q) == LET w == Effect(q) IN TriggersAllow(db, w, Lined(q, w))

-----------------------------------------------------------------------------
(* Locks.                                                                  *)

TakesTableLock(q) == q.way = "guided" \/ q.op = "convert"

HoldsTables(s) == pc[s] \in {"locked", "written"} /\ TakesTableLock(request[s])

(* LOCK TABLE waits for every other holder and for every open writer.      *)
TablesFree(s) ==
    \A t \in Sessions \ {s} : pc[t] # "written" /\ ~HoldsTables(t)

(* Variant with a defect: the row is read without FOR UPDATE.              *)
WriteLocksOnly(s) == DOMAIN pend[s]

(* Rows locked for writing: by SELECT FOR UPDATE, then by the writes.      *)
Held(s) == IF pc[s] = "begun" /\ ~Creates(request[s]) THEN {request[s].row}
           ELSE DOMAIN pend[s]

(* Variant with a defect: the triggers read without FOR SHARE.             *)
PlainRead(s) == {}

Shared(s) == IF pc[s] = "written"
             THEN References(db, pend[s], Lined(request[s], pend[s])) \ DOMAIN pend[s]
             ELSE {}

(* s waits for t: for the tables it needs to write in, for a row it writes *)
(* or for a row its triggers lock FOR SHARE.                               *)
WaitsFor(s, t) ==
    /\ s # t
    /\ pc[s] \in {"begun", "locked"}
    /\ Room(request[s])
    /\ LET w == Effect(request[s])
       IN \/ pc[s] = "begun" /\ HoldsTables(t)
          \/ DOMAIN w \cap (Held(t) \cup Shared(t)) # {}
          \/ References(db, w, Lined(request[s], w)) \cap Held(t) # {}

Waits(s) == \E t \in Sessions : WaitsFor(s, t)

InDeadlock(s) ==
    \E C \in SUBSET Sessions :
        /\ s \in C
        /\ \A a \in C : \E b \in C : WaitsFor(a, b)

-----------------------------------------------------------------------------
(* The row a UI handler locks; the rows a preview shows, whose change makes *)
(* it outdated.                                                            *)

RefersTo(d, r) ==
    IF ~Exists(d, r) THEN {}
    ELSE {d[r].product, d[r].supplier}
         \cup (IF r \in OrderIds THEN {d[r].requisition} \ {NoRequisition} ELSE {})

ReadByUI(q) == IF Creates(q) THEN {} ELSE {q.row}

Shown(d, q) ==
    CASE q.op \in {"create", "edit"} -> {Requisition, q.value, q.supplier}
      [] q.op = "order"   -> {q.value, q.supplier}
      [] q.op = "redraft" -> {q.row, q.value, q.supplier} \cup
                             (RefersTo(d, q.row) \cap {Requisition})
      [] q.op \in {"submit", "decide", "move"} -> {q.row} \cup RefersTo(d, q.row)
      [] q.op = "convert" -> {q.row, q.supplier} \cup RefersTo(d, q.row) \cup
                             {o \in OrderIds : q.row \in RefersTo(d, o)}
      [] q.op \in {"archive", "restore"} /\ q.row \in Workflows ->
            {q.row} \cup RefersTo(d, q.row) \cup
            {o \in OrderIds : q.row \in RefersTo(d, o)}
      [] q.op \in {"archive", "restore"} /\ q.row \in Masters ->
            {q.row} \cup {o \in OrderIds : q.row \in RefersTo(d, o) /\ OpenOrder(d, o)}
            \cup (IF PendingRequisition(d) /\ q.row = d[Requisition].product
                  THEN {Requisition} ELSE {})

Context(d, q) == IF TakesTableLock(q) THEN Shown(d, q) ELSE ReadByUI(q)

Outdates(w, q) ==
    \/ DOMAIN w \cap Context(db, q) # {}
    \/ DOMAIN w \cap Context(w @@ db, q) # {}

-----------------------------------------------------------------------------
Idle(s) == pc[s] = "idle"

End(s) ==
    /\ pc' = [pc EXCEPT ![s] = "idle"]
    /\ request' = [request EXCEPT ![s] = NoRequest]
    /\ pend' = [pend EXCEPT ![s] = << >>]

Reset(s) ==
    /\ stale' = [stale EXCEPT ![s] = FALSE]
    /\ key' = [key EXCEPT ![s] = s]

Quiet == UNCHANGED <<db, made, expired>>

Init ==
    /\ db = [r \in Rows \cup {Punchout} |->
                IF r \in Masters \ NewMasters THEN [status |-> "active"]
                ELSE AbsentRow]
    /\ pc = [s \in Sessions |-> "idle"]
    /\ request = [s \in Sessions |-> NoRequest]
    /\ pend = [s \in Sessions |-> << >>]
    /\ stale = [s \in Sessions |-> FALSE]
    /\ key = [s \in Sessions |-> s]
    /\ made = {}
    /\ expired = FALSE

(* A PunchOut session is saved before Amazon is asked to open it; an error *)
(* of Amazon marks it failed.  Nobody knows its cookie meanwhile.  (There  *)
(* is one requisition: a session matters only while there is none.)        *)
Buyers == {q.user : q \in {r \in UNION {Requests[s] : s \in Sessions} : r.op = "basket"}}

StartAmazonPunchout(user) ==
    /\ ~Exists(db, Punchout)
    /\ Unused(Requisition)
    /\ \E answer \in {"started", "failed"} :
          db' = [db EXCEPT ![Punchout] = [status |-> answer, user |-> user]]
    /\ UNCHANGED <<pc, request, pend, stale, key, made, expired>>

Expire ==
    /\ db[Punchout].status = "started" /\ ~expired
    /\ Unused(Requisition)
    /\ expired' = TRUE
    /\ UNCHANGED <<db, pc, request, pend, stale, key, made>>

(* A UI request locks its row and makes its checks.                        *)
NativeBegin(s) ==
    /\ Idle(s)
    /\ \E q \in Requests[s] :
          /\ q.way = "native" /\ q.op # "convert"
          /\ NativeReady(q)
          /\ Room(q)
          /\ ~Creates(q) => \A t \in Sessions : q.row \notin Held(t) \cup Shared(t)
          /\ request' = [request EXCEPT ![s] = q]
    /\ pc' = [pc EXCEPT ![s] = "begun"]
    /\ Quiet /\ UNCHANGED <<pend, stale, key>>

Write(s) ==
    /\ Room(request[s])
    /\ ~Waits(s)
    /\ Allowed(request[s])
    /\ pend' = [pend EXCEPT ![s] = Effect(request[s])]
    /\ pc' = [pc EXCEPT ![s] = "written"]
    /\ Quiet /\ UNCHANGED <<request, stale, key>>

NativeWrite(s) == pc[s] = "begun" /\ Write(s)

(* The assistant shows what a request would do and everything it is based  *)
(* on.  Its user may come with a new key, or one whose receipt the former  *)
(* routes of the assistant saved before the guided ones existed.           *)
Preview(s) ==
    /\ Idle(s)
    /\ TablesFree(s)
    /\ \E q \in Requests[s], k \in {s, "legacy"} :
          /\ q.way = "guided"
          /\ GuidedReady(q)
          /\ Room(q)
          /\ k = "legacy" => q.op \in {"create", "edit", "submit", "decide",
                                       "move", "order", "redraft"}
          /\ k = s => \A t \in Sessions : Idle(t) \/ key[t] # s
          /\ request' = [request EXCEPT ![s] = q]
          /\ key' = [key EXCEPT ![s] = k]
    /\ pc' = [pc EXCEPT ![s] = "shown"]
    /\ Quiet /\ UNCHANGED <<pend, stale>>

(* The same execution arrives a second time.                               *)
Repeat(s, t) ==
    /\ Idle(t) /\ ~Idle(s)
    /\ request[s].way = "guided"
    /\ pc' = [pc EXCEPT ![t] = "shown"]
    /\ request' = [request EXCEPT ![t] = request[s]]
    /\ stale' = [stale EXCEPT ![t] = stale[s]]
    /\ key' = [key EXCEPT ![t] = key[s]]
    /\ Quiet /\ UNCHANGED pend

(* A key with a receipt is answered from it, or refused as belonging to    *)
(* another request; the receipts of the former routes count.               *)
LegacyApproval(s) == request[s].op \in {"decide", "move"} /\ key[s] = "legacy"
LegacyRequisitionDraft(s) ==
    request[s].op \in {"create", "edit", "submit"} /\ key[s] = "legacy"
LegacyOrderDraft(s) == request[s].op \in {"order", "redraft"} /\ key[s] = "legacy"

(* Variant with a defect: receipts of the former routes are not looked up. *)
AnsweredHere(s) == key[s] = "old"

Answered(s) ==
    \/ key[s] = "old"
    \/ LegacyApproval(s)
    \/ LegacyRequisitionDraft(s)
    \/ LegacyOrderDraft(s)

Replay(s) ==
    /\ pc[s] = "shown"
    /\ Answered(s)
    /\ End(s) /\ Reset(s)
    /\ Quiet

(* A new key is claimed, then the tables are locked.                       *)
GuidedLock(s) ==
    /\ pc[s] = "shown"
    /\ ~Answered(s)
    /\ TablesFree(s)
    /\ pc' = [pc EXCEPT ![s] = "locked"]
    /\ Quiet /\ UNCHANGED <<request, pend, stale, key>>

(* The UI's conversion takes the same table locks, without a preview.      *)
ConvertLock(s) ==
    /\ Idle(s)
    /\ TablesFree(s)
    /\ \E q \in Requests[s] :
          /\ q.way = "native" /\ q.op = "convert"
          /\ ConversionReady(q)
          /\ Room(q)
          /\ request' = [request EXCEPT ![s] = q]
    /\ pc' = [pc EXCEPT ![s] = "locked"]
    /\ Quiet /\ UNCHANGED <<pend, stale, key>>

(* Under the table locks everything is checked again, and the context      *)
(* shown must still be the current one.                                    *)
Confirmed(s) ==
    /\ pc[s] = "locked"
    /\ request[s].way = "guided"
    /\ ~stale[s]

ConvertRequisition(s) ==
    /\ pc[s] = "locked"
    /\ request[s].way = "native"
    /\ ConversionReady(request[s])
    /\ Write(s)

RequisitionOrderMCP(s) ==
    Confirmed(s) /\ ConversionReady(request[s]) /\ Write(s)

RequisitionDraftMCP(s) ==
    Confirmed(s) /\ RequisitionDraftReady(request[s]) /\ Write(s)

ApprovalMCP(s) ==
    /\ Confirmed(s)
    /\ RequisitionApprovalReady(request[s]) \/ OrderApprovalReady(request[s])
    /\ Write(s)

OrderDraftMCP(s) ==
    Confirmed(s) /\ OrderDraftReady(request[s]) /\ Write(s)

WorkflowLifecycleMCP(s) ==
    Confirmed(s) /\ WorkflowLifecycleReady(request[s]) /\ Write(s)

MasterLifecycle(s) ==
    Confirmed(s) /\ MasterLifecycleReady(request[s]) /\ Write(s)

LockedWrite(s) ==
    \/ ConvertRequisition(s)
    \/ RequisitionOrderMCP(s)
    \/ RequisitionDraftMCP(s)
    \/ ApprovalMCP(s)
    \/ OrderDraftMCP(s)
    \/ WorkflowLifecycleMCP(s)
    \/ MasterLifecycle(s)

(* A check under the lock or a trigger refuses; nothing was written.       *)
Refuse(s) ==
    /\ \/ /\ pc[s] = "locked"
          /\ ~GuidedReady(request[s]) \/ stale[s]
       \/ /\ pc[s] \in {"begun", "locked"}
          /\ ~Waits(s)
          /\ Room(request[s]) =>
                ~Allowed(request[s])
    /\ End(s) /\ Reset(s)
    /\ Quiet

(* Variant with a defect: the statement is tried again where it is.        *)
RetryStatement(s) ==
    /\ InDeadlock(s)
    /\ UNCHANGED vars

(* PostgreSQL ends a deadlock by rolling one transaction back; conversions *)
(* and guided handlers also give up a wait of five seconds.                *)
Rollback(s) ==
    /\ \/ InDeadlock(s)
       \/ pc[s] = "locked" /\ TakesTableLock(request[s]) /\ Waits(s)
    /\ End(s) /\ Reset(s)
    /\ Quiet

(* A commit outdates what others show or have read, and answers its key.   *)
Commit(s) ==
    /\ pc[s] = "written"
    /\ db' = pend[s] @@ db
    /\ made' = IF request[s].op = "convert"
               THEN made \cup (DOMAIN pend[s] \cap OrderIds) ELSE made
    /\ stale' = [t \in Sessions |->
                    /\ t # s /\ pc[t] # "idle"
                    /\ stale[t] \/ Outdates(pend[s], request[t])]
    /\ key' = [t \in Sessions |->
                  IF t = s THEN s
                  ELSE IF key[t] = key[s] /\ pc[t] # "idle" THEN "old" ELSE key[t]]
    /\ End(s)
    /\ UNCHANGED expired

Step(s) ==
    \/ NativeWrite(s) \/ GuidedLock(s) \/ LockedWrite(s)
    \/ Replay(s) \/ Refuse(s) \/ Rollback(s) \/ Commit(s)

Next ==
    \/ \E user \in Buyers : StartAmazonPunchout(user)
    \/ Expire
    \/ \E s \in Sessions :
          \/ NativeBegin(s)
          \/ Preview(s)
          \/ ConvertLock(s)
          \/ \E t \in Sessions : Repeat(s, t)
          \/ Step(s)

(* A transaction that can go on does, and PostgreSQL grants locks in the   *)
(* order of the waiting: no writer is passed over for ever.                *)
Fairness == \A s \in Sessions :
    /\ SF_vars((NativeWrite(s) \/ LockedWrite(s)) /\ pc[s] # "idle")
    /\ SF_vars(Refuse(s))
    /\ WF_vars(Rollback(s))
    /\ WF_vars(Commit(s))

Spec == Init /\ [][Next]_vars /\ Fairness

-----------------------------------------------------------------------------
(* Whatever is archived behind a user's back, an order that still binds    *)
(* the company names an active supplier and active products and belongs to *)
(* a requisition that is not archived, and a requisition on its way names  *)
(* active products: the validation is a plain read, the triggers' locks    *)
(* must close the gap until the commit.                                    *)
OpenReferencesActive ==
    /\ \A o \in OrderIds : OpenOrder(db, o) =>
          /\ ReferencesActive(db[o].product, db[o].supplier)
          /\ db[o].requisition = Requisition => ~db[Requisition].archived
    /\ PendingRequisition(db) /\ db[Requisition].product # NoProduct =>
          Active(db, db[Requisition].product)

(* Concurrent and repeated conversions make one order: the requisition is  *)
(* "ordered" exactly when there is one made from it, never two.            *)
ConvertedOnce ==
    /\ \A o, p \in made : o = p
    /\ (made # {}) <=> RequisitionIs({"ordered"})
    /\ \A o \in made : db[o].requisition = Requisition

(* One PunchOut session brings one basket, also when Amazon's page is      *)
(* posted twice or late, and nobody turns the basket into something else:  *)
(* through edits, decisions and conversion it stays with Amazon, and no    *)
(* order of it is marked as sent by hand.                                  *)
BasketIntact ==
    /\ db[Punchout].status = "returned" <=>
          Exists(db, Requisition) /\ db[Requisition].amazon
    /\ \A r \in Workflows : Exists(db, r) /\ db[r].amazon =>
          /\ db[r].supplier = AmazonSupplier
          /\ db[r].product = NoProduct
    /\ \A o \in OrderIds : Exists(db, o) /\ db[o].amazon =>
          /\ db[o].requisition = Requisition /\ db[Requisition].amazon
          /\ db[o].status \in {"draft", "cancelled"}

Commits(s) == pc[s] = "written" /\ pc'[s] = "idle"

(* A UI handler changes a row only as it found it when it made its checks, *)
(* and a guided one commits only what its user confirmed on everything the *)
(* preview showed as it still is at the commit: two decisions, an edit and *)
(* a decision, or a conversion and an archival never pass each other.      *)
ActsOnWhatItRead ==
    [][\A s \in Sessions : Commits(s) => ~stale[s]]_vars

(* A guided request is executed at most once per key, also when it arrives *)
(* twice at once or was answered by the former routes.                     *)
OncePerKey ==
    [][\A s \in Sessions :
         Commits(s) /\ request[s].way = "guided" => key[s] \in Sessions]_vars

(* Between them, all these requests do what their users would do one at a  *)
(* time: each commit is one step of the path a purchase may take, made on  *)
(* the records as they are then.  A check made before a wait, a preview or *)
(* another writer's commit never lets a step pass whose time is over, such *)
(* as an edit of what was approved meanwhile.                              *)
Path == INSTANCE PurchasePath
          WITH requisition <- db[Requisition], orders <- [o \in OrderIds |-> db[o]]

KeepsToPath == Path!Spec

(* Every transaction ends: the opposite lock orders of UI and guided       *)
(* handlers never leave two of them waiting for each other.                *)
RequestsEnd ==
    \A s \in Sessions : pc[s] \in {"begun", "locked", "written"} ~> Idle(s)
=============================================================================
