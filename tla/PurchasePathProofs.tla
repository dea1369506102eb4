------------------------- MODULE PurchasePathProofs -------------------------
(***************************************************************************)
(* RequisitionFlow implements PurchasePath, for any products, suppliers,   *)
(* orders, users and any number of sessions.                               *)
(*                                                                         *)
(* Only a commit changes records, but what it writes was decided earlier:  *)
(* Lawful says that what an open transaction has written is still a step   *)
(* of the path from the records as they are now.  It holds when the        *)
(* transaction writes, because a browser's handler has locked the row it   *)
(* checked (Prepared) and a guided one checks again under the table locks, *)
(* and it lasts, because the step looks at no row that anybody else may    *)
(* write meanwhile.                                                        *)
(***************************************************************************)
EXTENDS RequisitionReferencesProofs

(* What a handler has found out about the row of its request, in the       *)
(* database d.                                                             *)
Prepared(d, q) ==
  /\ q.op = "edit" => d[Requisition].status \in {"draft", "returned"} /\ ~d[Requisition].amazon
  /\ q.op = "submit" => d[Requisition].status = "draft"
  /\ q.op = "decide" => d[Requisition].status = "submitted"
  /\ q.op = "redraft" => d[q.row].status = "draft" /\ ~d[q.row].amazon
  /\ q.op = "move" =>
       /\ OrderTransition(d[q.row].status, q.value)
       /\ d[q.row].status = "draft" /\ q.value = "sent" => ~d[q.row].amazon

(* The transaction of q writes one requisition or order, changing it so.   *)
Turns(d, q, w, row) ==
  /\ DOMAIN w \cap Workflows = {q.row}
  /\ w[q.row] = row
  /\ Exists(d, q.row)

NoOrderYet(d) == \A p \in OrderIds : Exists(d, p) => d[p].requisition # Requisition

Converts(d, q, w, o) ==
  /\ ~Exists(d, o)
  /\ DOMAIN w \cap Workflows = {Requisition, o}
  /\ w[Requisition] = [d[Requisition] EXCEPT !.status = "ordered"]
  /\ w[o] = [status |-> "draft", archived |-> FALSE, requisition |-> Requisition,
             product |-> d[Requisition].product, supplier |-> q.supplier,
             amazon |-> d[Requisition].amazon]

Lawful(d, q, w) ==
  /\ q.op \in {"create", "offer", "basket"} =>
       /\ DOMAIN w \cap Workflows = {Requisition}
       /\ ~Exists(d, Requisition)
       /\ w[Requisition] \in Path!Drafts
  /\ q.op \in {"edit", "submit", "decide", "redraft", "move"} =>
       Prepared(d, q) /\ ~d[q.row].archived
  /\ q.op = "edit" =>
       Turns(d, q, w, [d[Requisition] EXCEPT !.status = "draft", !.product = q.value,
                                             !.supplier = q.supplier])
  /\ q.op = "submit" => Turns(d, q, w, [d[Requisition] EXCEPT !.status = "submitted"])
  /\ q.op = "decide" => Turns(d, q, w, [d[Requisition] EXCEPT !.status = q.value])
  /\ q.op = "redraft" =>
       Turns(d, q, w, [d[q.row] EXCEPT !.product = q.value, !.supplier = q.supplier])
  /\ q.op = "move" => Turns(d, q, w, [d[q.row] EXCEPT !.status = q.value])
  /\ q.op = "convert" =>
       /\ d[Requisition].status = "approved" /\ ~d[Requisition].archived
       /\ NoOrderYet(d)
       /\ \E o \in OrderIds : Converts(d, q, w, o)
  /\ q.op \in OrderOps =>
       \E o \in OrderIds : /\ ~Exists(d, o) /\ DOMAIN w \cap Workflows = {o}
                           /\ w[o] \in Path!NewOrders
  /\ q.op = "archive" /\ q.row \in Workflows =>
       /\ ~d[q.row].archived
       /\ Turns(d, q, w, [d[q.row] EXCEPT !.archived = TRUE])
       /\ IF q.row = Requisition
          THEN d[q.row].status \in {"draft", "returned", "rejected", "ordered"}
          ELSE d[q.row].status \in {"draft", "received", "cancelled"}
  /\ q.op = "restore" /\ q.row \in Workflows =>
       /\ d[q.row].archived
       /\ Turns(d, q, w, [d[q.row] EXCEPT !.archived = FALSE])
       /\ q.row \in OrderIds /\ d[q.row].requisition = Requisition => Alive(d, Requisition)
  /\ q.op \in {"rename", "archive", "restore"} /\ q.row \notin Workflows =>
       DOMAIN w \cap Workflows = {}

LEMMA ReadyPrepared ==
  ASSUME NEW q, Sound(q), NativeReady(q) \/ GuidedReady(q)
  PROVE  /\ Prepared(db, q)
         /\ q.op = "convert" /\ GuidedReady(q) => ConversionReady(q)
<1>1. ASSUME NativeReady(q) PROVE Prepared(db, q)
  BY <1>1, OrderOpsAre DEF NativeReady, CreateRequisition, CreateRequisitionFromOffer,
     HandleAmazonReturn, UpdateRequisition, SubmitRequisition, DecideRequisition, CreateOrder,
     UpdateOrder, UpdateOrderDraft, UpdateProduct, UpdateSupplier, SentByHand, RequisitionIs, Prepared
<1>2. ASSUME GuidedReady(q) PROVE Prepared(db, q)
  BY <1>2 DEF GuidedReady, ConversionReady, RequisitionDraftReady, RequisitionApprovalReady,
     OrderApprovalReady, OrderDraftReady, WorkflowLifecycleReady, MasterLifecycleReady, SentByHand,
     RequisitionIs, Prepared
<1>3. ASSUME GuidedReady(q), q.op = "convert" PROVE ConversionReady(q)
  BY <1>3 DEF GuidedReady, RequisitionDraftReady, RequisitionApprovalReady,
     OrderApprovalReady, OrderDraftReady, WorkflowLifecycleReady, MasterLifecycleReady
<1> QED BY <1>1, <1>2, <1>3

(* A trigger refuses changes of archived records, and archivals of those   *)
(* that still bind.                                                        *)
LEMMA LifecycleAllows ==
  ASSUME NEW q, Allowed(q), NEW r \in DOMAIN Effect(q) \cap Workflows, Exists(db, r)
  PROVE  /\ ~(Effect(q)[r].archived /\ db[r].archived)
         /\ Effect(q)[r].archived => ArchivalAllowed(db, r)
<1>1. LifecycleTrigger(db, Effect(q))
  BY DEF Allowed, TriggersAllow
<1> QED BY <1>1 DEF LifecycleTrigger, RetainedIdentity

LEMMA BeginLawful ==
  ASSUME Database, NEW q, Sound(q), Room(q), q.op \in {"create", "offer", "basket"},
         ~Creates(q) => Exists(db, q.row)
  PROVE  /\ DOMAIN Effect(q) \cap Workflows = {Requisition}
         /\ ~Exists(db, Requisition)
         /\ Effect(q)[Requisition] \in Path!Drafts
<1>1. ~Exists(db, Requisition)
  BY DEF Room, Unused
<1>2. Punchout \notin Rows /\ Punchout # Requisition /\ Punchout \notin OrderIds /\ Punchout \notin Masters
  BY RowTypes
<1>3. q.op \in {"create", "offer"} => NewRequisition(q) \in Path!Drafts
  BY DEF NewRequisition, Path!Drafts, Sound
<1>4. CASE q.op = "create"
  <2>1. Effect(q) = Requisition :> NewRequisition(q)
    BY <1>4, OrderOpsAre DEF Effect
  <2> QED BY <1>1, <1>3, <1>4, <2>1, OneRow DEF Workflows
<1>5. CASE q.op = "offer"
  <2> DEFINE p == IF Exists(db, q.value) THEN << >> ELSE q.value :> [status |-> "active"]
             n == NewRequisition(q)
  <2>1. Effect(q) = (Requisition :> n) @@ p
    BY <1>5, OrderOpsAre DEF Effect
  <2>2. DOMAIN p \subseteq Masters
    BY <1>5, RowTypes DEF Sound, :>
  <2> HIDE DEF p, n
  <2>3. DOMAIN Effect(q) = {Requisition} \cup DOMAIN p /\ Effect(q)[Requisition] = n
    BY <2>1 DEF @@, :>
  <2>4. DOMAIN Effect(q) \cap Workflows = {Requisition}
    BY <2>2, <2>3, RowTypes DEF Workflows
  <2> QED BY <1>1, <1>3, <1>5, <2>3, <2>4 DEF n
<1>6. CASE q.op = "basket"
  <2> DEFINE a == IF Exists(db, AmazonSupplier) THEN << >> ELSE AmazonSupplier :> [status |-> "active"]
             b == [status |-> "draft", archived |-> FALSE,
                   requester |-> db[Punchout].user, product |-> NoProduct,
                   supplier |-> AmazonSupplier, amazon |-> TRUE]
             c == [db[Punchout] EXCEPT !.status = "returned"]
  <2>1. Effect(q) = (Requisition :> b) @@ (Punchout :> c) @@ a
    BY <1>6, OrderOpsAre DEF Effect, Basket
  <2>2. DOMAIN a \subseteq Masters
    BY SessionsAssumption, RowTypes DEF :>
  <2>3. db[Punchout] \in PunchoutRow
    <3>1. q.row = Punchout /\ ~Creates(q)
      BY <1>6, OrderOpsAre DEF Sound, Creates
    <3> QED BY <3>1, RowTypes, RowsExist
  <2>4. b \in Path!Drafts
    BY <2>3, SessionsAssumption DEF PunchoutRow, Path!Drafts
  <2> HIDE DEF a, b, c
  <2>5. /\ DOMAIN Effect(q) = {Requisition, Punchout} \cup DOMAIN a
        /\ Effect(q)[Requisition] = b
    BY <1>2, <2>1 DEF @@, :>
  <2>6. DOMAIN Effect(q) \cap Workflows = {Requisition}
    BY <1>2, <2>2, <2>5, RowTypes DEF Workflows
  <2> QED BY <1>1, <2>4, <2>5, <2>6
<1> QED BY <1>4, <1>5, <1>6

LEMMA ConvertLawful ==
  ASSUME Database, NEW q, Sound(q), Room(q), q.op = "convert", Exists(db, Requisition)
  PROVE  \E o \in OrderIds : Converts(db, q, Effect(q), o)
<1> DEFINE b == [db[Requisition] EXCEPT !.status = "ordered"]
           c == [status |-> "draft", archived |-> FALSE, requisition |-> Requisition,
                 product |-> db[Requisition].product, supplier |-> q.supplier,
                 amazon |-> db[Requisition].amazon]
<1>1. Effect(q) = (Requisition :> b) @@ (NewOrder :> c)
  BY OrderOpsAre DEF Effect, Conversion
<1>2. NewOrder \in OrderIds /\ ~Exists(db, NewOrder) /\ Requisition # NewOrder
  BY RowTypes DEF Room, NewOrder, Unused
<1> HIDE DEF b, c
<1>3. /\ DOMAIN Effect(q) = {Requisition, NewOrder}
      /\ Effect(q)[Requisition] = b /\ Effect(q)[NewOrder] = c
  BY <1>1, <1>2 DEF @@, :>
<1>4. DOMAIN Effect(q) \cap Workflows = {Requisition, NewOrder}
  BY <1>2, <1>3 DEF Workflows
<1> QED BY <1>2, <1>3, <1>4 DEF Converts, b, c

LEMMA PlaceLawful ==
  ASSUME NEW q, Sound(q), Room(q), q.op \in OrderOps
  PROVE  \E o \in OrderIds : /\ ~Exists(db, o) /\ DOMAIN Effect(q) \cap Workflows = {o}
                             /\ Effect(q)[o] \in Path!NewOrders
<1> DEFINE row == [status |-> InitialStatus[q.op], archived |-> FALSE,
                   requisition |-> q.row, product |-> q.value,
                   supplier |-> q.supplier, amazon |-> FALSE]
<1>1. Effect(q) = NewOrder :> row
  BY OrderOpsAre DEF Effect, PlacedOrder
<1>2. NewOrder \in OrderIds /\ ~Exists(db, NewOrder)
  BY DEF Room, NewOrder, Unused
<1>3. row \in Path!NewOrders
  BY OrderOpsAre DEF Sound, Path!NewOrders
<1> HIDE DEF row
<1> QED BY <1>1, <1>2, <1>3, OneRow DEF Workflows

(* The requests that change one row of a requisition or an order.          *)
LEMMA TurnLawful ==
  ASSUME Database, NEW q, Sound(q), Allowed(q), Exists(db, q.row), Prepared(db, q), q.row \in Workflows,
         q.op \in {"edit", "submit", "decide", "redraft", "move"}
  PROVE  Lawful(db, q, Effect(q))
<1> DEFINE r == q.row
           row == CASE q.op = "edit" -> [db[r] EXCEPT !.status = "draft", !.product = q.value,
                                                      !.supplier = q.supplier]
                    [] q.op = "submit" -> [db[r] EXCEPT !.status = "submitted"]
                    [] q.op \in {"decide", "move"} -> [db[r] EXCEPT !.status = q.value]
                    [] q.op = "redraft" -> [db[r] EXCEPT !.product = q.value, !.supplier = q.supplier]
<1>1. q.op \in {"edit", "submit", "decide"} => r = Requisition
  BY DEF Sound
<1>2. Effect(q) = r :> row
  BY <1>1, OrderOpsAre DEF Effect
<1>3. db[r] \in RequisitionRow \/ db[r] \in OrderRow
  BY RowsExist, RowTypes DEF Workflows
<1>4. row.archived = db[r].archived
  BY <1>3 DEF RequisitionRow, OrderRow
<1>5. DOMAIN Effect(q) = {r} /\ Effect(q)[r] = row
  <2> HIDE DEF row
  <2> QED BY <1>2 DEF :>
<1>6. ~db[r].archived
  BY <1>4, <1>5, LifecycleAllows
<1>7. Turns(db, q, Effect(q), row)
  BY <1>5 DEF Turns
<1> QED BY <1>1, <1>6, <1>7, OrderOpsAre DEF Lawful

(* The triggers look for the requisition of an order that is restored.     *)
LEMMA RestoredRefers ==
  ASSUME NEW d, NEW w, NEW l, NEW o \in DOMAIN w \cap OrderIds, ~w[o].archived, d[o].archived
  PROVE  {w[o].supplier, w[o].requisition} \ {NoRequisition} \subseteq References(d, w, l)
BY DEF References, OrderReferences

LEMMA LifecycleLawful ==
  ASSUME Database, NEW q, Sound(q), Allowed(q), Exists(db, q.row), q.row \in Workflows,
         q.op \in {"archive", "restore"},
         q.op = "restore" => db[q.row].archived
  PROVE  Lawful(db, q, Effect(q))
<1> DEFINE r == q.row
           b == q.op = "archive"
           row == [db[r] EXCEPT !.archived = b]
<1>1. r \notin Masters
  BY RowTypes DEF Workflows
<1>2. Effect(q) = r :> row
  BY <1>1, OrderOpsAre DEF Effect, Lifecycle
<1>3. db[r] \in RequisitionRow \/ db[r] \in OrderRow
  BY RowsExist, RowTypes DEF Workflows
<1>4. /\ row.archived = b /\ row.status = db[r].status
      /\ row.supplier = db[r].supplier /\ row.requisition = db[r].requisition
  BY <1>3 DEF RequisitionRow, OrderRow
<1>5. DOMAIN Effect(q) = {r} /\ Effect(q)[r] = row
  <2> HIDE DEF row
  <2> QED BY <1>2 DEF :>
<1>6. CASE q.op = "archive"
  <2>1. ~db[r].archived /\ ArchivalAllowed(db, r)
    BY <1>4, <1>5, <1>6, LifecycleAllows
  <2>2. row = [db[r] EXCEPT !.archived = TRUE]
    BY <1>6
  <2>3. Turns(db, q, Effect(q), [db[r] EXCEPT !.archived = TRUE])
    BY <1>5, <2>2 DEF Turns
  <2> QED BY <1>6, <2>1, <2>3, OrderOpsAre DEF Lawful, ArchivalAllowed
<1>7. CASE q.op = "restore"
  <2>1. row = [db[r] EXCEPT !.archived = FALSE] /\ ~row.archived
    BY <1>4, <1>7
  <2>2. Turns(db, q, Effect(q), [db[r] EXCEPT !.archived = FALSE])
    BY <1>5, <2>1 DEF Turns
  <2>3. ASSUME r \in OrderIds, db[r].requisition = Requisition
        PROVE  Alive(db, Requisition)
    <3> DEFINE w == Effect(q)
               l == Lined(q, w)
    <3>1. r # Requisition /\ NoRequisition # Requisition
      BY <2>3, RowsAssumption
    <3> HIDE DEF row
    <3>2. Requisition \in References(db, w, l)
      <4>1. /\ r \in DOMAIN w \cap OrderIds /\ ~w[r].archived
            /\ w[r].requisition = Requisition /\ db[r].archived
        BY <1>4, <1>5, <1>7, <2>1, <2>3
      <4> HIDE DEF w, l, r
      <4>2. Requisition \in {w[r].supplier, w[r].requisition} \ {NoRequisition}
        BY <3>1, <4>1
      <4> QED BY <4>1, <4>2, RestoredRefers
    <3>3. LET now == w @@ db IN Exists(now, Requisition) /\ ~now[Requisition].archived
      BY <3>2 DEF Allowed, TriggersAllow, ReferencesTrigger
    <3>4. (w @@ db)[Requisition] = db[Requisition]
      <4>1. Requisition \in DOMAIN db /\ Requisition \notin DOMAIN w
        BY <1>5, <3>1, RowTypes DEF Database
      <4> QED BY <4>1 DEF @@
    <3> QED BY <3>3, <3>4 DEF Alive, Exists
  <2> QED BY <1>7, <2>2, <2>3, OrderOpsAre DEF Lawful
<1> QED BY <1>6, <1>7

LEMMA MasterLawful ==
  ASSUME NEW q, Sound(q), q.op \in {"rename", "archive", "restore"}, q.row \notin Workflows
  PROVE  Lawful(db, q, Effect(q))
<1>1. q.row \in Masters
  BY DEF Sound, Rows
<1>2. PICK row : Effect(q) = q.row :> row
  BY <1>1, OrderOpsAre DEF Effect, Lifecycle
<1>3. DOMAIN Effect(q) = {q.row}
  BY <1>2, OneRow
<1> QED BY <1>3, OrderOpsAre DEF Lawful

LEMMA WritesLawful ==
  ASSUME Database, NEW q, Sound(q), Room(q), Allowed(q), ~Creates(q) => Exists(db, q.row), Prepared(db, q),
         q.op = "convert" => ConversionReady(q),
         q.op = "restore" /\ q.row \in Workflows => db[q.row].archived
  PROVE  Lawful(db, q, Effect(q))
<1>1. CASE q.op \in {"create", "offer", "basket"}
  BY <1>1, BeginLawful, OrderOpsAre DEF Lawful
<1>2. CASE q.op = "convert"
  <2>1. db[Requisition].status = "approved" /\ ~db[Requisition].archived /\ NoOrderYet(db)
    BY <1>2 DEF ConversionReady, RequisitionIs, NoOrderYet
  <2>2. \E o \in OrderIds : Converts(db, q, Effect(q), o)
    BY <1>2, <2>1, ConvertLawful DEF Exists
  <2> QED BY <1>2, <2>1, <2>2, OrderOpsAre DEF Lawful
<1>3. CASE q.op \in OrderOps
  BY <1>3, PlaceLawful, OrderOpsAre DEF Lawful
<1>4. CASE q.op \in {"edit", "submit", "decide", "redraft", "move"}
  <2>1. q.row \in Workflows /\ ~Creates(q)
    BY <1>4, OrderOpsAre DEF Sound, Workflows, Creates
  <2> QED BY <1>4, <2>1, TurnLawful
<1>5. CASE q.op \in {"rename", "archive", "restore"} /\ q.row \notin Workflows
  BY <1>5, MasterLawful
<1>6. CASE q.op \in {"rename", "archive", "restore"} /\ q.row \in Workflows
  <2>1. q.op # "rename" /\ ~Creates(q)
    BY <1>6, OrderOpsAre, RowTypes DEF Sound, Workflows, Creates
  <2> QED BY <1>6, <2>1, LifecycleLawful
<1> QED BY <1>1, <1>2, <1>3, <1>4, <1>5, <1>6 DEF Sound

-----------------------------------------------------------------------------
(* The step looks at the records it changes; a conversion and a            *)
(* restoration look at others too, under the table locks.                  *)
LEMMA LawfulStays ==
  ASSUME NEW d, NEW e, NEW q, NEW w, Sound(q), Lawful(d, q, w),
         \A r \in DOMAIN w \cap Workflows : e[r] = d[r],
         q.op = "convert" \/ (q.op = "restore" /\ q.row \in Workflows)
           => \A r \in Workflows : e[r] = d[r]
  PROVE  Lawful(e, q, w)
<1>1. /\ q.op \in {"edit", "submit", "decide"} => q.row = Requisition
      /\ Requisition \in Workflows /\ OrderIds \subseteq Workflows
      /\ \A r : e[r] = d[r] => (Exists(e, r) <=> Exists(d, r))
  BY DEF Sound, Workflows, Exists
<1>2. CASE q.op \in {"create", "offer", "basket"}
  BY <1>1, <1>2, OrderOpsAre DEF Lawful
<1>3. CASE q.op \in {"edit", "submit", "decide", "redraft", "move"}
  <2>1. q.row \in DOMAIN w \cap Workflows /\ e[q.row] = d[q.row]
    BY <1>1, <1>3 DEF Lawful, Turns
  <2> QED BY <1>1, <1>3, <2>1, OrderOpsAre DEF Lawful, Turns, Prepared
<1>4. CASE q.op = "convert"
  <2>1. PICK o \in OrderIds : Converts(d, q, w, o)
    BY <1>4 DEF Lawful
  <2>2. Converts(e, q, w, o) /\ NoOrderYet(e)
    BY <1>1, <1>4, <2>1 DEF Converts, Lawful, NoOrderYet
  <2> QED BY <1>1, <1>4, <2>2, OrderOpsAre DEF Lawful
<1>5. CASE q.op \in OrderOps
  <2>1. PICK o \in OrderIds : /\ ~Exists(d, o) /\ DOMAIN w \cap Workflows = {o}
                              /\ w[o] \in Path!NewOrders
    BY <1>5 DEF Lawful
  <2>2. ~Exists(e, o)
    BY <1>1, <2>1
  <2> QED BY <1>5, <2>1, <2>2, OrderOpsAre DEF Lawful
<1>6. CASE q.op \in {"rename", "archive", "restore"} /\ q.row \notin Workflows
  BY <1>6, OrderOpsAre DEF Lawful
<1>7. CASE q.op = "archive" /\ q.row \in Workflows
  <2>1. e[q.row] = d[q.row]
    BY <1>7 DEF Lawful, Turns
  <2> QED BY <1>1, <1>7, <2>1, OrderOpsAre DEF Lawful, Turns
<1>8. CASE q.op = "restore" /\ q.row \in Workflows
  <2>1. e[q.row] = d[q.row] /\ e[Requisition] = d[Requisition]
    BY <1>1, <1>8
  <2> QED BY <1>1, <1>8, <2>1, OrderOpsAre DEF Lawful, Turns, Alive
<1>9. q.op = "rename" => q.row \notin Workflows
  BY RowTypes DEF Sound, Workflows
<1> QED BY <1>2, <1>3, <1>4, <1>5, <1>6, <1>7, <1>8, <1>9 DEF Sound

LEMMA PreparedStays ==
  ASSUME NEW d, NEW e, NEW q, Sound(q), e[q.row] = d[q.row], Prepared(d, q)
  PROVE  Prepared(e, q)
<1>1. q.op \in {"edit", "submit", "decide"} => q.row = Requisition
  BY DEF Sound
<1> QED BY <1>1 DEF Prepared

(* What a browser's handler checked still holds when it writes, and what   *)
(* it has written is still lawful when it commits.                         *)
OnPath ==
  /\ \A s \in Sessions : pc[s] = "begun" /\ ~Creates(request[s]) => Prepared(db, request[s])
  /\ \A s \in Sessions : pc[s] = "written" =>
       /\ Lawful(db, request[s], pend[s])
       /\ request[s].op = "restore" /\ request[s].row \in Workflows => TakesTableLock(request[s])

LEMMA WroteLawful ==
  ASSUME Core, Binding, OnPath, NEW s \in Sessions, Wrote(s)
  PROVE  Lawful(db, request[s], Effect(request[s]))
<1>1. Database /\ request[s] \in AllRequests /\ pc[s] \in {"begun", "locked"}
  BY DEF Core, Typed, TypeOK, Database, Wrote
<1>2. Sound(request[s]) /\ Room(request[s]) /\ Allowed(request[s])
  BY <1>1, RequestsAreSound DEF Wrote
<1>3. /\ ~Creates(request[s]) => Exists(db, request[s].row)
      /\ Prepared(db, request[s])
      /\ request[s].op = "convert" => ConversionReady(request[s])
      /\ request[s].op = "restore" /\ request[s].row \in Workflows => db[request[s].row].archived
  <2>1. CASE pc[s] = "begun"
    <3>1. /\ ~Creates(request[s]) => Exists(db, request[s].row) /\ Prepared(db, request[s])
          /\ request[s].op # "convert"
          /\ request[s].op = "restore" => request[s].row \notin Workflows
      BY <2>1 DEF Core, Typed, Checked, Binding, Verified, TakesTableLock, OnPath
    <3>2. Creates(request[s]) => Prepared(db, request[s])
      BY OrderOpsAre DEF Creates, Prepared
    <3> QED BY <3>1, <3>2
  <2>2. CASE pc[s] = "locked"
    BY <1>1, <1>2, <2>2, ReadyExists, ReadyMoves, ReadyPrepared DEF Wrote
  <2> QED BY <1>1, <2>1, <2>2
<1> QED BY <1>1, <1>2, <1>3, WritesLawful

LEMMA MovesOnPath ==
  ASSUME Core, Binding, OnPath, NEW s \in Sessions, Moves(s)
  PROVE  OnPath'
<1>1. /\ db' = db
      /\ \A t \in Sessions : t # s =>
           pc'[t] = pc[t] /\ request'[t] = request[t] /\ pend'[t] = pend[t]
      /\ Begins(s) \/ Shows(s) \/ Locks(s) \/ Wrote(s) \/ Over(s)
  BY DEF Moves, Still, Quiet
<1>2. ASSUME pc'[s] = "begun" PROVE Prepared(db, request'[s])
  <2>1. Begins(s)
    BY <1>1, <1>2 DEF Shows, Locks, Wrote, Over
  <2> QED BY <2>1, RequestsAreSound, ReadyPrepared DEF Begins
<1>3. ASSUME pc'[s] = "written"
      PROVE  /\ Lawful(db, request'[s], pend'[s])
             /\ request'[s].op = "restore" /\ request'[s].row \in Workflows
                  => TakesTableLock(request'[s])
  <2>1. Wrote(s) /\ request'[s] = request[s] /\ pend'[s] = Effect(request[s])
    BY <1>1, <1>3 DEF Begins, Shows, Locks, Wrote, Over
  <2>2. request[s].op = "restore" /\ request[s].row \in Workflows => TakesTableLock(request[s])
    BY <2>1 DEF Wrote, Binding, Verified, Core, Typed
  <2> QED BY <2>1, <2>2, WroteLawful
<1> QED BY <1>1, <1>2, <1>3 DEF OnPath, Creates, TakesTableLock

LEMMA CommitOnPath ==
  ASSUME Core, OnPath, NEW s \in Sessions, Commit(s)
  PROVE  OnPath'
<1>1. /\ pc[s] = "written" /\ pc'[s] = "idle"
      /\ \A t \in Sessions : t # s =>
           pc'[t] = pc[t] /\ request'[t] = request[t] /\ pend'[t] = pend[t]
  BY CommitIs DEF Still, Over
<1>2. ASSUME NEW t \in Sessions, t # s, pc[t] = "begun", ~Creates(request[t])
      PROVE  Prepared(db', request[t])
  BY <1>2, BegunHolds, CommitSpares, PreparedStays DEF OnPath
<1>3. ASSUME NEW t \in Sessions, t # s, pc[t] = "written"
      PROVE  Lawful(db', request[t], pend[t])
  <2>1. Sound(request[t]) /\ DOMAIN pend[t] \subseteq DOMAIN db /\ Held(t) = DOMAIN pend[t]
    BY <1>3, RequestsAreSound DEF Core, Typed, TypeOK, Held
  <2>2. \A r \in DOMAIN pend[t] : db'[r] = db[r]
    BY <1>3, <2>1, CommitSpares
  <2>3. ~HoldsTables(t)
    BY <1>1, <1>3 DEF Core, Exclusive
  <2>4. request[t].op # "convert"
    BY <1>3, <2>3 DEF HoldsTables, TakesTableLock
  <2>5. request[t].op = "restore" => request[t].row \notin Workflows
    BY <1>3, <2>3 DEF HoldsTables, OnPath
  <2>6. Lawful(db, request[t], pend[t])
    BY <1>3 DEF OnPath
  <2> QED BY <2>1, <2>2, <2>4, <2>5, <2>6, LawfulStays
<1> QED BY <1>1, <1>2, <1>3 DEF OnPath, Creates, TakesTableLock

LEMMA StartOnPath ==
  ASSUME Core, OnPath, NEW user \in Buyers, StartAmazonPunchout(user)
  PROVE  OnPath'
<1>1. /\ \A r \in Rows : db'[r] = db[r]
      /\ UNCHANGED <<pc, request, pend>>
      /\ ~Exists(db, Punchout)
  BY StartIs
<1>2. \A r \in Workflows : db'[r] = db[r]
  BY <1>1 DEF Rows
<1>3. ASSUME NEW t \in Sessions, pc[t] = "begun", ~Creates(request[t])
      PROVE  Prepared(db', request[t])
  <2>1. request[t].row \in Rows \cup {Punchout} /\ Exists(db, request[t].row) /\ Sound(request[t])
    BY <1>3, BegunHolds DEF Core, Checked
  <2>2. db'[request[t].row] = db[request[t].row]
    BY <1>1, <2>1
  <2> QED BY <1>3, <2>1, <2>2, PreparedStays DEF OnPath
<1>4. ASSUME NEW t \in Sessions, pc[t] = "written"
      PROVE  Lawful(db', request[t], pend[t])
  <2>1. Sound(request[t]) /\ Lawful(db, request[t], pend[t])
    BY <1>4, RequestsAreSound DEF Core, Typed, OnPath
  <2> QED BY <1>2, <2>1, LawfulStays
<1> QED BY <1>1, <1>3, <1>4 DEF OnPath, Creates, TakesTableLock

LEMMA InitOnPath == Init => OnPath
BY DEF Init, OnPath

LEMMA NextOnPath == IInv /\ Protected /\ OnPath /\ [Next]_vars => OnPath'
<1>1. SUFFICES ASSUME IInv, Protected, OnPath, [Next]_vars PROVE OnPath'
  OBVIOUS
<1>2. Core /\ Binding
  BY <1>1 DEF IInv, Protected
<1>3. ASSUME UNCHANGED <<db, pc, request, pend>> PROVE OnPath'
  BY <1>1, <1>3 DEF OnPath, Creates, TakesTableLock
<1> QED BY <1>1, <1>2, <1>3, StartOnPath, MovesOnPath, CommitOnPath, StepIs

LEMMA StaysOnPath == Spec => []OnPath
BY InitOnPath, NextOnPath, Invariance, Protection, PTL DEF Spec

-----------------------------------------------------------------------------
(* The records of the path.                                                *)
Orders == [o \in OrderIds |-> db[o]]

(* A commit of one changed requisition or order, as the path sees it.      *)
LEMMA TurnIs ==
  ASSUME Core, NEW s \in Sessions, Commit(s), NEW row, Turns(db, request[s], pend[s], row),
         request[s].row \in Workflows
  PROVE  /\ request[s].row = Requisition =>
              db'[Requisition] = row /\ Orders' = Orders
         /\ request[s].row \in OrderIds =>
              /\ db'[Requisition] = db[Requisition]
              /\ Orders' = [Orders EXCEPT ![request[s].row] = row]
<1> DEFINE r == request[s].row
<1>1. /\ \A x \in DOMAIN pend[s] : db'[x] = pend[s][x]
      /\ \A x \in DOMAIN db : x \notin DOMAIN pend[s] => db'[x] = db[x]
      /\ Workflows \subseteq DOMAIN db
      /\ Requisition \in Workflows /\ OrderIds \subseteq Workflows /\ Requisition \notin OrderIds
  BY CommitIs, RowTypes DEF Core, Typed, TypeOK, Workflows, Rows
<1>2. r \in DOMAIN pend[s] /\ pend[s][r] = row /\ \A x \in Workflows : x # r => x \notin DOMAIN pend[s]
  BY DEF Turns
<1>3. db'[r] = row /\ \A x \in Workflows : x # r => db'[x] = db[x]
  BY <1>1, <1>2
<1> HIDE DEF r
<1>4. r = Requisition => Orders' = Orders
  BY <1>1, <1>3 DEF Orders
<1>5. r \in OrderIds => Orders' = [Orders EXCEPT ![r] = row]
  BY <1>1, <1>3 DEF Orders
<1> QED BY <1>1, <1>3, <1>4, <1>5 DEF r

(* A commit of a new order, with or without the requisition it is of.      *)
LEMMA PlacedIs ==
  ASSUME Core, NEW s \in Sessions, Commit(s), NEW o \in OrderIds,
         DOMAIN pend[s] \cap Workflows \in {{o}, {Requisition, o}}
  PROVE  /\ Orders' = [Orders EXCEPT ![o] = pend[s][o]]
         /\ db'[Requisition] = IF Requisition \in DOMAIN pend[s] THEN pend[s][Requisition]
                               ELSE db[Requisition]
<1>1. /\ \A x \in DOMAIN pend[s] : db'[x] = pend[s][x]
      /\ \A x \in DOMAIN db : x \notin DOMAIN pend[s] => db'[x] = db[x]
      /\ Workflows \subseteq DOMAIN db
      /\ Requisition \in Workflows /\ OrderIds \subseteq Workflows /\ Requisition \notin OrderIds
  BY CommitIs, RowTypes DEF Core, Typed, TypeOK, Workflows, Rows
<1>2. db'[o] = pend[s][o] /\ \A x \in OrderIds : x # o => db'[x] = db[x]
  BY <1>1
<1> QED BY <1>1, <1>2 DEF Orders
(* A commit that touches no order.                                         *)
LEMMA OrdersStay ==
  ASSUME Core, NEW s \in Sessions, Commit(s), DOMAIN pend[s] \cap OrderIds = {}
  PROVE  /\ Orders' = Orders
         /\ db'[Requisition] = IF Requisition \in DOMAIN pend[s] THEN pend[s][Requisition]
                               ELSE db[Requisition]
<1>1. /\ \A x \in DOMAIN pend[s] : db'[x] = pend[s][x]
      /\ \A x \in DOMAIN db : x \notin DOMAIN pend[s] => db'[x] = db[x]
      /\ Requisition \in DOMAIN db /\ OrderIds \subseteq DOMAIN db
  BY CommitIs, RowTypes DEF Core, Typed, TypeOK, Workflows, Rows
<1>2. \A x \in OrderIds : db'[x] = db[x]
  BY <1>1
<1> QED BY <1>1, <1>2 DEF Orders

(* What the triggers made sure of, as the path asks for it: an order goes  *)
(* on for a live requisition, and one with open orders is not archived.    *)
LEMMA GoesOn ==
  ASSUME NEW q, NEW w, Safe(q, w), NEW o \in OrderIds \cap DOMAIN w, OpenOrder(w, o),
         w[o].requisition = Requisition, Requisition \notin DOMAIN w
  PROVE  Alive(db, Requisition)
<1>1. o \in Workflows /\ o # Requisition /\ Requisition # NoRequisition
  BY RowsAssumption DEF Workflows
<1>2. Requisition \in Needs(w, o)
  BY <1>1 DEF Needs
<1> QED BY <1>1, <1>2 DEF Safe

LEMMA NothingBinds ==
  ASSUME NEW q, NEW w, Safe(q, w), Requisition \in DOMAIN w, w[Requisition].archived,
         NEW o \in OrderIds, o \notin DOMAIN w, OpenOrder(db, o)
  PROVE  db[o].requisition # Requisition
<1>1. o \in Workflows /\ o # Requisition /\ Requisition # NoRequisition
  BY RowsAssumption DEF Workflows
<1>2. ~Alive(w, Requisition)
  BY DEF Alive
<1>3. Requisition \notin Needs(db, o)
  BY <1>1, <1>2 DEF Safe
<1> QED BY <1>1, <1>3 DEF Needs

(* One lemma per kind of request: its commit is a step of the path.        *)
Committing(s) ==
  /\ Core /\ Commit(s)
  /\ Sound(request[s]) /\ Safe(request[s], pend[s])
  /\ Lawful(db, request[s], pend[s])

LEMMA BeginStep ==
  ASSUME NEW s \in Sessions, Committing(s), request[s].op \in {"create", "offer", "basket"}
  PROVE  Path!Begin
<1>1. DOMAIN pend[s] \cap Workflows = {Requisition} /\ ~Exists(db, Requisition)
      /\ pend[s][Requisition] \in Path!Drafts
  BY DEF Committing, Lawful
<1>2. DOMAIN pend[s] \cap OrderIds = {} /\ Requisition \in DOMAIN pend[s]
  BY <1>1, RowTypes DEF Workflows
<1>3. Orders' = Orders /\ db'[Requisition] = pend[s][Requisition]
  BY <1>2, OrdersStay DEF Committing
<1> QED BY <1>1, <1>3 DEF Path!Begin, Orders, Exists

LEMMA RequisitionStep ==
  ASSUME NEW s \in Sessions, Committing(s), request[s].op \in {"edit", "submit", "decide"}
  PROVE  \/ \E p \in Products, v \in Suppliers : Path!Edit(p, v)
         \/ Path!Submit
         \/ \E decision \in {"approved", "rejected", "returned"} : Path!Decide(decision)
<1> DEFINE q == request[s]
           r == db[Requisition]
<1>1. q.row = Requisition /\ Requisition \in Workflows /\ q.supplier \in Suppliers
  BY DEF Committing, Sound, Workflows
<1>2. ~r.archived /\ Prepared(db, q)
  BY <1>1 DEF Committing, Lawful
<1>3. ASSUME NEW row, Turns(db, q, pend[s], row)
      PROVE  db'[Requisition] = row /\ Orders' = Orders
  BY <1>1, <1>3, TurnIs DEF Committing
<1>4. CASE q.op = "edit"
  <2>1. q.value \in Products
    BY <1>4 DEF Committing, Sound
  <2>2. Turns(db, q, pend[s], [r EXCEPT !.status = "draft", !.product = q.value, !.supplier = q.supplier])
    BY <1>4 DEF Committing, Lawful
  <2>3. Path!Edit(q.value, q.supplier)
    BY <1>2, <1>3, <1>4, <2>2 DEF Path!Edit, Orders, Prepared
  <2> QED BY <1>1, <2>1, <2>3
<1>5. CASE q.op = "submit"
  <2>1. Turns(db, q, pend[s], [r EXCEPT !.status = "submitted"])
    BY <1>5 DEF Committing, Lawful
  <2> QED BY <1>2, <1>3, <1>5, <2>1 DEF Path!Submit, Orders, Prepared
<1>6. CASE q.op = "decide"
  <2>1. q.value \in {"approved", "rejected", "returned"}
    BY <1>6 DEF Committing, Sound
  <2>2. Turns(db, q, pend[s], [r EXCEPT !.status = q.value])
    BY <1>6 DEF Committing, Lawful
  <2>3. Path!Decide(q.value)
    BY <1>2, <1>3, <1>6, <2>2 DEF Path!Decide, Orders, Prepared
  <2> QED BY <2>1, <2>3
<1> QED BY <1>4, <1>5, <1>6

LEMMA ConvertStep ==
  ASSUME NEW s \in Sessions, Committing(s), request[s].op = "convert"
  PROVE  \E o \in OrderIds, v \in Suppliers : Path!Convert(o, v)
<1> DEFINE q == request[s]
<1>1. /\ db[Requisition].status = "approved" /\ ~db[Requisition].archived
      /\ NoOrderYet(db) /\ q.supplier \in Suppliers
  BY DEF Committing, Lawful, Sound
<1>2. PICK o \in OrderIds : Converts(db, q, pend[s], o)
  BY DEF Committing, Lawful
<1>3. DOMAIN pend[s] \cap Workflows = {Requisition, o} /\ Requisition \in DOMAIN pend[s]
  BY <1>2 DEF Converts
<1>4. Orders' = [Orders EXCEPT ![o] = pend[s][o]] /\ db'[Requisition] = pend[s][Requisition]
  BY <1>3, PlacedIs DEF Committing
<1>5. PICK v \in Suppliers : v = q.supplier
  BY <1>1
<1>6. Path!Convert(o, v)
  BY <1>1, <1>2, <1>4, <1>5 DEF Path!Convert, Orders, Converts, NoOrderYet, Exists
<1> QED BY <1>6

LEMMA PlaceStep ==
  ASSUME NEW s \in Sessions, Committing(s), request[s].op \in OrderOps
  PROVE  \E o \in OrderIds : \E row \in Path!NewOrders : Path!Place(o, row)
<1>1. PICK o \in OrderIds : /\ ~Exists(db, o) /\ DOMAIN pend[s] \cap Workflows = {o}
                            /\ pend[s][o] \in Path!NewOrders
  BY DEF Committing, Lawful
<1>2. o \in DOMAIN pend[s] /\ Requisition \notin DOMAIN pend[s]
  BY <1>1, RowTypes DEF Workflows
<1>3. Orders' = [Orders EXCEPT ![o] = pend[s][o]] /\ db'[Requisition] = db[Requisition]
  BY <1>1, <1>2, PlacedIs DEF Committing
<1>4. OpenOrder(pend[s], o)
  BY <1>1 DEF Path!NewOrders, OpenOrder
<1>5. pend[s][o].requisition = Requisition => Alive(db, Requisition)
  BY <1>2, <1>4, GoesOn DEF Committing
<1>6. PICK row \in Path!NewOrders : row = pend[s][o]
  BY <1>1
<1>7. Path!Place(o, row)
  BY <1>1, <1>3, <1>5, <1>6 DEF Path!Place, Path!MayGoOnFor, Orders, Exists, Alive
<1> QED BY <1>7

LEMMA OrderStep ==
  ASSUME NEW s \in Sessions, Committing(s), request[s].op \in {"redraft", "move"}
  PROVE  \E o \in OrderIds :
           \/ \E p \in Products, v \in Suppliers : Path!Redraft(o, p, v)
           \/ \E status \in {"sent", "confirmed", "cancelled"} : Path!Move(o, status)
<1> DEFINE q == request[s]
<1>a. PICK o \in OrderIds, v \in Suppliers : o = q.row /\ v = q.supplier
  BY DEF Committing, Sound
<1>1. o \in Workflows /\ o = q.row
  BY <1>a DEF Workflows
<1>2. ~db[o].archived /\ Prepared(db, q)
  BY <1>1 DEF Committing, Lawful
<1>3. ASSUME NEW row, Turns(db, q, pend[s], row)
      PROVE  /\ db'[Requisition] = db[Requisition] /\ Orders' = [Orders EXCEPT ![o] = row]
             /\ o \in DOMAIN pend[s] /\ pend[s][o] = row /\ Requisition \notin DOMAIN pend[s]
             /\ Exists(db, o)
  <2>1. db'[Requisition] = db[Requisition] /\ Orders' = [Orders EXCEPT ![o] = row]
    BY <1>1, <1>3, TurnIs DEF Committing
  <2> QED BY <1>1, <1>3, <2>1, RowTypes DEF Turns, Workflows
<1>4. Exists(db, o) => db[o] \in OrderRow
  BY <1>1, RowsExist, RowTypes DEF Committing, Core, Typed, TypeOK, Database
<1>5. CASE q.op = "redraft"
  <2>1. PICK p \in Products : p = q.value
    BY <1>5 DEF Committing, Sound
  <2> DEFINE row == [db[o] EXCEPT !.product = p, !.supplier = v]
  <2>2. Turns(db, q, pend[s], row)
    BY <1>a, <1>5, <2>1 DEF Committing, Lawful
  <2>3. /\ row.status = "draft" /\ row.archived = FALSE
        /\ row.requisition = db[o].requisition
    BY <1>1, <1>2, <1>3, <1>4, <1>5, <2>2 DEF Prepared, OrderRow
  <2> HIDE DEF row
  <2>4. db[o].requisition = Requisition => Alive(db, Requisition)
    BY <1>1, <1>3, <2>2, <2>3, GoesOn DEF Committing, OpenOrder
  <2>5. Path!Redraft(o, p, v)
    <3>1. Orders' = [Orders EXCEPT ![o].product = p, ![o].supplier = v]
      BY <1>1, <1>3, <2>2 DEF Orders, row
    <3> QED BY <1>1, <1>2, <1>3, <1>5, <2>2, <2>4, <3>1
        DEF Path!Redraft, Path!MayGoOnFor, Orders, Prepared, Exists, Alive
  <2> QED BY <2>5
<1>6. CASE q.op = "move"
  <2>1. PICK status \in {"sent", "confirmed", "cancelled"} : status = q.value
    BY <1>6 DEF Committing, Sound
  <2> DEFINE row == [db[o] EXCEPT !.status = status]
  <2>2. Turns(db, q, pend[s], row)
    BY <1>a, <1>6, <2>1 DEF Committing, Lawful
  <2>3. /\ row.status = status /\ row.archived = FALSE
        /\ row.requisition = db[o].requisition
    BY <1>2, <1>3, <1>4, <2>2 DEF OrderRow
  <2> HIDE DEF row
  <2>4. status # "cancelled" /\ db[o].requisition = Requisition => Alive(db, Requisition)
    BY <1>1, <1>3, <2>1, <2>2, <2>3, GoesOn DEF Committing, OpenOrder
  <2>5. Path!TransitionAllowed(db[o].status, status)
    BY <1>a, <1>2, <1>6, <2>1 DEF Prepared, OrderTransition, Path!TransitionAllowed
  <2>6. Path!Move(o, status)
    <3>1. Orders' = [Orders EXCEPT ![o].status = status]
      BY <1>1, <1>3, <2>2 DEF Orders, row
    <3> QED BY <1>1, <1>2, <1>3, <1>6, <2>1, <2>2, <2>4, <2>5, <3>1
        DEF Path!Move, Path!MayGoOnFor, Orders, Prepared, Exists, Alive
  <2> QED BY <2>6
<1> QED BY <1>5, <1>6

LEMMA LifecycleStep ==
  ASSUME NEW s \in Sessions, Committing(s), request[s].op \in {"archive", "restore"},
         request[s].row \in Workflows
  PROVE  \/ Path!ArchiveRequisition \/ Path!RestoreRequisition
         \/ \E o \in OrderIds : Path!ArchiveOrder(o) \/ Path!RestoreOrder(o)
<1> DEFINE q == request[s]
           r == q.row
           row == IF q.op = "archive" THEN [db[r] EXCEPT !.archived = TRUE]
                  ELSE [db[r] EXCEPT !.archived = FALSE]
<1>1. Turns(db, q, pend[s], row) /\ Exists(db, r)
  BY DEF Committing, Lawful, Turns
<1>2. /\ r = Requisition => db'[Requisition] = row /\ Orders' = Orders
      /\ r \in OrderIds =>
           db'[Requisition] = db[Requisition] /\ Orders' = [Orders EXCEPT ![r] = row]
  <2> HIDE DEF row
  <2> QED BY <1>1, TurnIs DEF Committing
<1>3. CASE r = Requisition /\ q.op = "archive"
  <2>1. \A o \in OrderIds : o \notin DOMAIN pend[s] /\ o \in Workflows
    BY <1>1, <1>3, RowTypes DEF Turns, Workflows
  <2>2. Requisition \in DOMAIN pend[s] /\ pend[s][Requisition].archived
    <3>1. db[r] \in RequisitionRow
      BY <1>1, <1>3, RowsExist, RowTypes DEF Committing, Core, Typed, TypeOK, Database
    <3> QED BY <1>1, <1>3, <3>1 DEF Turns, RequisitionRow
  <2>3. \A o \in OrderIds : OpenOrder(db, o) => db[o].requisition # Requisition
    BY <2>1, <2>2, NothingBinds DEF Committing
  <2>4. /\ ~db[Requisition].archived
        /\ db[Requisition].status \in {"draft", "returned", "rejected", "ordered"}
    BY <1>3 DEF Committing, Lawful
  <2>5. Path!ArchiveRequisition
    BY <1>2, <1>3, <2>3, <2>4 DEF Path!ArchiveRequisition, Path!Binds, Orders, OpenOrder
  <2> QED BY <2>5
<1>4. CASE r = Requisition /\ q.op = "restore"
  BY <1>1, <1>2, <1>4 DEF Committing, Lawful, Path!RestoreRequisition, Orders, Exists
<1>5. CASE r \in OrderIds /\ q.op = "archive"
  <2>1. ~db[r].archived /\ db[r].status \in {"draft", "received", "cancelled"}
    BY <1>5, RowTypes DEF Committing, Lawful
  <2>2. PICK o \in OrderIds : o = r
    BY <1>5
  <2>3. Path!ArchiveOrder(o)
    BY <1>2, <1>5, <2>1, <2>2 DEF Path!ArchiveOrder, Orders
  <2> QED BY <2>3
<1>6. CASE r \in OrderIds /\ q.op = "restore"
  <2>1. db[r].archived /\ (db[r].requisition = Requisition => Alive(db, Requisition))
    BY <1>6 DEF Committing, Lawful
  <2>2. PICK o \in OrderIds : o = r
    BY <1>6
  <2>3. Path!RestoreOrder(o)
    BY <1>1, <1>2, <1>6, <2>1, <2>2 DEF Path!RestoreOrder, Path!MayGoOnFor, Orders, Exists, Alive
  <2> QED BY <2>3
<1> QED BY <1>3, <1>4, <1>5, <1>6 DEF Workflows

LEMMA CatalogStep ==
  ASSUME NEW s \in Sessions, Committing(s), request[s].op \in {"rename", "archive", "restore"},
         request[s].row \notin Workflows
  PROVE  UNCHANGED Path!pathVars
<1>1. DOMAIN pend[s] \cap Workflows = {}
  BY DEF Committing, Lawful
<1>2. DOMAIN pend[s] \cap OrderIds = {} /\ Requisition \notin DOMAIN pend[s]
  BY <1>1 DEF Workflows
<1> QED BY <1>2, OrdersStay DEF Committing, Orders, Path!pathVars

LEMMA CommitIsStep ==
  ASSUME NEW s \in Sessions, Committing(s)
  PROVE  Path!Next \/ UNCHANGED Path!pathVars
<1>1. request[s].op = "rename" => request[s].row \notin Workflows
  BY RowTypes DEF Committing, Sound, Workflows
<1>2. \/ request[s].op \in {"create", "offer", "basket"}
      \/ request[s].op \in {"edit", "submit", "decide"}
      \/ request[s].op = "convert" \/ request[s].op \in OrderOps
      \/ request[s].op \in {"redraft", "move"}
      \/ request[s].op \in {"archive", "restore"} /\ request[s].row \in Workflows
      \/ request[s].op \in {"rename", "archive", "restore"} /\ request[s].row \notin Workflows
  BY <1>1 DEF Committing, Sound
<1> QED BY <1>2, BeginStep, RequisitionStep, ConvertStep, PlaceStep, OrderStep, LifecycleStep,
           CatalogStep DEF Path!Next

(* Everything else leaves requisitions and orders as they are.             *)
LEMMA StepIsStep ==
  IInv /\ Protected /\ OnPath /\ [Next]_vars => [Path!Next]_(Path!pathVars)
<1>1. SUFFICES ASSUME IInv, Protected, OnPath, [Next]_vars
               PROVE  Path!Next \/ UNCHANGED Path!pathVars
  OBVIOUS
<1>2. Core /\ Binding
  BY <1>1 DEF IInv, Protected
<1>3. ASSUME NEW user \in Buyers, StartAmazonPunchout(user) PROVE UNCHANGED Path!pathVars
  <2>1. \A r \in Rows : db'[r] = db[r]
    BY <1>2, <1>3, StartIs
  <2> QED BY <2>1, RowTypes DEF Path!pathVars
<1>4. ASSUME NEW s \in Sessions, Moves(s) PROVE UNCHANGED Path!pathVars
  BY <1>4 DEF Moves, Quiet, Path!pathVars
<1>5. ASSUME NEW s \in Sessions, Commit(s) PROVE Path!Next \/ UNCHANGED Path!pathVars
  <2>1. Committing(s)
    BY <1>1, <1>2, <1>5, RequestsAreSound, CommitIs DEF Committing, Core, Typed, Binding, OnPath
  <2> QED BY <2>1, CommitIsStep
<1>6. ASSUME UNCHANGED <<db, pc, request, pend>> PROVE UNCHANGED Path!pathVars
  BY <1>6 DEF Path!pathVars
<1> QED BY <1>1, <1>3, <1>4, <1>5, <1>6, StepIs

LEMMA PathInit == Init => Path!Init
<1>1. SUFFICES ASSUME Init PROVE Path!Init
  OBVIOUS
<1>2. db = [r \in Rows \cup {Punchout} |->
              IF r \in Masters \ NewMasters THEN [status |-> "active"] ELSE AbsentRow]
  BY <1>1 DEF Init
<1>3. \A r \in Workflows : db[r] = AbsentRow
  <2>1. ASSUME NEW r \in Workflows PROVE r \in Rows \cup {Punchout} /\ r \notin Masters
    BY RowTypes DEF Workflows
  <2> QED BY <1>2, <2>1
<1> QED BY <1>3 DEF Path!Init, AbsentRow, Workflows

(* Any number of users and assistants drafting, deciding, converting,      *)
(* ordering and archiving at once have the effect of doing so one after    *)
(* the other: every commit is a step that a purchase may take on the       *)
(* records as they are at that moment.                                     *)
THEOREM PurchasesKeepToPath == Spec => KeepsToPath
BY PathInit, StepIsStep, Invariance, Protection, StaysOnPath, PTL
   DEF Spec, KeepsToPath, Path!Spec

=============================================================================
