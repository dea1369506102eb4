-------------------- MODULE RequisitionReferencesProofs --------------------
(***************************************************************************)
(* Theorems about what the rows of RequisitionFlow refer to, for any       *)
(* products, suppliers, orders, users and any number of sessions.          *)
(*                                                                         *)
(* The triggers look at the database as it is when a statement runs, the   *)
(* invariant speaks of it at the commit.  What carries the one to the      *)
(* other is Safe: a transaction needs only rows it holds, rows it has      *)
(* locked FOR SHARE, or rows its own row needed before, and nobody needs   *)
(* what it archives; a commit of another transaction cannot break either.  *)
(***************************************************************************)
EXTENDS RequisitionFlowProofs

(* What an order that binds, or a requisition on its way, refers to.       *)
Needs(d, r) ==
  IF r = Requisition
  THEN IF PendingRequisition(d) THEN ProductsOf(d[r]) ELSE {}
  ELSE IF OpenOrder(d, r)
       THEN ProductsOf(d[r]) \cup ({d[r].supplier, d[r].requisition} \ {NoRequisition})
       ELSE {}
Alive(d, x) == IF x = Requisition THEN Exists(d, x) /\ ~d[x].archived ELSE Active(d, x)

(* What a transaction writes needs only what it locks or what its row      *)
(* needed before; what it archives nobody needs.                           *)
Safe(q, w) ==
  /\ \A r \in DOMAIN w \cap Workflows : \A x \in Needs(w, r) :
       /\ x \in DOMAIN w \cup References(db, w, Lined(q, w)) \cup Needs(db, r)
       /\ x \in DOMAIN w => Alive(w, x)
       /\ x \notin DOMAIN w => Alive(db, x)
  /\ \A x \in DOMAIN w : ~Alive(w, x) =>
       \A r \in Workflows : r \notin DOMAIN w => x \notin Needs(db, r)

LEMMA NeedsAre ==
  ASSUME NEW d, NEW r \in Workflows, Exists(d, r) => d[r] \in RowOf(r), NEW x \in Needs(d, r)
  PROVE  /\ x \in Masters \cup {Requisition} /\ d[r] \in RowOf(r)
         /\ \/ x \in Products /\ x = d[r].product
            \/ x \in Suppliers /\ x = d[r].supplier /\ r \in OrderIds /\ OpenOrder(d, r)
            \/ x = Requisition /\ x = d[r].requisition /\ r \in OrderIds /\ OpenOrder(d, r)
         /\ r = Requisition => PendingRequisition(d)
         /\ r # Requisition => OpenOrder(d, r)
<1>1. CASE r = Requisition
  <2>1. PendingRequisition(d) /\ x \in ProductsOf(d[r])
    BY <1>1 DEF Needs
  <2>2. Exists(d, r)
    BY <1>1, <2>1 DEF PendingRequisition, Exists
  <2>3. d[r] \in RequisitionRow
    BY <1>1, <2>2, RowTypes
  <2>4. d[r].product \in Products \cup {NoProduct}
    BY <2>3 DEF RequisitionRow
  <2> QED BY <1>1, <2>1, <2>2, <2>4, RowTypes DEF ProductsOf
<1>2. CASE r # Requisition
  <2>1. /\ OpenOrder(d, r) /\ r \in OrderIds
        /\ x \in ProductsOf(d[r]) \cup ({d[r].supplier, d[r].requisition} \ {NoRequisition})
    BY <1>2 DEF Needs, Workflows
  <2>2. Exists(d, r)
    BY <2>1 DEF OpenOrder, Exists
  <2>3. d[r] \in OrderRow
    BY <2>1, <2>2, RowTypes
  <2>4. /\ d[r].product \in Products \cup {NoProduct} /\ d[r].supplier \in Suppliers
        /\ d[r].requisition \in {Requisition, NoRequisition}
    BY <2>3 DEF OrderRow
  <2> QED BY <1>2, <2>1, <2>2, <2>4, RowTypes DEF ProductsOf
<1> QED BY <1>1, <1>2

LEMMA NeedsStay ==
  ASSUME NEW d, NEW e, NEW r, e[r] = d[r]
  PROVE  Needs(e, r) = Needs(d, r)
BY DEF Needs, PendingRequisition, OpenOrder

LEMMA AliveStays ==
  ASSUME NEW d, NEW e, NEW x, e[x] = d[x]
  PROVE  Alive(e, x) <=> Alive(d, x)
BY DEF Alive, Exists, Active

(* The triggers look at the old rows of what is written, which are locked. *)
LEMMA ReferencesStay ==
  ASSUME NEW d, NEW e, NEW w, NEW l, \A r \in DOMAIN w \cap Workflows : e[r] = d[r]
  PROVE  References(e, w, l) = References(d, w, l)
<1>1. RequisitionReferences(e, w, l) = RequisitionReferences(d, w, l)
  <2>1. CASE Requisition \in DOMAIN w
    BY <2>1 DEF RequisitionReferences, Restored, Exists, Workflows
  <2>2. CASE Requisition \notin DOMAIN w
    BY <2>2 DEF RequisitionReferences
  <2> QED BY <2>1, <2>2
<1>2. OrderReferences(e, w, l) = OrderReferences(d, w, l)
  BY DEF OrderReferences, Restored, Exists, Workflows
<1> QED BY <1>1, <1>2 DEF References

LEMMA OrderRefers ==
  ASSUME NEW d, NEW w, NEW l, NEW o \in DOMAIN w \cap OrderIds, OpenOrder(w, o)
  PROVE  /\ {w[o].supplier, w[o].requisition} \ {NoRequisition} \subseteq References(d, w, l)
         /\ o \in l \/ Restored(d, w, o) => ProductsOf(w[o]) \subseteq References(d, w, l)
BY DEF OpenOrder, References, OrderReferences

LEMMA RequisitionRefers ==
  ASSUME NEW d, NEW w, NEW l, Requisition \in DOMAIN w, ~w[Requisition].archived,
         \/ Requisition \in l
         \/ Exists(d, Requisition) /\ Restored(d, w, Requisition)
         \/ /\ Exists(d, Requisition) /\ w[Requisition].status \in {"submitted", "approved"}
            /\ w[Requisition].status # d[Requisition].status
  PROVE  ProductsOf(w[Requisition]) \subseteq References(d, w, l)
BY DEF References, RequisitionReferences

(* A request that does not write lines writes them as they are.            *)
LEMMA UnlinedWrites ==
  ASSUME Database, NEW q, Sound(q), Room(q), ~Creates(q) => Exists(db, q.row),
         NEW r \in DOMAIN Effect(q) \cap Workflows, r \notin Lined(q, Effect(q))
  PROVE  \/ q.op = "convert" /\ r = Requisition /\ Effect(q)[r].status = "ordered"
         \/ /\ q.op \in {"submit", "decide", "move", "archive", "restore"}
            /\ r = q.row /\ DOMAIN Effect(q) = {r} /\ Exists(db, r)
            /\ \E row : /\ Effect(q)[r] = row
                        /\ row.product = db[r].product /\ row.supplier = db[r].supplier
                        /\ row.requisition = db[r].requisition
                        /\ q.op \in {"archive", "restore"} =>
                             (row.archived <=> q.op = "archive") /\ row.status = db[r].status
                        /\ q.op \notin {"archive", "restore"} => row.archived = db[r].archived
                        /\ q.op = "submit" => row.status = "submitted"
                        /\ q.op \in {"decide", "move"} => row.status = q.value
<1>1. \A x \in Rows \cup {Punchout} : Exists(db, x) => db[x] \in RowOf(x)
  BY RowsExist
<1>2. q.op \notin {"create", "offer", "basket", "edit", "redraft"} \cup OrderOps
  BY DEF Lined
<1>3. CASE q.op = "convert"
  <2>1. r \notin OrderIds
    BY <1>2, <1>3 DEF Lined
  <2>2. r = Requisition
    BY <2>1 DEF Workflows
  <2>3. Exists(db, Requisition)
    BY <1>2, <1>3 DEF Sound, Creates
  <2> QED BY <1>3, <2>2, <2>3, ConversionWrites
<1>4. CASE q.op \in {"submit", "decide", "move"}
  <2>1. Exists(db, q.row) /\ q.row \in Workflows
    BY <1>2, <1>4 DEF Sound, Creates, Workflows
  <2>2. db[q.row] \in RequisitionRow \/ db[q.row] \in OrderRow
    BY <1>1, <2>1, RowTypes DEF Workflows
  <2> DEFINE v == IF q.op = "submit" THEN "submitted" ELSE q.value
             row == [db[q.row] EXCEPT !.status = v]
  <2>3. Effect(q) = q.row :> row
    BY <1>2, <1>4 DEF Effect, Sound
  <2>4. /\ row.product = db[q.row].product /\ row.supplier = db[q.row].supplier
        /\ row.requisition = db[q.row].requisition /\ row.archived = db[q.row].archived
        /\ row.status = v
    BY <2>2 DEF RequisitionRow, OrderRow
  <2> HIDE DEF row
  <2>5. DOMAIN Effect(q) = {q.row} /\ Effect(q)[q.row] = row
    BY <2>3 DEF :>
  <2> QED BY <1>4, <2>1, <2>4, <2>5
<1>5. CASE q.op = "rename"
  <2>1. q.row \in Masters /\ Effect(q) = q.row :> db[q.row]
    BY <1>5, <1>2 DEF Effect, Sound
  <2>2. DOMAIN Effect(q) = {q.row}
    BY <2>1 DEF :>
  <2> QED BY <2>1, <2>2, RowTypes DEF Workflows
<1>6. CASE q.op \in {"archive", "restore"}
  <2>1. q.row \in Rows /\ Effect(q) = Lifecycle(q) /\ Exists(db, q.row)
    BY <1>2, <1>6 DEF Effect, Sound, Creates
  <2>2. DOMAIN Effect(q) = {q.row}
    BY <2>1 DEF Lifecycle, :>
  <2>3. r = q.row /\ q.row \notin Masters
    BY <2>2, RowTypes DEF Workflows
  <2> DEFINE b == q.op = "archive"
             row == [db[q.row] EXCEPT !.archived = b]
  <2>4. Effect(q) = q.row :> row
    BY <2>1, <2>3 DEF Lifecycle
  <2>5. db[q.row] \in RequisitionRow \/ db[q.row] \in OrderRow
    BY <1>1, <2>1, <2>3, RowTypes DEF Workflows
  <2>6. b \in BOOLEAN /\ (b <=> q.op = "archive")
    OBVIOUS
  <2> HIDE DEF b
  <2>7. /\ row.product = db[q.row].product /\ row.supplier = db[q.row].supplier
        /\ row.requisition = db[q.row].requisition /\ row.status = db[q.row].status
        /\ row.archived = b
    BY <2>5 DEF RequisitionRow, OrderRow
  <2> HIDE DEF row
  <2>8. Effect(q)[q.row] = row
    BY <2>4 DEF :>
  <2> QED BY <1>6, <2>1, <2>2, <2>3, <2>6, <2>7, <2>8
<1> QED BY <1>2, <1>3, <1>4, <1>5, <1>6 DEF Sound

LiveDb == \A r \in Workflows : \A x \in Needs(db, r) : Alive(db, x)

(* What is written is checked by the triggers, or was needed before.       *)
LEMMA WriteRefers ==
  ASSUME Database, NEW q, Sound(q), Room(q), ~Creates(q) => Exists(db, q.row),
         q.op = "move" => OrderTransition(db[q.row].status, q.value),
         q.op = "restore" /\ q.row \in Workflows => db[q.row].archived,
         NEW r \in DOMAIN Effect(q) \cap Workflows, NEW x \in Needs(Effect(q), r)
  PROVE  \/ x \in References(db, Effect(q), Lined(q, Effect(q)))
         \/ x \in Needs(db, r) /\ DOMAIN Effect(q) = {r}
<1> DEFINE w == Effect(q)
           l == Lined(q, Effect(q))
<1>1. /\ r = Requisition => PendingRequisition(w) /\ x \in ProductsOf(w[r])
      /\ r # Requisition => /\ r \in OrderIds /\ OpenOrder(w, r)
                            /\ x \in ProductsOf(w[r]) \cup ({w[r].supplier, w[r].requisition} \ {NoRequisition})
  BY DEF Needs, Workflows
<1>2. CASE r \in l
  <2>1. CASE r = Requisition
    <3>1. ~w[Requisition].archived /\ Requisition \in DOMAIN w
      BY <1>1, <2>1 DEF PendingRequisition
    <3> HIDE DEF w, l
    <3>2. ProductsOf(w[Requisition]) \subseteq References(db, w, l)
      BY <1>2, <2>1, <3>1, RequisitionRefers
    <3> QED BY <1>1, <2>1, <3>2 DEF w, l
  <2>2. CASE r # Requisition
    <3>1. r \in DOMAIN w \cap OrderIds /\ OpenOrder(w, r)
      BY <1>1, <2>2
    <3> HIDE DEF w, l
    <3>2. {w[r].supplier, w[r].requisition} \ {NoRequisition} \subseteq References(db, w, l)
          /\ ProductsOf(w[r]) \subseteq References(db, w, l)
      BY <1>2, <3>1, OrderRefers
    <3> QED BY <1>1, <2>2, <3>2 DEF w, l
  <2> QED BY <2>1, <2>2
<1>3. CASE r \notin l
  <2>1. CASE q.op = "convert" /\ r = Requisition /\ w[r].status = "ordered"
    BY <1>1, <2>1 DEF PendingRequisition
  <2>2. CASE /\ q.op \in {"submit", "decide", "move", "archive", "restore"}
             /\ r = q.row /\ DOMAIN w = {r} /\ Exists(db, r)
             /\ \E row : /\ w[r] = row
                         /\ row.product = db[r].product /\ row.supplier = db[r].supplier
                         /\ row.requisition = db[r].requisition
                         /\ q.op \in {"archive", "restore"} =>
                              (row.archived <=> q.op = "archive") /\ row.status = db[r].status
                         /\ q.op \notin {"archive", "restore"} => row.archived = db[r].archived
                         /\ q.op = "submit" => row.status = "submitted"
                         /\ q.op \in {"decide", "move"} => row.status = q.value
    <3> HIDE DEF w, l
    <3>1. /\ w[r].product = db[r].product /\ w[r].supplier = db[r].supplier
          /\ w[r].requisition = db[r].requisition
          /\ q.op = "archive" => w[r].archived
          /\ q.op = "restore" => ~w[r].archived
          /\ q.op \notin {"archive", "restore"} => w[r].archived = db[r].archived
          /\ q.op = "submit" => w[r].status = "submitted"
          /\ q.op \in {"decide", "move"} => w[r].status = q.value
      BY <2>2
    <3>2. r \in DOMAIN w
      BY <2>2
    <3>3. ASSUME Restored(db, w, r) PROVE x \in References(db, w, l)
      <4>1. CASE r = Requisition
        <5>1. ProductsOf(w[Requisition]) \subseteq References(db, w, l)
          BY <2>2, <3>2, <3>3, <4>1, RequisitionRefers DEF Restored
        <5> QED BY <1>1, <4>1, <5>1
      <4>2. CASE r # Requisition
        <5>1. {w[r].supplier, w[r].requisition} \ {NoRequisition} \subseteq References(db, w, l)
              /\ ProductsOf(w[r]) \subseteq References(db, w, l)
          BY <1>1, <3>2, <3>3, <4>2, OrderRefers
        <5> QED BY <1>1, <4>2, <5>1
      <4> QED BY <4>1, <4>2
    <3>4. CASE q.op \in {"archive", "restore"}
      <4>1. q.op # "archive"
        BY <1>1, <3>1 DEF PendingRequisition, OpenOrder
      <4>2. Restored(db, w, r)
        BY <2>2, <3>1, <3>4, <4>1 DEF Restored
      <4> QED BY <3>3, <4>2 DEF w, l
    <3>5. CASE q.op \in {"submit", "decide"}
      <4>1. r = Requisition /\ PendingRequisition(w)
        BY <1>1, <2>2, <3>5 DEF Sound
      <4>2. w[r].status \in {"submitted", "approved"}
        BY <3>1, <3>5, <4>1 DEF Sound, PendingRequisition
      <4>3. CASE w[r].status # db[r].status
        <5>1. /\ Requisition \in DOMAIN w /\ ~w[Requisition].archived /\ Exists(db, Requisition)
              /\ w[Requisition].status \in {"submitted", "approved"}
              /\ w[Requisition].status # db[Requisition].status
          BY <2>2, <3>2, <4>1, <4>2, <4>3 DEF PendingRequisition
        <5>2. ProductsOf(w[Requisition]) \subseteq References(db, w, l)
          BY <5>1, RequisitionRefers
        <5> QED BY <1>1, <4>1, <5>2 DEF w, l
      <4>4. CASE w[r].status = db[r].status
        <5>1. PendingRequisition(db)
          BY <3>1, <3>5, <4>1, <4>4 DEF PendingRequisition
        <5>2. x \in Needs(db, r)
          BY <1>1, <3>1, <4>1, <5>1 DEF Needs, ProductsOf
        <5> QED BY <2>2, <5>2 DEF w
      <4> QED BY <4>3, <4>4
    <3>6. CASE q.op = "move"
      <4>1. r \in OrderIds /\ r # Requisition /\ OpenOrder(w, r)
        BY <1>1, <2>2, <3>6, RowTypes DEF Sound
      <4>2. q.value \in {"sent", "confirmed"}
        BY <3>1, <3>6, <4>1 DEF Sound, OpenOrder
      <4>3. OpenOrder(db, r)
        BY <2>2, <3>1, <3>6, <4>1, <4>2 DEF OrderTransition, OpenOrder
      <4>4. {w[r].supplier, w[r].requisition} \ {NoRequisition} \subseteq References(db, w, l)
        BY <3>2, <4>1, OrderRefers
      <4>5. x \in ProductsOf(w[r]) => x \in Needs(db, r)
        BY <3>1, <4>1, <4>3 DEF Needs, ProductsOf
      <4> QED BY <1>1, <2>2, <4>1, <4>4, <4>5 DEF w, l
    <3> QED BY <2>2, <3>4, <3>5, <3>6 DEF w, l
  <2> QED BY <1>3, <2>1, <2>2, UnlinedWrites
<1> QED BY <1>2, <1>3

LEMMA WriteSafe ==
  ASSUME Database, NEW q, Sound(q), Room(q), ~Creates(q) => Exists(db, q.row),
         q.op = "move" => OrderTransition(db[q.row].status, q.value),
         q.op = "restore" /\ q.row \in Workflows => db[q.row].archived,
         LiveDb, Allowed(q), Proper(Effect(q))
  PROVE  Safe(q, Effect(q))
<1> DEFINE w == Effect(q)
           l == Lined(q, Effect(q))
<1>1. LifecycleTrigger(db, w) /\ ReferencesTrigger(db, w, l) /\ MasterTrigger(db, w)
  BY DEF Allowed, TriggersAllow
<1>2. /\ \A r \in Rows \cup {Punchout} : Exists(db, r) => db[r] \in RowOf(r)
      /\ DOMAIN db = Rows \cup {Punchout}
  BY RowsExist DEF Database
<1>3. /\ DOMAIN w \subseteq DOMAIN db
      /\ \A x \in DOMAIN w : w[x] \in RowOf(x) /\ w[x].status # "absent"
  BY <1>2, RowsExist DEF Proper
<1>4. \A r \in Workflows : r \in Rows
  BY RowTypes DEF Workflows
<1>5. ASSUME NEW r \in DOMAIN w \cap Workflows, NEW x \in Needs(w, r)
      PROVE  /\ x \in DOMAIN w \cup References(db, w, l) \cup Needs(db, r)
             /\ x \in DOMAIN w => Alive(w, x)
             /\ x \notin DOMAIN w => Alive(db, x)
  <2>1. x \in References(db, w, l) \/ (x \in Needs(db, r) /\ DOMAIN w = {r})
    BY WriteRefers
  <2> HIDE DEF w, l
  <2>2. CASE x \in References(db, w, l)
    <3> DEFINE now == w @@ db
    <3>1. IF x = Requisition THEN Exists(now, x) /\ ~now[x].archived ELSE Active(now, x)
      BY <1>1, <2>2 DEF ReferencesTrigger
    <3>2. Alive(now, x)
      BY <3>1 DEF Alive
    <3>3. w[r] \in RowOf(r)
      BY <1>3
    <3>4. x \in Masters \cup {Requisition}
      BY <3>3, NeedsAre
    <3>5. x \in DOMAIN db
      BY <1>2, <3>4, RowTypes
    <3>6. (x \in DOMAIN w => now[x] = w[x]) /\ (x \notin DOMAIN w => now[x] = db[x])
      BY <3>5 DEF @@
    <3> HIDE DEF now
    <3> QED BY <2>2, <3>2, <3>6, AliveStays
  <2>3. CASE x \in Needs(db, r) /\ DOMAIN w = {r}
    <3>1. Alive(db, x)
      BY <2>3 DEF LiveDb
    <3>2. Exists(db, r) => db[r] \in RowOf(r)
      BY <1>2, <1>4
    <3>3. x \in Masters \cup {Requisition} /\ (x = Requisition => r \in OrderIds)
      BY <2>3, <3>2, NeedsAre, RowTypes
    <3>4. x # r
      BY <3>3, RowTypes DEF Workflows
    <3> QED BY <2>3, <3>1, <3>4
  <2> QED BY <2>1, <2>2, <2>3
<1>6. ASSUME NEW x \in DOMAIN w, ~Alive(w, x), NEW r \in Workflows, r \notin DOMAIN w, x \in Needs(db, r)
      PROVE  FALSE
  <2>1. Alive(db, x)
    BY <1>6 DEF LiveDb
  <2>2. Exists(db, r) => db[r] \in RowOf(r)
    BY <1>2, <1>4
  <2>3. /\ \/ x \in Products /\ x = db[r].product
           \/ x \in Suppliers /\ x = db[r].supplier /\ r \in OrderIds /\ OpenOrder(db, r)
           \/ x = Requisition /\ x = db[r].requisition /\ r \in OrderIds /\ OpenOrder(db, r)
        /\ r = Requisition => PendingRequisition(db)
        /\ r # Requisition => OpenOrder(db, r)
    BY <1>6, <2>2, NeedsAre
  <2> HIDE DEF w, l
  <2>4. CASE x = Requisition
    <3>1. w[x] \in RequisitionRow
      BY <1>3, <1>6, <2>4, RowTypes
    <3>2. w[x].archived /\ Exists(db, x) /\ ~db[x].archived
      BY <1>3, <1>6, <2>1, <2>4, <3>1 DEF Alive, Exists, RequisitionRow
    <3>3. ArchivalAllowed(db, x)
      BY <1>1, <1>6, <2>4, <3>2 DEF LifecycleTrigger, Workflows
    <3> QED BY <2>3, <2>4, <3>3, RowTypes DEF ArchivalAllowed
  <2>5. CASE x \in Masters
    <3>1. w[x] \in MasterRow /\ x # Requisition
      BY <1>3, <1>6, <2>5, RowTypes
    <3>2. w[x].status = "archived" /\ Exists(db, x) /\ Active(db, x)
      BY <1>6, <2>1, <2>5, <3>1 DEF Alive, Active, Exists, MasterRow
    <3>3. ~NeededMaster(db, x)
      BY <1>1, <1>6, <2>5, <3>2 DEF MasterTrigger
    <3> QED BY <2>3, <2>5, <3>3, <3>1 DEF NeededMaster, Workflows
  <2> QED BY <2>3, <2>4, <2>5, RowTypes
<1> QED BY <1>5, <1>6 DEF Safe

-----------------------------------------------------------------------------
(* What a transaction's triggers have locked FOR SHARE nobody writes, and  *)
(* what a browser's handler checked of its row still holds.                *)
SharedLocks == \A s, t \in Sessions : s # t => Shared(s) \cap Held(t) = {}
Verified ==
  \A s \in Sessions : pc[s] = "begun" =>
    /\ request[s].op = "move" => /\ OrderTransition(db[request[s].row].status, request[s].value)
                                 /\ ~SentByHand(request[s])
    /\ request[s].op \in {"edit", "redraft"} => ~db[request[s].row].amazon
    /\ request[s].op = "restore" => request[s].row \notin Workflows
Binding ==
  /\ LiveDb
  /\ \A s \in Sessions : pc[s] = "written" => Safe(request[s], pend[s])
  /\ SharedLocks
  /\ Verified

LEMMA ReadyMoves ==
  ASSUME NEW q, Sound(q), NativeReady(q) \/ GuidedReady(q)
  PROVE  /\ q.op = "move" => OrderTransition(db[q.row].status, q.value) /\ ~SentByHand(q)
         /\ q.op \in {"edit", "redraft"} => ~db[q.row].amazon
         /\ q.op = "convert" /\ GuidedReady(q) /\ db[Requisition].amazon => q.supplier = AmazonSupplier
         /\ q.op = "restore" /\ NativeReady(q) => q.row \notin Workflows
         /\ q.op = "restore" /\ GuidedReady(q) /\ q.row \in Workflows => db[q.row].archived
<1>1. ASSUME NativeReady(q)
      PROVE  /\ q.op = "move" => OrderTransition(db[q.row].status, q.value) /\ ~SentByHand(q)
             /\ q.op \in {"edit", "redraft"} => ~db[q.row].amazon
             /\ q.op = "restore" => q.row \in Masters
  BY <1>1, OrderOpsAre, RowTypes DEF NativeReady, CreateRequisition, CreateRequisitionFromOffer,
     HandleAmazonReturn, UpdateRequisition, SubmitRequisition, DecideRequisition, CreateOrder,
     UpdateOrder, UpdateOrderDraft, UpdateProduct, UpdateSupplier, Sound
<1>2. ASSUME GuidedReady(q)
      PROVE  /\ q.op = "move" => OrderTransition(db[q.row].status, q.value) /\ ~SentByHand(q)
             /\ q.op \in {"edit", "redraft"} => ~db[q.row].amazon
             /\ q.op = "convert" /\ db[Requisition].amazon => q.supplier = AmazonSupplier
  BY <1>2 DEF GuidedReady, ConversionReady, RequisitionDraftReady, RequisitionApprovalReady,
     OrderApprovalReady, OrderDraftReady, WorkflowLifecycleReady, MasterLifecycleReady, Sound
<1>3. ASSUME GuidedReady(q), q.op = "restore", q.row \in Workflows
      PROVE  db[q.row].archived
  <2>1. q.row \notin Masters
    BY <1>3, RowTypes DEF Workflows
  <2>2. WorkflowLifecycleReady(q)
    BY <1>3, <2>1 DEF GuidedReady, ConversionReady, RequisitionDraftReady, RequisitionApprovalReady,
       OrderApprovalReady, OrderDraftReady, MasterLifecycleReady
  <2> QED BY <1>3, <2>2 DEF WorkflowLifecycleReady
<1>4. \A r \in Masters : r \notin Workflows
  BY RowTypes DEF Workflows
<1> QED BY <1>1, <1>2, <1>3, <1>4

LEMMA WroteSafe ==
  ASSUME Core, Binding, NEW s \in Sessions, Wrote(s)
  PROVE  Safe(request[s], Effect(request[s]))
<1>1. Database /\ request[s] \in AllRequests /\ pc[s] \in {"begun", "locked"}
  BY DEF Core, Typed, TypeOK, Database, Wrote
<1>2. Sound(request[s]) /\ Room(request[s]) /\ Allowed(request[s]) /\ LiveDb
  BY <1>1, RequestsAreSound DEF Wrote, Binding
<1>3. /\ ~Creates(request[s]) => Exists(db, request[s].row)
      /\ request[s].op = "move" => OrderTransition(db[request[s].row].status, request[s].value)
      /\ request[s].op = "restore" /\ request[s].row \in Workflows => db[request[s].row].archived
  <2>1. CASE pc[s] = "begun"
    BY <2>1 DEF Core, Checked, Binding, Verified
  <2>2. CASE pc[s] = "locked"
    BY <1>1, <1>2, <2>2, ReadyExists, ReadyMoves DEF Wrote
  <2> QED BY <1>1, <2>1, <2>2
<1>4. Proper(Effect(request[s]))
  BY WroteEffect
<1> QED BY <1>1, <1>2, <1>3, <1>4, WriteSafe

LEMMA MovesBinding ==
  ASSUME Core, Binding, NEW s \in Sessions, Moves(s)
  PROVE  Binding'
<1>1. /\ db' = db
      /\ \A t \in Sessions : t # s =>
           pc'[t] = pc[t] /\ request'[t] = request[t] /\ pend'[t] = pend[t]
      /\ Begins(s) \/ Shows(s) \/ Locks(s) \/ Wrote(s) \/ Over(s)
  BY DEF Moves, Still, Quiet
<1>2. LiveDb'
  BY <1>1 DEF Binding, LiveDb
<1>3. ASSUME NEW t \in Sessions, pc'[t] = "written"
      PROVE  Safe(request[t], pend[t])'
  <2>1. CASE t = s
    <3>1. Wrote(s) /\ request'[s] = request[s] /\ pend'[s] = Effect(request[s])
      BY <1>1, <1>3, <2>1 DEF Begins, Shows, Locks, Wrote, Over
    <3>2. Safe(request[s], Effect(request[s]))
      BY <3>1, WroteSafe
    <3>3. Safe(request[s], pend[s])'
      BY <1>1, <3>1, <3>2 DEF Safe
    <3> QED BY <2>1, <3>3
  <2>2. CASE t # s
    BY <1>1, <1>3, <2>2 DEF Binding, Safe
  <2> QED BY <2>1, <2>2
<1>4. SharedLocks'
  <2>1. \A t \in Sessions : t # s => Held(t)' = Held(t) /\ Shared(t)' = Shared(t)
    BY <1>1 DEF Held, Shared
  <2>2. \A t \in Sessions : t # s => Shared(t) \cap Held(s)' = {}
    <3>1. CASE Begins(s)
      BY <3>1 DEF Core, Typed, Begins, Held
    <3>2. CASE Shows(s) \/ Locks(s) \/ Over(s)
      BY <3>2 DEF Core, Typed, Shows, Locks, Over, Held
    <3>3. CASE Wrote(s)
      <4>1. Held(s)' = DOMAIN Effect(request[s])
        BY <3>3 DEF Wrote, Held
      <4>2. \A t \in Sessions : t # s => DOMAIN Effect(request[s]) \cap (Held(t) \cup Shared(t)) = {}
        BY <3>3 DEF Wrote, Waits, WaitsFor
      <4> QED BY <4>1, <4>2
    <3> QED BY <1>1, <3>1, <3>2, <3>3
  <2>3. \A t \in Sessions : t # s => Shared(s)' \cap Held(t) = {}
    <3>1. CASE Wrote(s)
      <4> DEFINE w == Effect(request[s])
                 refs == References(db, w, Lined(request[s], w))
      <4>1. \A t \in Sessions : t # s => refs \cap Held(t) = {}
        BY <3>1 DEF Wrote, Waits, WaitsFor
      <4>2. Shared(s)' = refs \ DOMAIN w
        BY <1>1, <3>1 DEF Wrote, Shared
      <4> QED BY <4>1, <4>2
    <3>2. CASE ~Wrote(s)
      <4>1. pc'[s] # "written"
        BY <1>1, <3>2 DEF Begins, Shows, Locks, Over
      <4>2. Shared(s)' = {}
        BY <4>1 DEF Shared
      <4> QED BY <4>2
    <3> QED BY <3>1, <3>2
  <2> QED BY <2>1, <2>2, <2>3 DEF Binding, SharedLocks
<1>5. Verified'
  <2>1. ASSUME pc'[s] = "begun"
        PROVE  /\ request'[s].op = "move" =>
                    /\ OrderTransition(db[request'[s].row].status, request'[s].value)
                    /\ ~SentByHand(request'[s])
               /\ request'[s].op \in {"edit", "redraft"} => ~db[request'[s].row].amazon
               /\ request'[s].op = "restore" => request'[s].row \notin Workflows
    <3>1. Begins(s)
      BY <1>1, <2>1 DEF Shows, Locks, Wrote, Over
    <3>2. Sound(request'[s]) /\ NativeReady(request'[s])
      BY <3>1, RequestsAreSound DEF Begins
    <3> QED BY <3>2, ReadyMoves
  <2> QED BY <1>1, <2>1 DEF Binding, Verified, SentByHand
<1> QED BY <1>2, <1>3, <1>4, <1>5 DEF Binding

(* Two commits in a row: neither needs what the other archives.            *)
LEMMA CommitSafe ==
  ASSUME Core, Binding, NEW s \in Sessions, Commit(s), NEW t \in Sessions, t # s, pc[t] = "written"
  PROVE  Safe(request[t], pend[t])' /\ Shared(t)' = Shared(t)
<1> DEFINE u == pend[s]
           w == pend[t]
           q == request[t]
<1>1. /\ pc[s] = "written" /\ Held(s) = DOMAIN u /\ Held(t) = DOMAIN w
      /\ \A r \in DOMAIN u : db'[r] = u[r]
      /\ \A r \in DOMAIN db : r \notin DOMAIN u => db'[r] = db[r]
      /\ pc'[t] = pc[t] /\ request'[t] = request[t] /\ pend'[t] = pend[t]
  BY CommitIs DEF Still, Held
<1>2. /\ DOMAIN db = Rows \cup {Punchout} /\ DOMAIN w \subseteq DOMAIN db
      /\ \A r \in DOMAIN u : u[r] \in RowOf(r)
      /\ \A r \in DOMAIN w : w[r] \in RowOf(r)
  BY DEF Core, Typed, TypeOK
<1>3. /\ DOMAIN u \cap DOMAIN w = {}
      /\ Shared(s) \cap DOMAIN w = {} /\ Shared(t) \cap DOMAIN u = {}
      /\ Safe(request[s], u) /\ Safe(q, w)
  BY <1>1 DEF Core, RowLocks, Binding, SharedLocks
<1>4. \A r \in DOMAIN w : db'[r] = db[r]
  BY <1>1, <1>2, <1>3
<1>5. /\ Shared(s) = References(db, u, Lined(request[s], u)) \ DOMAIN u
      /\ Shared(t) = References(db, w, Lined(q, w)) \ DOMAIN w
  BY <1>1 DEF Shared
<1>6. \A r \in Workflows : Exists(db, r) => db[r] \in RowOf(r)
  BY RowsExist, RowTypes DEF Core, Typed, TypeOK, Database, Workflows
<1> HIDE DEF u, w, q
<1>7. References(db', w, Lined(q, w)) = References(db, w, Lined(q, w))
  <2>1. \A r \in DOMAIN w \cap Workflows : db'[r] = db[r]
    BY <1>4
  <2> QED BY <2>1, ReferencesStay
<1>8. Shared(t)' = Shared(t)
  BY <1>1, <1>5, <1>7 DEF Shared, w, q
<1>9. ASSUME NEW r \in DOMAIN w \cap Workflows, NEW x \in Needs(w, r)
      PROVE  /\ x \in DOMAIN w \cup References(db', w, Lined(q, w)) \cup Needs(db', r)
             /\ x \in DOMAIN w => Alive(w, x)
             /\ x \notin DOMAIN w => Alive(db', x)
  <2>1. /\ x \in DOMAIN w \cup References(db, w, Lined(q, w)) \cup Needs(db, r)
        /\ x \in DOMAIN w => Alive(w, x)
        /\ x \notin DOMAIN w => Alive(db, x)
    BY <1>3 DEF Safe
  <2>2. Needs(db', r) = Needs(db, r)
    BY <1>4, NeedsStay
  <2>3. ASSUME x \notin DOMAIN w PROVE Alive(db', x)
    <3>1. w[r] \in RowOf(r)
      BY <1>2
    <3>2. x \in DOMAIN db
      BY <1>2, <3>1, NeedsAre, RowTypes
    <3>3. CASE x \notin DOMAIN u
      <4>1. db'[x] = db[x]
        BY <1>1, <3>2, <3>3 DEF u
      <4> QED BY <2>1, <2>3, <4>1, AliveStays
    <3>4. CASE x \in DOMAIN u
      <4>1. x \in Needs(db, r)
        BY <1>3, <1>5, <2>1, <2>3, <3>4
      <4>2. r \in Workflows /\ r \notin DOMAIN u
        BY <1>3
      <4>3. Alive(u, x)
        BY <1>3, <3>4, <4>1, <4>2 DEF Safe
      <4>4. db'[x] = u[x]
        BY <1>1, <3>4 DEF u
      <4> QED BY <4>3, <4>4, AliveStays
    <3> QED BY <3>3, <3>4
  <2> QED BY <1>7, <2>1, <2>2, <2>3
<1>10. ASSUME NEW x \in DOMAIN w, ~Alive(w, x), NEW r \in Workflows, r \notin DOMAIN w
       PROVE  x \notin Needs(db', r)
  <2>1. x \notin Needs(db, r)
    BY <1>3, <1>10 DEF Safe
  <2>2. CASE r \notin DOMAIN u
    <3>1. db'[r] = db[r]
      BY <1>1, <1>2, <2>2, RowTypes DEF u, Workflows
    <3> QED BY <2>1, <3>1, NeedsStay
  <2>3. CASE r \in DOMAIN u
    <3>1. db'[r] = u[r]
      BY <1>1, <2>3 DEF u
    <3>2. Needs(db', r) = Needs(u, r)
      BY <3>1, NeedsStay
    <3>3. x \notin DOMAIN u /\ x \notin References(db, u, Lined(request[s], u))
      BY <1>3, <1>5, <1>10
    <3> QED BY <1>3, <1>10, <2>1, <2>3, <3>2, <3>3 DEF Safe
  <2> QED BY <2>2, <2>3
<1>11. Safe(request[t], pend[t])'
  BY <1>1, <1>9, <1>10 DEF Safe, w, q
<1> QED BY <1>8, <1>11

LEMMA CommitLive ==
  ASSUME Core, Binding, NEW s \in Sessions, Commit(s)
  PROVE  LiveDb'
<1> DEFINE u == pend[s]
<1>1. /\ pc[s] = "written"
      /\ \A r \in DOMAIN u : db'[r] = u[r]
      /\ \A r \in DOMAIN db : r \notin DOMAIN u => db'[r] = db[r]
  BY CommitIs
<1>2. /\ DOMAIN db = Rows \cup {Punchout}
      /\ \A r \in DOMAIN u : u[r] \in RowOf(r)
  BY DEF Core, Typed, TypeOK
<1>3. Safe(request[s], u) /\ LiveDb
  BY <1>1 DEF Binding
<1>4. \A r \in Workflows : Exists(db, r) => db[r] \in RowOf(r)
  BY RowsExist, RowTypes DEF Core, Typed, TypeOK, Database, Workflows
<1> HIDE DEF u
<1>5. ASSUME NEW r \in Workflows, NEW x \in Needs(db', r)
      PROVE  Alive(db', x)
  <2>1. CASE r \in DOMAIN u
    <3>1. db'[r] = u[r]
      BY <1>1, <2>1
    <3>2. x \in Needs(u, r)
      BY <3>1, NeedsStay
    <3>3. u[r] \in RowOf(r)
      BY <1>2, <2>1
    <3>4. x \in DOMAIN db
      BY <1>2, <3>2, <3>3, NeedsAre, RowTypes
    <3>5. (x \in DOMAIN u => Alive(u, x)) /\ (x \notin DOMAIN u => Alive(db, x))
      BY <1>3, <2>1, <3>2 DEF Safe
    <3> QED BY <1>1, <3>4, <3>5, AliveStays
  <2>2. CASE r \notin DOMAIN u
    <3>1. db'[r] = db[r]
      BY <1>1, <1>2, <2>2, RowTypes DEF Workflows
    <3>2. x \in Needs(db, r)
      BY <3>1, NeedsStay
    <3>3. x \in DOMAIN db
      BY <1>2, <1>4, <3>2, NeedsAre, RowTypes
    <3>4. Alive(db, x) /\ (x \in DOMAIN u => Alive(u, x))
      BY <1>3, <2>2, <3>2 DEF LiveDb, Safe
    <3> QED BY <1>1, <3>3, <3>4, AliveStays
  <2> QED BY <2>1, <2>2
<1> QED BY <1>5 DEF LiveDb

LEMMA CommitBinding ==
  ASSUME Core, Binding, NEW s \in Sessions, Commit(s)
  PROVE  Binding'
<1>1. /\ pc'[s] = "idle" /\ DOMAIN pend'[s] = {}
      /\ \A t \in Sessions : t # s =>
           pc'[t] = pc[t] /\ request'[t] = request[t] /\ pend'[t] = pend[t]
  BY CommitIs DEF Still, Over
<1>2. \A t \in Sessions : pc'[t] = "written" => t # s /\ pc[t] = "written"
  BY <1>1
<1>3. \A t \in Sessions : pc'[t] = "written" => Safe(request[t], pend[t])'
  BY <1>2, CommitSafe
<1>4. SharedLocks'
  <2>1. Held(s)' = {} /\ Shared(s)' = {}
    BY <1>1 DEF Held, Shared
  <2>2. ASSUME NEW t \in Sessions, t # s PROVE Held(t)' = Held(t)
    BY <1>1, <2>2 DEF Held
  <2>3. ASSUME NEW t \in Sessions, t # s PROVE Shared(t)' = Shared(t)
    <3>1. CASE pc[t] = "written"
      BY <2>3, <3>1, CommitSafe
    <3>2. CASE pc[t] # "written"
      BY <1>1, <2>3, <3>2 DEF Shared
    <3> QED BY <3>1, <3>2
  <2> QED BY <2>1, <2>2, <2>3 DEF Binding, SharedLocks
<1>5. Verified'
  <2>1. SUFFICES ASSUME NEW t \in Sessions, pc'[t] = "begun"
                 PROVE  /\ request'[t].op = "move" =>
                             /\ OrderTransition(db'[request'[t].row].status, request'[t].value)
                             /\ ~SentByHand(request[t])'
                        /\ request'[t].op \in {"edit", "redraft"} => ~db'[request'[t].row].amazon
                        /\ request'[t].op = "restore" => request'[t].row \notin Workflows
    BY DEF Verified
  <2>2. t # s /\ pc[t] = "begun" /\ request'[t] = request[t]
    BY <1>1, <2>1
  <2>3. request[t].op \in {"move", "edit", "redraft"} => db'[request[t].row] = db[request[t].row]
    <3>1. request[t].op \in {"move", "edit", "redraft"} => ~Creates(request[t])
      BY OrderOpsAre DEF Creates
    <3> QED BY <2>2, <3>1, BegunHolds, CommitSpares
  <2> QED BY <2>2, <2>3 DEF Binding, Verified, SentByHand
<1> QED BY <1>3, <1>4, <1>5, CommitLive DEF Binding

LEMMA StartBinding ==
  ASSUME Core, Binding, NEW user \in Buyers, StartAmazonPunchout(user)
  PROVE  Binding'
<1>1. /\ \A r \in Rows : db'[r] = db[r]
      /\ UNCHANGED <<pc, request, pend, stale, key, made, expired>>
      /\ ~Exists(db, Punchout)
  BY StartIs
<1>2. \A r \in Workflows : r \in Rows /\ db'[r] = db[r] /\ Needs(db', r) = Needs(db, r)
  BY <1>1, RowTypes, NeedsStay DEF Workflows
<1>3. \A r \in Workflows : Exists(db, r) => db[r] \in RowOf(r)
  BY <1>2, RowsExist DEF Core, Typed, TypeOK, Database
<1>4. ASSUME NEW x \in Rows PROVE Alive(db', x) <=> Alive(db, x)
  BY <1>1, AliveStays
<1>5. LiveDb'
  <2>1. ASSUME NEW r \in Workflows, NEW x \in Needs(db, r) PROVE x \in Rows /\ Alive(db, x)
    BY <1>3, NeedsAre, RowTypes DEF Binding, LiveDb
  <2> QED BY <1>2, <1>4, <2>1 DEF LiveDb
<1>6. ASSUME NEW w, NEW l PROVE References(db', w, l) = References(db, w, l)
  BY <1>2, ReferencesStay
<1>7. ASSUME NEW t \in Sessions, pc[t] = "written" PROVE Safe(request[t], pend[t])'
  <2> DEFINE w == pend[t]
             q == request[t]
  <2>1. Safe(q, w) /\ \A r \in DOMAIN w : w[r] \in RowOf(r)
    BY <1>7 DEF Binding, Core, Typed, TypeOK
  <2> HIDE DEF w, q
  <2>2. ASSUME NEW r \in DOMAIN w \cap Workflows, NEW x \in Needs(w, r) PROVE x \in Rows
    BY <2>1, NeedsAre, RowTypes
  <2>3. /\ \A r \in DOMAIN w \cap Workflows : \A x \in Needs(w, r) :
             /\ x \in DOMAIN w \cup References(db', w, Lined(q, w)) \cup Needs(db', r)
             /\ x \in DOMAIN w => Alive(w, x)
             /\ x \notin DOMAIN w => Alive(db', x)
        /\ \A x \in DOMAIN w : ~Alive(w, x) =>
             \A r \in Workflows : r \notin DOMAIN w => x \notin Needs(db', r)
    BY <1>2, <1>4, <1>6, <2>1, <2>2 DEF Safe
  <2> QED BY <1>1, <2>3 DEF Safe, w, q
<1>8. SharedLocks'
  <2>1. \A t \in Sessions : Held(t)' = Held(t)
    BY <1>1 DEF Held
  <2>2. ASSUME NEW t \in Sessions PROVE Shared(t)' = Shared(t)
    <3>1. References(db', pend[t], Lined(request[t], pend[t])) = References(db, pend[t], Lined(request[t], pend[t]))
      BY <1>6
    <3> QED BY <1>1, <3>1 DEF Shared
  <2> QED BY <2>1, <2>2 DEF Binding, SharedLocks
<1>9. Verified'
  <2>1. ASSUME NEW t \in Sessions, pc[t] = "begun", request[t].op \in {"move", "edit", "redraft"}
        PROVE  db'[request[t].row] = db[request[t].row]
    <3>1. ~Creates(request[t])
      BY <2>1, OrderOpsAre DEF Creates
    <3>2. request[t].row \in Rows
      BY <1>1, <2>1, <3>1, BegunHolds DEF Core, Checked
    <3> QED BY <1>1, <3>2
  <2> QED BY <1>1, <2>1 DEF Binding, Verified, SentByHand
<1> QED BY <1>1, <1>5, <1>7, <1>8, <1>9 DEF Binding

-----------------------------------------------------------------------------
(* What a transaction writes leaves the basket what it is.                 *)
KeepsBasket(q, w) ==
  /\ q.op = "basket" =>
       /\ Requisition \in DOMAIN w /\ w[Requisition].amazon
       /\ Punchout \in DOMAIN w /\ w[Punchout].status = "returned"
  /\ q.op # "basket" =>
       /\ Punchout \notin DOMAIN w
       /\ Requisition \in DOMAIN w =>
            (w[Requisition].amazon <=> Exists(db, Requisition) /\ db[Requisition].amazon)
  /\ \A r \in DOMAIN w \cap Workflows : w[r].amazon =>
       w[r].supplier = AmazonSupplier /\ w[r].product = NoProduct
  /\ \A o \in DOMAIN w \cap OrderIds : w[o].amazon =>
       /\ w[o].requisition = Requisition
       /\ Exists(db, Requisition) /\ db[Requisition].amazon
       /\ w[o].status \in {"draft", "cancelled"}

(* An order of a basket has a requisition.                                 *)
BasketExists ==
  \A o \in OrderIds : Exists(db, o) /\ db[o].amazon => Exists(db, Requisition)

(* A request that changes one requisition or order, and its basket not.    *)
LEMMA OneWorkflow ==
  ASSUME Database, BasketIntact, BasketExists, NEW q, NEW w, q.op # "basket",
         NEW r \in Workflows, Exists(db, r), NEW row, w = r :> row,
         row.amazon = db[r].amazon,
         db[r].amazon => /\ row.supplier = db[r].supplier /\ row.product = db[r].product
                         /\ row.requisition = db[r].requisition
                         /\ r \in OrderIds => row.status \in {"draft", "cancelled"}
  PROVE  KeepsBasket(q, w)
<1>1. DOMAIN w = {r} /\ w[r] = row
  BY DEF :>
<1>2. r # Punchout
  BY RowTypes DEF Workflows
<1> QED BY <1>1, <1>2, RowTypes DEF KeepsBasket, BasketIntact, BasketExists

LEMMA WritesKeepBasket ==
  ASSUME Database, BasketIntact, BasketExists, NEW q, Sound(q), Room(q),
         ~Creates(q) => Exists(db, q.row),
         q.op = "move" => OrderTransition(db[q.row].status, q.value) /\ ~SentByHand(q),
         q.op \in {"edit", "redraft"} => ~db[q.row].amazon,
         q.op = "convert" /\ db[Requisition].amazon => q.supplier = AmazonSupplier
  PROVE  KeepsBasket(q, Effect(q))
<1>1. \A r \in Rows \cup {Punchout} : Exists(db, r) => db[r] \in RowOf(r)
  BY RowsExist
<1>2. Punchout \notin Rows /\ Punchout # Requisition /\ Punchout \notin OrderIds /\ Punchout \notin Masters
  BY RowTypes
<1>3. CASE q.op = "create"
  <2>1. Effect(q) = Requisition :> NewRequisition(q)
    BY <1>3, OrderOpsAre DEF Effect
  <2>2. NewRequisition(q).amazon = FALSE
    BY DEF NewRequisition
  <2>3. DOMAIN Effect(q) = {Requisition} /\ Effect(q)[Requisition].amazon = FALSE
    BY <2>1, <2>2 DEF :>
  <2> QED BY <1>2, <1>3, <2>3, RowTypes DEF KeepsBasket, Room, Unused
<1>4. CASE q.op = "offer"
  <2> DEFINE p == IF Exists(db, q.value) THEN << >> ELSE q.value :> [status |-> "active"]
             n == NewRequisition(q)
  <2>1. Effect(q) = (Requisition :> n) @@ p
    BY <1>4, OrderOpsAre DEF Effect
  <2>2. q.value \in Masters
    BY <1>4, RowTypes DEF Sound
  <2>3. DOMAIN p \subseteq Masters
    BY <2>2 DEF :>
  <2>4. n.amazon = FALSE
    BY DEF NewRequisition
  <2> HIDE DEF p, n
  <2>5. DOMAIN Effect(q) = {Requisition} \cup DOMAIN p /\ Effect(q)[Requisition].amazon = FALSE
    BY <2>1, <2>4 DEF @@, :>
  <2>6. DOMAIN Effect(q) \cap Workflows = {Requisition} /\ DOMAIN Effect(q) \cap OrderIds = {}
    BY <2>3, <2>5, RowTypes DEF Workflows
  <2> QED BY <1>2, <1>4, <2>3, <2>5, <2>6 DEF KeepsBasket, Room, Unused
<1>5. CASE q.op = "basket"
  <2> DEFINE a == IF Exists(db, AmazonSupplier) THEN << >> ELSE AmazonSupplier :> [status |-> "active"]
             b == [status |-> "draft", archived |-> FALSE,
                   requester |-> db[Punchout].user, product |-> NoProduct,
                   supplier |-> AmazonSupplier, amazon |-> TRUE]
             c == [db[Punchout] EXCEPT !.status = "returned"]
  <2>1. Effect(q) = (Requisition :> b) @@ (Punchout :> c) @@ a
    BY <1>5, OrderOpsAre DEF Effect, Basket
  <2>2. AmazonSupplier \in Masters
    BY SessionsAssumption, RowTypes
  <2>3. DOMAIN a \subseteq Masters
    BY <2>2 DEF :>
  <2>4. db[Punchout] \in PunchoutRow
    <3>1. q.row = Punchout /\ ~Creates(q)
      BY <1>5, OrderOpsAre DEF Sound, Creates
    <3> QED BY <1>1, <3>1, RowTypes
  <2>5. b.amazon = TRUE /\ b.supplier = AmazonSupplier /\ b.product = NoProduct /\ c.status = "returned"
    BY <2>4 DEF PunchoutRow
  <2> HIDE DEF a, b, c
  <2>6. /\ DOMAIN Effect(q) = {Requisition, Punchout} \cup DOMAIN a
        /\ Effect(q)[Requisition] = b /\ Effect(q)[Punchout] = c
    BY <1>2, <2>1 DEF @@, :>
  <2>7. DOMAIN Effect(q) \cap Workflows = {Requisition} /\ DOMAIN Effect(q) \cap OrderIds = {}
    BY <1>2, <2>3, <2>6, RowTypes DEF Workflows
  <2> QED BY <1>5, <2>5, <2>6, <2>7 DEF KeepsBasket
<1>6. CASE q.op = "convert"
  <2> DEFINE b == [db[Requisition] EXCEPT !.status = "ordered"]
             c == [status |-> "draft", archived |-> FALSE,
                   requisition |-> Requisition,
                   product |-> db[Requisition].product,
                   supplier |-> q.supplier,
                   amazon |-> db[Requisition].amazon]
  <2>1. Effect(q) = (Requisition :> b) @@ (NewOrder :> c)
    BY <1>6, OrderOpsAre DEF Effect, Conversion
  <2>2. NewOrder \in OrderIds /\ Requisition \notin OrderIds
    BY <1>6, RowTypes DEF Room, NewOrder
  <2>3. Exists(db, Requisition) /\ db[Requisition] \in RequisitionRow
    BY <1>1, <1>6, OrderOpsAre, RowTypes DEF Sound, Creates
  <2>4. db[Requisition].amazon => db[Requisition].supplier = AmazonSupplier /\ db[Requisition].product = NoProduct
    BY <2>3 DEF BasketIntact, Workflows
  <2>5. /\ b.amazon = db[Requisition].amazon
        /\ b.supplier = db[Requisition].supplier /\ b.product = db[Requisition].product
        /\ c.amazon = db[Requisition].amazon /\ c.requisition = Requisition /\ c.status = "draft"
        /\ c.supplier = q.supplier /\ c.product = db[Requisition].product
    BY <2>3 DEF RequisitionRow
  <2> HIDE DEF b, c
  <2>6. /\ DOMAIN Effect(q) = {Requisition, NewOrder}
        /\ Effect(q)[Requisition] = b /\ Effect(q)[NewOrder] = c
    BY <2>1, <2>2 DEF @@, :>
  <2> QED BY <1>2, <1>6, <2>2, <2>3, <2>4, <2>5, <2>6 DEF KeepsBasket
<1>7. CASE q.op \in OrderOps
  <2>1. Effect(q) = PlacedOrder(q)
    BY <1>7, OrderOpsAre DEF Effect
  <2>2. NewOrder \in OrderIds
    BY <1>7 DEF Room, NewOrder
  <2>3. DOMAIN Effect(q) = {NewOrder} /\ Effect(q)[NewOrder].amazon = FALSE
    BY <2>1 DEF PlacedOrder, :>
  <2>4. q.op # "basket"
    BY <1>7, OrderOpsAre
  <2> QED BY <1>2, <2>2, <2>3, <2>4, RowTypes DEF KeepsBasket
<1>8. CASE q.op \in {"edit", "submit", "decide"}
  <2>1. q.row = Requisition /\ Exists(db, Requisition) /\ db[Requisition] \in RequisitionRow
    BY <1>1, <1>8, OrderOpsAre, RowTypes DEF Sound, Creates
  <2>2. \E row : /\ Effect(q) = Requisition :> row /\ row.amazon = db[Requisition].amazon
                 /\ db[Requisition].amazon => /\ row.supplier = db[Requisition].supplier
                                              /\ row.product = db[Requisition].product
                                              /\ row.requisition = db[Requisition].requisition
    <3>1. CASE q.op = "edit"
      <4>1. [db[Requisition] EXCEPT !.status = "draft", !.product = q.value, !.supplier = q.supplier].amazon
            = db[Requisition].amazon
        BY <2>1 DEF RequisitionRow
      <4> QED BY <2>1, <3>1, <4>1, OrderOpsAre DEF Effect
    <3>2. CASE q.op \in {"submit", "decide"}
      <4> DEFINE v == IF q.op = "submit" THEN "submitted" ELSE q.value
                 row == [db[Requisition] EXCEPT !.status = v]
      <4>1. Effect(q) = Requisition :> row
        BY <3>2, OrderOpsAre DEF Effect
      <4>2. /\ row.amazon = db[Requisition].amazon /\ row.supplier = db[Requisition].supplier
            /\ row.product = db[Requisition].product
            /\ row.requisition = db[Requisition].requisition
        BY <2>1 DEF RequisitionRow
      <4> HIDE DEF row
      <4> QED BY <4>1, <4>2
    <3> QED BY <1>8, <3>1, <3>2
  <2>3. Requisition \in Workflows /\ Requisition \notin OrderIds
    BY RowTypes DEF Workflows
  <2> QED BY <1>8, <2>1, <2>2, <2>3, OneWorkflow
<1>9. CASE q.op \in {"redraft", "move"}
  <2>1. q.row \in OrderIds /\ q.row \in Workflows /\ Exists(db, q.row) /\ db[q.row] \in OrderRow
    BY <1>1, <1>9, OrderOpsAre, RowTypes DEF Sound, Creates, Workflows
  <2>2. \E row : /\ Effect(q) = q.row :> row /\ row.amazon = db[q.row].amazon
                 /\ db[q.row].amazon => /\ row.supplier = db[q.row].supplier
                                        /\ row.product = db[q.row].product
                                        /\ row.requisition = db[q.row].requisition
                                        /\ row.status \in {"draft", "cancelled"}
    <3>1. CASE q.op = "redraft"
      <4>1. [db[q.row] EXCEPT !.product = q.value, !.supplier = q.supplier].amazon = db[q.row].amazon
        BY <2>1 DEF OrderRow
      <4> QED BY <3>1, <4>1, OrderOpsAre DEF Effect
    <3>2. CASE q.op = "move"
      <4> DEFINE row == [db[q.row] EXCEPT !.status = q.value]
      <4>1. Effect(q) = q.row :> row
        BY <3>2, OrderOpsAre DEF Effect
      <4>2. /\ row.amazon = db[q.row].amazon /\ row.supplier = db[q.row].supplier
            /\ row.product = db[q.row].product
            /\ row.requisition = db[q.row].requisition /\ row.status = q.value
        BY <2>1 DEF OrderRow
      <4>3. db[q.row].amazon => q.value = "cancelled"
        BY <2>1, <3>2 DEF BasketIntact, OrderTransition, SentByHand, Sound
      <4> HIDE DEF row
      <4> QED BY <4>1, <4>2, <4>3
    <3> QED BY <1>9, <3>1, <3>2
  <2> QED BY <1>9, <2>1, <2>2, OneWorkflow
<1>10. CASE q.op = "rename"
  <2>1. q.row \in Masters /\ Effect(q) = q.row :> db[q.row]
    BY <1>10, OrderOpsAre DEF Effect, Sound
  <2>2. DOMAIN Effect(q) = {q.row}
    BY <2>1 DEF :>
  <2> QED BY <1>2, <1>10, <2>1, <2>2, RowTypes DEF KeepsBasket, Workflows
<1>11. CASE q.op \in {"archive", "restore"}
  <2>1. q.row \in Rows /\ Effect(q) = Lifecycle(q) /\ Exists(db, q.row)
    BY <1>11, OrderOpsAre DEF Effect, Sound, Creates
  <2>2. CASE q.row \in Masters
    <3>1. DOMAIN Effect(q) = {q.row}
      BY <2>1 DEF Lifecycle, :>
    <3> QED BY <1>2, <1>11, <2>2, <3>1, RowTypes DEF KeepsBasket, Workflows
  <2>3. CASE q.row \in Workflows
    <3> DEFINE b == q.op = "archive"
               row == [db[q.row] EXCEPT !.archived = b]
    <3>1. q.row \notin Masters
      BY <2>3, RowTypes DEF Workflows
    <3>2. Effect(q) = q.row :> row
      BY <2>1, <3>1 DEF Lifecycle
    <3>3. db[q.row] \in RequisitionRow \/ db[q.row] \in OrderRow
      BY <1>1, <2>1, <2>3, RowTypes DEF Workflows
    <3> HIDE DEF b
    <3>4. /\ row.amazon = db[q.row].amazon /\ row.supplier = db[q.row].supplier
          /\ row.product = db[q.row].product
          /\ row.requisition = db[q.row].requisition /\ row.status = db[q.row].status
      BY <3>3 DEF RequisitionRow, OrderRow
    <3>5. q.row \in OrderIds /\ db[q.row].amazon => db[q.row].status \in {"draft", "cancelled"}
      BY <2>1 DEF BasketIntact
    <3> HIDE DEF row
    <3>6. q.op # "basket"
      BY <1>11
    <3> QED BY <2>1, <2>3, <3>2, <3>4, <3>5, <3>6, OneWorkflow
  <2> QED BY <2>1, <2>2, <2>3 DEF Rows
<1> QED BY <1>3, <1>4, <1>5, <1>6, <1>7, <1>8, <1>9, <1>10, <1>11 DEF Sound

Baskets ==
  /\ BasketIntact /\ BasketExists
  /\ \A s \in Sessions : pc[s] = "written" => KeepsBasket(request[s], pend[s])

LEMMA WroteKeepsBasket ==
  ASSUME Core, Binding, Baskets, NEW s \in Sessions, Wrote(s)
  PROVE  KeepsBasket(request[s], Effect(request[s]))
<1>1. Database /\ request[s] \in AllRequests /\ pc[s] \in {"begun", "locked"}
  BY DEF Core, Typed, TypeOK, Database, Wrote
<1>2. Sound(request[s]) /\ Room(request[s])
  BY <1>1, RequestsAreSound DEF Wrote
<1>3. /\ ~Creates(request[s]) => Exists(db, request[s].row)
      /\ request[s].op = "move" =>
           OrderTransition(db[request[s].row].status, request[s].value) /\ ~SentByHand(request[s])
      /\ request[s].op \in {"edit", "redraft"} => ~db[request[s].row].amazon
      /\ request[s].op = "convert" /\ db[Requisition].amazon => request[s].supplier = AmazonSupplier
  <2>1. CASE pc[s] = "begun"
    BY <2>1 DEF Core, Typed, Checked, Binding, Verified, TakesTableLock
  <2>2. CASE pc[s] = "locked"
    BY <1>1, <1>2, <2>2, ReadyExists, ReadyMoves DEF Wrote
  <2> QED BY <1>1, <2>1, <2>2
<1> QED BY <1>1, <1>2, <1>3, WritesKeepBasket DEF Baskets

LEMMA MovesBaskets ==
  ASSUME Core, Binding, Baskets, NEW s \in Sessions, Moves(s)
  PROVE  Baskets'
<1>1. /\ db' = db
      /\ \A t \in Sessions : t # s =>
           pc'[t] = pc[t] /\ request'[t] = request[t] /\ pend'[t] = pend[t]
      /\ Begins(s) \/ Shows(s) \/ Locks(s) \/ Wrote(s) \/ Over(s)
  BY DEF Moves, Still, Quiet
<1>2. ASSUME NEW t \in Sessions, pc'[t] = "written"
      PROVE  KeepsBasket(request[t], pend[t])'
  <2>1. CASE t = s
    <3>1. Wrote(s) /\ request'[s] = request[s] /\ pend'[s] = Effect(request[s])
      BY <1>1, <1>2, <2>1 DEF Begins, Shows, Locks, Wrote, Over
    <3>2. KeepsBasket(request[s], Effect(request[s]))
      BY <3>1, WroteKeepsBasket
    <3>3. KeepsBasket(request[s], pend[s])'
      BY <1>1, <3>1, <3>2 DEF KeepsBasket
    <3> QED BY <2>1, <3>3
  <2>2. CASE t # s
    BY <1>1, <1>2, <2>2 DEF Baskets, KeepsBasket
  <2> QED BY <2>1, <2>2
<1> QED BY <1>1, <1>2 DEF Baskets, BasketIntact, BasketExists

LEMMA CommitBaskets ==
  ASSUME Core, Baskets, NEW s \in Sessions, Commit(s)
  PROVE  Baskets'
<1> DEFINE u == pend[s]
<1>1. /\ pc[s] = "written"
      /\ \A r \in DOMAIN u : db'[r] = u[r] /\ Exists(db', r)
      /\ \A r \in DOMAIN db : r \notin DOMAIN u => db'[r] = db[r]
      /\ \A r \in DOMAIN db : Exists(db, r) => Exists(db', r)
      /\ \A t \in Sessions : t # s =>
           pc'[t] = pc[t] /\ request'[t] = request[t] /\ pend'[t] = pend[t]
      /\ pc'[s] = "idle"
  BY CommitIs DEF Still, Over
<1>2. KeepsBasket(request[s], u) /\ BasketIntact /\ BasketExists
  BY <1>1 DEF Baskets
<1>3. /\ Requisition \in DOMAIN db /\ Punchout \in DOMAIN db
      /\ Workflows \subseteq DOMAIN db /\ OrderIds \subseteq DOMAIN db
      /\ Requisition \in Workflows /\ OrderIds \subseteq Workflows
  BY RowTypes DEF Core, Typed, TypeOK, Workflows
<1> HIDE DEF u
<1>4. /\ Exists(db, Requisition) /\ db[Requisition].amazon
           => Exists(db', Requisition) /\ db'[Requisition].amazon
      /\ (db'[Punchout].status = "returned" <=> Exists(db', Requisition) /\ db'[Requisition].amazon)
  <2>1. CASE request[s].op = "basket"
    BY <1>1, <1>2, <2>1 DEF KeepsBasket, u
  <2>2. CASE request[s].op # "basket"
    <3>1. db'[Punchout] = db[Punchout]
      BY <1>1, <1>2, <1>3, <2>2 DEF KeepsBasket, u
    <3>2. Exists(db', Requisition) /\ db'[Requisition].amazon <=> Exists(db, Requisition) /\ db[Requisition].amazon
      <4>1. CASE Requisition \in DOMAIN u
        BY <1>1, <1>2, <2>2, <4>1 DEF KeepsBasket, u
      <4>2. CASE Requisition \notin DOMAIN u
        BY <1>1, <1>3, <4>2 DEF Exists, u
      <4> QED BY <4>1, <4>2
    <3> QED BY <1>2, <3>1, <3>2 DEF BasketIntact
  <2> QED BY <2>1, <2>2
<1>5. ASSUME NEW r \in Workflows, Exists(db', r), db'[r].amazon
      PROVE  db'[r].supplier = AmazonSupplier /\ db'[r].product = NoProduct
  <2>1. CASE r \in DOMAIN u
    BY <1>1, <1>2, <1>5, <2>1 DEF KeepsBasket, u
  <2>2. CASE r \notin DOMAIN u
    <3>1. db'[r] = db[r] /\ Exists(db, r)
      BY <1>1, <1>3, <1>5, <2>2 DEF Exists, u
    <3> QED BY <1>2, <1>5, <3>1 DEF BasketIntact
  <2> QED BY <2>1, <2>2
<1>6. ASSUME NEW o \in OrderIds, Exists(db', o), db'[o].amazon
      PROVE  /\ db'[o].requisition = Requisition /\ db'[o].status \in {"draft", "cancelled"}
             /\ db'[Requisition].amazon /\ Exists(db', Requisition)
  <2>1. CASE o \in DOMAIN u
    <3>1. /\ db'[o].requisition = Requisition /\ db'[o].status \in {"draft", "cancelled"}
          /\ db[Requisition].amazon /\ Exists(db, Requisition)
      BY <1>1, <1>2, <1>6, <2>1 DEF KeepsBasket, u
    <3> QED BY <1>4, <3>1
  <2>2. CASE o \notin DOMAIN u
    <3>1. db'[o] = db[o] /\ Exists(db, o)
      BY <1>1, <1>3, <1>6, <2>2 DEF Exists, u
    <3>2. /\ db[o].requisition = Requisition /\ db[o].status \in {"draft", "cancelled"}
          /\ db[Requisition].amazon /\ Exists(db, Requisition)
      BY <1>2, <1>6, <3>1 DEF BasketIntact, BasketExists
    <3> QED BY <1>4, <3>1, <3>2
  <2> QED BY <2>1, <2>2
<1>7. BasketIntact' /\ BasketExists'
  BY <1>4, <1>5, <1>6 DEF BasketIntact, BasketExists, Exists
<1>8. ASSUME NEW t \in Sessions, pc'[t] = "written"
      PROVE  KeepsBasket(request[t], pend[t])'
  <2> DEFINE w == pend[t]
             q == request[t]
  <2>1. t # s /\ pc[t] = "written" /\ request'[t] = q /\ pend'[t] = w
    BY <1>1, <1>8
  <2>2. KeepsBasket(q, w)
    BY <2>1 DEF Baskets
  <2>3. Requisition \in DOMAIN w => db'[Requisition] = db[Requisition]
    <3>1. Held(t) = DOMAIN w
      BY <2>1 DEF Held
    <3> QED BY <1>3, <2>1, <3>1, CommitSpares
  <2> HIDE DEF w, q
  <2>4. KeepsBasket(q, w)'
    BY <1>4, <2>1, <2>2, <2>3 DEF KeepsBasket, Exists, w, q
  <2> QED BY <2>1, <2>4 DEF w, q
<1> QED BY <1>7, <1>8 DEF Baskets

LEMMA StartBaskets ==
  ASSUME Core, Baskets, NEW user \in Buyers, StartAmazonPunchout(user)
  PROVE  Baskets'
<1>1. /\ \A r \in Rows : db'[r] = db[r]
      /\ db'[Punchout].status # "returned"
      /\ UNCHANGED <<pc, request, pend, stale, key, made, expired>>
      /\ ~Exists(db, Requisition)
  BY StartIs DEF Unused
<1>2. \A r \in Workflows : r \in Rows /\ db'[r] = db[r]
  BY <1>1, RowTypes DEF Workflows
<1>3. Requisition \in Workflows /\ OrderIds \subseteq Workflows
  BY DEF Workflows
<1>4. BasketIntact' /\ BasketExists'
  BY <1>1, <1>2, <1>3 DEF Baskets, BasketIntact, BasketExists, Exists
<1>5. ASSUME NEW t \in Sessions, pc[t] = "written"
      PROVE  KeepsBasket(request[t], pend[t])'
  BY <1>1, <1>2, <1>3, <1>5 DEF Baskets, KeepsBasket, Exists
<1> QED BY <1>1, <1>4, <1>5 DEF Baskets

-----------------------------------------------------------------------------
Protected == Binding /\ Baskets

LEMMA StepIs ==
  ASSUME IInv, [Next]_vars
  PROVE  \/ \E user \in Buyers : StartAmazonPunchout(user)
         \/ \E s \in Sessions : Moves(s) \/ Commit(s)
         \/ UNCHANGED <<db, pc, request, pend>>
<1>1. Typed
  BY DEF IInv, Core
<1>2. ASSUME NEW s \in Sessions, Step(s) PROVE Moves(s) \/ Commit(s)
  BY <1>1, <1>2, WriteMoves, GuidedLockMoves, EndMoves DEF Step
<1>3. ASSUME NEW s \in Sessions, NativeBegin(s) \/ Preview(s) \/ ConvertLock(s) PROVE Moves(s)
  BY <1>1, <1>3, NativeBeginMoves, PreviewMoves, ConvertLockMoves
<1>4. ASSUME NEW s \in Sessions, NEW t \in Sessions, Repeat(s, t) PROVE Moves(t)
  BY <1>1, <1>4, RepeatMoves
<1>5. Expire \/ UNCHANGED vars => UNCHANGED <<db, pc, request, pend>>
  BY DEF Expire, vars
<1> QED BY <1>2, <1>3, <1>4, <1>5 DEF Next

LEMMA InitProtected == Init => Protected
<1>1. SUFFICES ASSUME Init PROVE Protected
  OBVIOUS
<1>2. db = [r \in Rows \cup {Punchout} |->
              IF r \in Masters \ NewMasters THEN [status |-> "active"] ELSE AbsentRow]
  BY <1>1 DEF Init
<1>3. \A r \in Workflows \cup {Punchout} : db[r] = AbsentRow
  <2>1. ASSUME NEW r \in Workflows \cup {Punchout} PROVE r \in Rows \cup {Punchout} /\ r \notin Masters
    BY RowTypes DEF Workflows
  <2> QED BY <1>2, <2>1
<1>4. \A r \in Workflows : Needs(db, r) = {}
  BY <1>3, RowTypes DEF Needs, PendingRequisition, OpenOrder, AbsentRow, Workflows
<1>5. \A s \in Sessions : pc[s] = "idle"
  BY <1>1 DEF Init
<1>6. Binding
  BY <1>4, <1>5 DEF Binding, LiveDb, SharedLocks, Shared, Verified
<1>7. Baskets
  BY <1>3, <1>5 DEF Baskets, BasketIntact, BasketExists, Exists, AbsentRow, Workflows
<1> QED BY <1>6, <1>7 DEF Protected

LEMMA NextProtected == IInv /\ Protected /\ [Next]_vars => Protected'
<1>1. SUFFICES ASSUME IInv, Protected, [Next]_vars PROVE Protected'
  OBVIOUS
<1>2. Core /\ Binding /\ Baskets
  BY <1>1 DEF IInv, Protected
<1>3. ASSUME NEW user \in Buyers, StartAmazonPunchout(user) PROVE Protected'
  BY <1>2, <1>3, StartBinding, StartBaskets DEF Protected
<1>4. ASSUME NEW s \in Sessions, Moves(s) PROVE Protected'
  BY <1>2, <1>4, MovesBinding, MovesBaskets DEF Protected
<1>5. ASSUME NEW s \in Sessions, Commit(s) PROVE Protected'
  BY <1>2, <1>5, CommitBinding, CommitBaskets DEF Protected
<1>6. ASSUME UNCHANGED <<db, pc, request, pend>> PROVE Protected'
  <2>1. LiveDb' /\ SharedLocks' /\ Verified'
    BY <1>2, <1>6 DEF Binding, LiveDb, SharedLocks, Held, Shared, Verified, SentByHand
  <2>2. \A s \in Sessions : pc'[s] = "written" => Safe(request[s], pend[s])'
    BY <1>2, <1>6 DEF Binding, Safe
  <2>3. Baskets'
    BY <1>2, <1>6 DEF Baskets, BasketIntact, BasketExists, KeepsBasket, Exists
  <2> QED BY <2>1, <2>2, <2>3 DEF Binding, Protected
<1> QED BY <1>1, <1>3, <1>4, <1>5, <1>6, StepIs

LEMMA Protection == Spec => []Protected
BY InitProtected, NextProtected, Invariance, PTL DEF Spec

(* However many sessions archive, order, convert and edit at once: an      *)
(* order that binds and a requisition on its way refer to active products, *)
(* suppliers and requisitions at every commit.                             *)
THEOREM ReferencesStayActive == Spec => []OpenReferencesActive
<1>1. IInv /\ Protected => OpenReferencesActive
  <2>1. SUFFICES ASSUME IInv, LiveDb PROVE OpenReferencesActive
    BY DEF Protected, Binding
  <2>2. \A r \in Workflows : Exists(db, r) => db[r] \in RowOf(r)
    BY <2>1, RowsExist, RowTypes DEF IInv, Core, Typed, TypeOK, Database, Workflows
  <2>3. ASSUME NEW o \in OrderIds, OpenOrder(db, o)
        PROVE  /\ ReferencesActive(db[o].product, db[o].supplier)
               /\ db[o].requisition = Requisition => ~db[Requisition].archived
    <3>1. o \in Workflows /\ o # Requisition
      BY RowTypes DEF Workflows
    <3>2. db[o] \in OrderRow
      BY <2>2, <2>3, <3>1, RowTypes DEF OpenOrder, Exists
    <3>3. /\ db[o].product \in Products \cup {NoProduct} /\ db[o].supplier \in Suppliers
          /\ NoRequisition \notin {Requisition} \cup Suppliers
      BY <3>2, RowsAssumption DEF OrderRow
    <3>4. Needs(db, o) = ProductsOf(db[o]) \cup ({db[o].supplier, db[o].requisition} \ {NoRequisition})
      BY <2>3, <3>1 DEF Needs
    <3>5. \A x \in Needs(db, o) : Alive(db, x)
      BY <2>1, <3>1 DEF LiveDb
    <3> QED BY <3>3, <3>4, <3>5, RowTypes DEF Alive, ProductsOf, ReferencesActive
  <2>4. ASSUME PendingRequisition(db), db[Requisition].product # NoProduct
        PROVE  Active(db, db[Requisition].product)
    <3>1. Requisition \in Workflows /\ Exists(db, Requisition)
      BY <2>4 DEF Workflows, PendingRequisition, Exists
    <3>2. db[Requisition] \in RequisitionRow
      BY <2>2, <3>1, RowTypes
    <3>3. db[Requisition].product \in Products
      BY <2>4, <3>2 DEF RequisitionRow
    <3>4. db[Requisition].product \in Needs(db, Requisition)
      BY <2>4 DEF Needs, ProductsOf
    <3> QED BY <2>1, <3>1, <3>3, <3>4, RowTypes DEF LiveDb, Alive
  <2> QED BY <2>3, <2>4 DEF OpenReferencesActive
<1> QED BY <1>1, Invariance, Protection, PTL

(* One return of the PunchOut session makes the basket, and requisition    *)
(* and order stay with Amazon and unsent until the program submits them.   *)
THEOREM BasketStaysIntact == Spec => []BasketIntact
<1>1. Protected => BasketIntact
  BY DEF Protected, Baskets
<1> QED BY <1>1, Protection, PTL
=============================================================================
