------------------------ MODULE RequisitionFlowProofs ------------------------
(***************************************************************************)
(* Theorems about RequisitionFlow for any products, suppliers, orders,     *)
(* users and any number of sessions.                                       *)
(*                                                                         *)
(* Every action but a commit leaves the database alone and moves one       *)
(* session: Moves lists the five ways.  Row locks are disjoint, a holder   *)
(* of the tables is alone, and a conversion under way excludes every other *)
(* writer; so a commit finds the rows it writes as its checks left them.   *)
(***************************************************************************)
EXTENDS RequisitionFlow, TLAPS

(* What the members of AllRequests have in common.                         *)
Sound(q) ==
  /\ q.supplier \in Suppliers /\ q.user \in Users /\ q.way \in Ways
  /\ q.op \in {"create", "offer", "basket", "edit", "submit", "decide", "convert",
               "redraft", "move", "rename", "archive", "restore"} \cup OrderOps
  /\ q.op \in OrderOps => q.row \in {Requisition, NoRequisition} /\ q.value \in Products
  /\ q.op \in {"create", "offer", "edit", "submit", "decide", "convert"} => q.row = Requisition
  /\ q.op \in {"create", "offer", "edit", "redraft"} => q.value \in Products
  /\ q.op = "basket" => q.row = Punchout
  /\ q.op = "decide" => q.value \in {"approved", "rejected", "returned"}
  /\ q.op = "move" => q.value \in {"sent", "confirmed", "cancelled"}
  /\ q.op \in {"redraft", "move"} => q.row \in OrderIds
  /\ q.op = "rename" => q.row \in Masters
  /\ q.op \in {"archive", "restore"} => q.row \in Rows

LEMMA OrderOpsAre ==
  /\ OrderOps = {"order", "order sent", "order confirmed"}
  /\ \A op \in OrderOps : InitialStatus[op] \in {"draft", "sent", "confirmed"}
BY DEF OrderOps, InitialStatus, @@, :>

LEMMA RequestsAreSound == \A q \in AllRequests : Sound(q)
<1>1. SUFFICES ASSUME NEW q \in AllRequests PROVE Sound(q)
  OBVIOUS
<1>2. \/ \E op \in OrderOps : q \in Fixed(op, {Requisition, NoRequisition}, Products, {"native"})
      \/ q \in Fixed("create", {Requisition}, Products, Ways)
      \/ q \in Fixed("offer", {Requisition}, Products, {"native"})
      \/ q \in Fixed("basket", {Punchout}, {NoProduct}, {"native"})
      \/ q \in Fixed("edit", {Requisition}, Products, Ways)
      \/ q \in Fixed("submit", {Requisition}, {NoProduct}, Ways)
      \/ q \in Fixed("decide", {Requisition}, {"approved", "rejected", "returned"}, Ways)
      \/ q \in Fixed("convert", {Requisition}, {NoProduct}, Ways)
      \/ q \in Fixed("order", {NoRequisition}, Products, {"guided"})
      \/ q \in Fixed("redraft", OrderIds, Products, Ways)
      \/ q \in Fixed("move", OrderIds, {"sent", "confirmed", "cancelled"}, Ways)
      \/ q \in Fixed("rename", Masters, {NoProduct}, {"native"})
      \/ q \in Fixed("archive", Workflows, {NoProduct}, {"guided"})
      \/ q \in Fixed("restore", Workflows, {NoProduct}, {"guided"})
      \/ q \in Fixed("archive", Masters, {NoProduct}, Ways)
      \/ q \in Fixed("restore", Masters, {NoProduct}, Ways)
  <2> DEFINE A == { Fixed(op, {Requisition, NoRequisition}, Products, {"native"}) : op \in OrderOps }
             B == { Fixed("create", {Requisition}, Products, Ways),
                    Fixed("offer", {Requisition}, Products, {"native"}),
                    Fixed("basket", {Punchout}, {NoProduct}, {"native"}),
                    Fixed("edit", {Requisition}, Products, Ways),
                    Fixed("submit", {Requisition}, {NoProduct}, Ways),
                    Fixed("decide", {Requisition}, {"approved", "rejected", "returned"}, Ways),
                    Fixed("convert", {Requisition}, {NoProduct}, Ways),
                    Fixed("order", {NoRequisition}, Products, {"guided"}),
                    Fixed("redraft", OrderIds, Products, Ways),
                    Fixed("move", OrderIds, {"sent", "confirmed", "cancelled"}, Ways),
                    Fixed("rename", Masters, {NoProduct}, {"native"}),
                    Fixed("archive", Workflows, {NoProduct}, {"guided"}),
                    Fixed("restore", Workflows, {NoProduct}, {"guided"}),
                    Fixed("archive", Masters, {NoProduct}, Ways),
                    Fixed("restore", Masters, {NoProduct}, Ways) }
  <2>1. AllRequests = UNION (A \cup B)
    BY DEF AllRequests
  <2>2. q \in UNION A \/ q \in UNION B
    <3> HIDE DEF A, B
    <3> QED BY <2>1
  <2>3. q \in UNION A => \E op \in OrderOps :
                          q \in Fixed(op, {Requisition, NoRequisition}, Products, {"native"})
    OBVIOUS
  <2> HIDE DEF A
  <2> QED BY <2>2, <2>3
<1>3. ASSUME NEW op \in OrderOps, q \in Fixed(op, {Requisition, NoRequisition}, Products, {"native"})
      PROVE  Sound(q)
  BY <1>3, OrderOpsAre DEF Sound, Fixed, Ways
<1> QED BY <1>2, <1>3, OrderOpsAre DEF Sound, Fixed, Ways, Rows

Database ==
  /\ DOMAIN db = Rows \cup {Punchout}
  /\ \A r \in DOMAIN db : db[r] \in RowOf(r) \cup {AbsentRow}

LEMMA RowTypes ==
  /\ Requisition \in Rows /\ OrderIds \subseteq Rows /\ Masters \subseteq Rows
  /\ Products \subseteq Masters /\ Suppliers \subseteq Masters
  /\ RowOf(Requisition) = RequisitionRow
  /\ \A o \in OrderIds : o # Requisition /\ RowOf(o) = OrderRow
  /\ \A m \in Masters : m # Requisition /\ m \notin OrderIds /\ RowOf(m) = MasterRow
  /\ Punchout \notin Rows /\ RowOf(Punchout) = PunchoutRow
<1>1. Punchout \notin Rows
  BY SessionsAssumption
<1> QED BY <1>1, RowsAssumption DEF RowOf, Rows, Workflows, Masters

LEMMA RowsExist ==
  /\ \A r : \A row \in RowOf(r) : row.status # "absent"
  /\ Database => \A r \in Rows \cup {Punchout} : Exists(db, r) <=> db[r] \in RowOf(r)
<1>1. \A r : \A row \in RowOf(r) : row.status # "absent"
  BY DEF RowOf, RequisitionRow, OrderRow, MasterRow, PunchoutRow
<1> QED BY <1>1 DEF Database, Exists, AbsentRow

(* Writing the row r.                                                      *)
LEMMA OneRow ==
  ASSUME NEW r, NEW row
  PROVE  DOMAIN (r :> row) = {r} /\ (r :> row)[r] = row
BY DEF :>

(* Every request writes rows of the right kind, among them the row it is   *)
(* about.                                                                  *)
Proper(w) ==
  /\ DOMAIN w \subseteq Rows \cup {Punchout}
  /\ \A r \in DOMAIN w : w[r] \in RowOf(r)

LEMMA ProperRow ==
  ASSUME NEW w, NEW r \in Rows \cup {Punchout}, NEW row \in RowOf(r), w = r :> row
  PROVE  Proper(w) /\ DOMAIN w = {r} /\ w[r] = row
BY DEF Proper, :>

LEMMA ProperBoth ==
  ASSUME NEW u, NEW v, NEW w, w = u @@ v, Proper(u), Proper(v)
  PROVE  Proper(w) /\ DOMAIN w = DOMAIN u \cup DOMAIN v
BY DEF Proper, @@

LEMMA ProperNone == Proper(<< >>)
BY DEF Proper

LEMMA EffectTyped ==
  ASSUME Database, NEW q, Sound(q), Room(q), ~Creates(q) => Exists(db, q.row)
  PROVE  Proper(Effect(q)) /\ (~Creates(q) => q.row \in DOMAIN Effect(q))
<1>1. \A r \in Rows \cup {Punchout} : Exists(db, r) => db[r] \in RowOf(r)
  BY RowsExist
<1>2. CASE q.op = "create"
  <2>1. Effect(q) = Requisition :> NewRequisition(q) /\ Creates(q)
    BY <1>2, OrderOpsAre DEF Effect, Creates
  <2>2. NewRequisition(q) \in RowOf(Requisition)
    BY <1>2, RowTypes DEF Sound, NewRequisition, RequisitionRow
  <2> QED BY <2>1, <2>2, ProperRow, RowTypes
<1>3. CASE q.op = "offer"
  <2> DEFINE p == IF Exists(db, q.value) THEN << >> ELSE q.value :> [status |-> "active"]
  <2>1. Effect(q) = (Requisition :> NewRequisition(q)) @@ p /\ Creates(q)
    BY <1>3, OrderOpsAre DEF Effect, Creates
  <2>2. NewRequisition(q) \in RowOf(Requisition)
    BY <1>3, RowTypes DEF Sound, NewRequisition, RequisitionRow
  <2>3. q.value \in Rows /\ [status |-> "active"] \in RowOf(q.value)
    BY <1>3, RowTypes DEF Sound, MasterRow
  <2>4. Proper(p)
    BY <2>3, ProperRow, ProperNone
  <2>5. Proper(Requisition :> NewRequisition(q))
    BY <2>2, ProperRow, RowTypes
  <2> QED BY <2>1, <2>4, <2>5, ProperBoth
<1>4. CASE q.op = "basket"
  <2> DEFINE a == IF Exists(db, AmazonSupplier) THEN << >> ELSE AmazonSupplier :> [status |-> "active"]
             bRow == [status |-> "draft", archived |-> FALSE,
                     requester |-> db[Punchout].user, product |-> NoProduct,
                     supplier |-> AmazonSupplier, amazon |-> TRUE]
             cRow == [db[Punchout] EXCEPT !.status = "returned"]
  <2>1. Effect(q) = (Requisition :> bRow) @@ (Punchout :> cRow) @@ a /\ q.row = Punchout
    BY <1>4, OrderOpsAre DEF Effect, Basket, Sound
  <2>2. AmazonSupplier \in Suppliers
    BY SessionsAssumption
  <2>3. db[Punchout] \in PunchoutRow
    BY <1>1, <1>4, <2>1, OrderOpsAre, RowTypes DEF Creates
  <2>4. AmazonSupplier \in Rows /\ [status |-> "active"] \in RowOf(AmazonSupplier)
    BY <2>2, RowTypes DEF MasterRow
  <2>5. Proper(a)
    BY <2>4, ProperRow, ProperNone
  <2>6. bRow \in RowOf(Requisition)
    BY <2>2, <2>3, RowTypes DEF RequisitionRow, PunchoutRow
  <2>7. cRow \in RowOf(Punchout)
    BY <2>3, RowTypes DEF PunchoutRow
  <2> DEFINE b == Requisition :> bRow
             c == Punchout :> cRow
             bc == b @@ c
  <2> HIDE DEF a, bRow, cRow
  <2>8. Proper(b) /\ Proper(c) /\ Punchout \in DOMAIN c
    <3>1. Proper(b)
      BY <2>6, ProperRow, RowTypes
    <3>2. Proper(c) /\ DOMAIN c = {Punchout}
      BY <2>7, ProperRow, RowTypes
    <3> QED BY <3>1, <3>2
  <2>9. Effect(q) = bc @@ a
    BY <2>1
  <2> HIDE DEF b, c
  <2>10. Proper(bc) /\ DOMAIN bc = DOMAIN b \cup DOMAIN c
    BY <2>8, ProperBoth
  <2> HIDE DEF bc
  <2>11. Proper(Effect(q)) /\ DOMAIN Effect(q) = DOMAIN bc \cup DOMAIN a
    BY <2>5, <2>9, <2>10, ProperBoth
  <2> QED BY <2>1, <2>8, <2>10, <2>11
<1>5. CASE q.op \in {"edit", "submit", "decide"}
  <2>1. q.row = Requisition /\ db[Requisition] \in RequisitionRow
    BY <1>1, <1>5, OrderOpsAre, RowTypes DEF Sound, Creates
  <2>2. \E row \in RequisitionRow : Effect(q) = Requisition :> row
    <3>1. CASE q.op = "edit"
      <4>1. [db[Requisition] EXCEPT !.status = "draft", !.product = q.value, !.supplier = q.supplier] \in RequisitionRow
        BY <2>1, <3>1 DEF Sound, RequisitionRow
      <4> QED BY <3>1, <4>1, OrderOpsAre DEF Effect
    <3>2. CASE q.op = "submit"
      <4>1. [db[Requisition] EXCEPT !.status = "submitted"] \in RequisitionRow
        BY <2>1 DEF RequisitionRow
      <4> QED BY <3>2, <4>1, OrderOpsAre DEF Effect
    <3>3. CASE q.op = "decide"
      <4>1. [db[Requisition] EXCEPT !.status = q.value] \in RequisitionRow
        BY <2>1, <3>3 DEF Sound, RequisitionRow
      <4> QED BY <3>3, <4>1, OrderOpsAre DEF Effect
    <3> QED BY <1>5, <3>1, <3>2, <3>3
  <2>3. PICK row \in RowOf(Requisition) : Effect(q) = Requisition :> row
    BY <2>2, RowTypes
  <2>4. Proper(Effect(q)) /\ DOMAIN Effect(q) = {Requisition}
    BY <2>3, ProperRow, RowTypes
  <2> QED BY <2>1, <2>4
<1>6. CASE q.op = "convert"
  <2>1. q.row = Requisition /\ db[Requisition] \in RequisitionRow
    BY <1>1, <1>6, OrderOpsAre, RowTypes DEF Sound, Creates
  <2>2. NewOrder \in OrderIds
    BY <1>6 DEF Room, NewOrder
  <2> DEFINE bRow == [db[Requisition] EXCEPT !.status = "ordered"]
             cRow == [status |-> "draft", archived |-> FALSE,
                     requisition |-> Requisition,
                     product |-> db[Requisition].product,
                     supplier |-> q.supplier,
                     amazon |-> db[Requisition].amazon]
  <2>3. Effect(q) = (Requisition :> bRow) @@ (NewOrder :> cRow)
    BY <1>6, OrderOpsAre DEF Effect, Conversion
  <2>4. bRow \in RowOf(Requisition)
    BY <2>1, RowTypes DEF RequisitionRow
  <2>5. cRow \in RowOf(NewOrder) /\ NewOrder \in Rows
    <3>1. RowOf(NewOrder) = OrderRow /\ NewOrder \in Rows
      BY <2>2, RowTypes
    <3>2. /\ db[Requisition].product \in Products \cup {NoProduct}
          /\ db[Requisition].amazon \in BOOLEAN /\ q.supplier \in Suppliers
      BY <2>1 DEF RequisitionRow, Sound
    <3>3. cRow \in OrderRow
      BY <3>2 DEF OrderRow
    <3> QED BY <3>1, <3>3
  <2> HIDE DEF bRow, cRow
  <2>6. Proper(Requisition :> bRow) /\ Proper(NewOrder :> cRow)
    BY <2>4, <2>5, ProperRow, RowTypes
  <2>7. Requisition \in DOMAIN (Requisition :> bRow)
    BY OneRow
  <2>8. /\ Proper(Effect(q))
        /\ DOMAIN Effect(q) = DOMAIN (Requisition :> bRow) \cup DOMAIN (NewOrder :> cRow)
    BY <2>3, <2>6, ProperBoth
  <2> QED BY <2>1, <2>7, <2>8
<1>7. CASE q.op \in OrderOps
  <2>1. Effect(q) = PlacedOrder(q) /\ Creates(q)
    BY <1>7, OrderOpsAre DEF Effect, Creates
  <2>2. NewOrder \in OrderIds
    BY <1>7 DEF Room, NewOrder
  <2>3. \E row \in OrderRow : Effect(q) = NewOrder :> row
    BY <1>7, <2>1, OrderOpsAre DEF PlacedOrder, Sound, OrderRow
  <2>4. PICK row \in RowOf(NewOrder) : Effect(q) = NewOrder :> row
    BY <2>2, <2>3, RowTypes
  <2>5. NewOrder \in Rows
    BY <2>2, RowTypes
  <2>6. Proper(Effect(q))
    BY <2>4, <2>5, ProperRow
  <2> QED BY <2>1, <2>6
<1>8. CASE q.op \in {"redraft", "move"}
  <2>1. q.row \in OrderIds /\ db[q.row] \in OrderRow
    BY <1>1, <1>8, OrderOpsAre, RowTypes DEF Sound, Creates
  <2>2. \E row \in OrderRow : Effect(q) = q.row :> row
    <3>1. CASE q.op = "redraft"
      <4>1. [db[q.row] EXCEPT !.product = q.value, !.supplier = q.supplier] \in OrderRow
        BY <2>1, <3>1 DEF Sound, OrderRow
      <4> QED BY <3>1, <4>1, OrderOpsAre DEF Effect
    <3>2. CASE q.op = "move"
      <4>1. [db[q.row] EXCEPT !.status = q.value] \in OrderRow
        BY <2>1, <3>2 DEF Sound, OrderRow
      <4> QED BY <3>2, <4>1, OrderOpsAre DEF Effect
    <3> QED BY <1>8, <3>1, <3>2
  <2>3. PICK row \in RowOf(q.row) : Effect(q) = q.row :> row
    BY <2>1, <2>2, RowTypes
  <2>4. q.row \in Rows
    BY <2>1, RowTypes
  <2>5. Proper(Effect(q)) /\ DOMAIN Effect(q) = {q.row}
    BY <2>3, <2>4, ProperRow
  <2> QED BY <2>5
<1>9. CASE q.op = "rename"
  <2>1. q.row \in Masters /\ db[q.row] \in RowOf(q.row) /\ Effect(q) = q.row :> db[q.row]
    BY <1>1, <1>9, OrderOpsAre, RowTypes DEF Effect, Sound, Creates
  <2>2. q.row \in Rows
    BY <2>1, RowTypes
  <2>3. Proper(Effect(q)) /\ DOMAIN Effect(q) = {q.row}
    BY <2>1, <2>2, ProperRow
  <2> QED BY <2>3
<1>10. CASE q.op \in {"archive", "restore"}
  <2>1. q.row \in Rows /\ Effect(q) = Lifecycle(q) /\ db[q.row] \in RowOf(q.row)
    BY <1>1, <1>10, OrderOpsAre DEF Effect, Sound, Creates
  <2>2. PICK row \in RowOf(q.row) : Effect(q) = q.row :> row
    <3>1. CASE q.row \in Masters
      BY <2>1, <3>1, RowTypes DEF Lifecycle, MasterRow
    <3>2. CASE q.row \in Workflows
      <4> DEFINE b == q.op = "archive"
      <4>1. [db[q.row] EXCEPT !.archived = b] \in RowOf(q.row)
        <5>3. b \in BOOLEAN
          OBVIOUS
        <5> HIDE DEF b
        <5>1. CASE q.row = Requisition
          BY <2>1, <5>1, <5>3, RowTypes DEF RequisitionRow
        <5>2. CASE q.row \in OrderIds
          <6>1. db[q.row] \in OrderRow /\ RowOf(q.row) = OrderRow
            BY <2>1, <5>2, RowTypes
          <6> QED BY <5>3, <6>1 DEF OrderRow
        <5> QED BY <3>2, <5>1, <5>2 DEF Workflows
      <4>2. q.row \notin Masters
        BY <3>2, RowTypes DEF Workflows
      <4> QED BY <2>1, <4>1, <4>2 DEF Lifecycle
    <3> QED BY <2>1, <3>1, <3>2 DEF Rows
  <2>3. Proper(Effect(q)) /\ DOMAIN Effect(q) = {q.row}
    BY <2>1, <2>2, ProperRow
  <2> QED BY <2>3
<1> QED BY <1>2, <1>3, <1>4, <1>5, <1>6, <1>7, <1>8, <1>9, <1>10 DEF Sound

-----------------------------------------------------------------------------
(* Types, and what a session's place says about its request.               *)
Typed ==
  /\ TypeOK /\ DOMAIN pend = Sessions
  /\ \A s \in Sessions :
       /\ pc[s] # "idle" => request[s] \in AllRequests
       /\ pc[s] # "written" => DOMAIN pend[s] = {}
       /\ pc[s] = "begun" => ~TakesTableLock(request[s])
       /\ pc[s] = "shown" => request[s].way = "guided"
       /\ pc[s] = "locked" => TakesTableLock(request[s])
       /\ pc[s] = "written" /\ ~Creates(request[s]) => request[s].row \in DOMAIN pend[s]

(* While a session has the tables nobody else has written anything.        *)
Exclusive ==
  \A s, t \in Sessions : s # t /\ HoldsTables(s) => pc[t] # "written" /\ ~HoldsTables(t)

(* No row is locked for writing twice.                                     *)
RowLocks == \A s, t \in Sessions : s # t => Held(s) \cap Held(t) = {}

(* What a browser's handler found out about its row stays so.              *)
Checked ==
  \A s \in Sessions : pc[s] = "begun" /\ ~Creates(request[s]) =>
    /\ Exists(db, request[s].row)
    /\ request[s].op \in {"edit", "submit", "decide"} => ~RequisitionIs({"ordered"})

(* The ways a session can go while the database stays as it is.            *)
Begins(s) ==
  /\ pc[s] = "idle" /\ pc'[s] = "begun" /\ pend'[s] = pend[s]
  /\ request'[s] \in AllRequests /\ ~TakesTableLock(request'[s])
  /\ NativeReady(request'[s])
  /\ ~Creates(request'[s]) =>
       \A t \in Sessions : request'[s].row \notin Held(t) \cup Shared(t)
Shows(s) ==
  /\ pc[s] = "idle" /\ pc'[s] = "shown" /\ pend'[s] = pend[s]
  /\ request'[s] \in AllRequests /\ request'[s].way = "guided"
Locks(s) ==
  /\ pc[s] \in {"idle", "shown"} /\ pc'[s] = "locked" /\ pend'[s] = pend[s]
  /\ request'[s] \in AllRequests /\ TakesTableLock(request'[s])
  /\ TablesFree(s)
Wrote(s) ==
  /\ pc[s] \in {"begun", "locked"} /\ pc'[s] = "written"
  /\ request'[s] = request[s] /\ pend'[s] = Effect(request[s])
  /\ Room(request[s]) /\ ~Waits(s) /\ Allowed(request[s])
  /\ pc[s] = "locked" => GuidedReady(request[s])
Over(s) ==
  /\ pc[s] # "idle" /\ pc'[s] = "idle"
  /\ request'[s] = NoRequest /\ pend'[s] = << >>

Still(s) ==
  \A t \in Sessions : t # s =>
    pc'[t] = pc[t] /\ request'[t] = request[t] /\ pend'[t] = pend[t]
Frame ==
  /\ pc' \in [Sessions -> {"idle", "shown", "begun", "locked", "written"}]
  /\ request' \in [Sessions -> AllRequests \cup {NoRequest}]
  /\ DOMAIN pend' = Sessions

Moves(s) ==
  /\ Frame /\ Still(s) /\ Quiet
  /\ Begins(s) \/ Shows(s) \/ Locks(s) \/ Wrote(s) \/ Over(s)

LEMMA SoundRequests ==
  \A s \in Sessions : Requests[s] \subseteq AllRequests /\ \A q \in Requests[s] : Sound(q)
<1>1. \A s \in Sessions : Requests[s] \subseteq AllRequests
  BY SessionsAssumption
<1> QED BY <1>1, RequestsAreSound

LEMMA EndIs ==
  ASSUME Typed, NEW s \in Sessions, pc[s] # "idle", End(s)
  PROVE  Frame /\ Still(s) /\ Over(s)
BY DEF Typed, TypeOK, End, Frame, Still, Over

LEMMA NativeBeginMoves ==
  ASSUME Typed, NEW s \in Sessions, NativeBegin(s)
  PROVE  Moves(s)
<1>1. PICK q \in Requests[s] :
        /\ q.way = "native" /\ q.op # "convert"
        /\ NativeReady(q)
        /\ ~Creates(q) => \A t \in Sessions : q.row \notin Held(t) \cup Shared(t)
        /\ request' = [request EXCEPT ![s] = q]
  BY DEF NativeBegin
<1>2. q \in AllRequests
  BY SoundRequests
<1>3. /\ pc[s] = "idle" /\ pc' = [pc EXCEPT ![s] = "begun"]
      /\ Quiet /\ UNCHANGED pend
  BY DEF NativeBegin, Idle
<1>4. /\ pc \in [Sessions -> {"idle", "shown", "begun", "locked", "written"}]
      /\ request \in [Sessions -> AllRequests \cup {NoRequest}]
      /\ DOMAIN pend = Sessions
  BY DEF Typed, TypeOK
<1>5. Frame /\ Still(s) /\ request'[s] = q /\ pc'[s] = "begun"
  BY <1>1, <1>2, <1>3, <1>4 DEF Frame, Still
<1>6. Begins(s)
  BY <1>1, <1>2, <1>3, <1>5 DEF Begins, TakesTableLock
<1> QED BY <1>3, <1>5, <1>6 DEF Moves

LEMMA PreviewMoves ==
  ASSUME Typed, NEW s \in Sessions, Preview(s)
  PROVE  Moves(s)
<1>1. PICK q \in Requests[s] : q.way = "guided" /\ request' = [request EXCEPT ![s] = q]
  BY DEF Preview
<1>2. q \in AllRequests
  BY SoundRequests
<1>3. /\ pc[s] = "idle" /\ pc' = [pc EXCEPT ![s] = "shown"]
      /\ Quiet /\ UNCHANGED pend
  BY DEF Preview, Idle
<1>4. /\ pc \in [Sessions -> {"idle", "shown", "begun", "locked", "written"}]
      /\ request \in [Sessions -> AllRequests \cup {NoRequest}]
      /\ DOMAIN pend = Sessions
  BY DEF Typed, TypeOK
<1>5. Frame /\ Still(s) /\ request'[s] = q /\ pc'[s] = "shown"
  BY <1>1, <1>2, <1>3, <1>4 DEF Frame, Still
<1> QED BY <1>1, <1>2, <1>3, <1>5 DEF Moves, Shows

LEMMA RepeatMoves ==
  ASSUME Typed, NEW s \in Sessions, NEW t \in Sessions, Repeat(s, t)
  PROVE  Moves(t)
<1>1. /\ pc[t] = "idle" /\ pc[s] # "idle" /\ request[s].way = "guided"
      /\ pc' = [pc EXCEPT ![t] = "shown"]
      /\ request' = [request EXCEPT ![t] = request[s]]
      /\ Quiet /\ UNCHANGED pend
  BY DEF Repeat, Idle
<1>2. request[s] \in AllRequests
  BY <1>1 DEF Typed
<1>3. /\ pc \in [Sessions -> {"idle", "shown", "begun", "locked", "written"}]
      /\ request \in [Sessions -> AllRequests \cup {NoRequest}]
      /\ DOMAIN pend = Sessions
  BY DEF Typed, TypeOK
<1>4. Frame /\ Still(t) /\ request'[t] = request[s] /\ pc'[t] = "shown"
  BY <1>1, <1>2, <1>3 DEF Frame, Still
<1> QED BY <1>1, <1>2, <1>4 DEF Moves, Shows

LEMMA GuidedLockMoves ==
  ASSUME Typed, NEW s \in Sessions, GuidedLock(s)
  PROVE  Moves(s)
<1>1. /\ pc[s] = "shown" /\ TablesFree(s)
      /\ pc' = [pc EXCEPT ![s] = "locked"]
      /\ Quiet /\ UNCHANGED <<request, pend>>
  BY DEF GuidedLock
<1>2. request[s] \in AllRequests /\ TakesTableLock(request[s])
  BY <1>1 DEF Typed, TakesTableLock
<1>3. Frame /\ Still(s) /\ pc'[s] = "locked"
  BY <1>1 DEF Typed, TypeOK, Frame, Still
<1> QED BY <1>1, <1>2, <1>3 DEF Moves, Locks

LEMMA ConvertLockMoves ==
  ASSUME Typed, NEW s \in Sessions, ConvertLock(s)
  PROVE  Moves(s)
<1>1. PICK q \in Requests[s] :
        q.way = "native" /\ q.op = "convert" /\ request' = [request EXCEPT ![s] = q]
  BY DEF ConvertLock
<1>2. q \in AllRequests
  BY SoundRequests
<1>3. /\ pc[s] = "idle" /\ TablesFree(s)
      /\ pc' = [pc EXCEPT ![s] = "locked"]
      /\ Quiet /\ UNCHANGED pend
  BY DEF ConvertLock, Idle
<1>4. /\ pc \in [Sessions -> {"idle", "shown", "begun", "locked", "written"}]
      /\ request \in [Sessions -> AllRequests \cup {NoRequest}]
      /\ DOMAIN pend = Sessions
  BY DEF Typed, TypeOK
<1>5. Frame /\ Still(s) /\ request'[s] = q /\ pc'[s] = "locked"
  BY <1>1, <1>2, <1>3, <1>4 DEF Frame, Still
<1> QED BY <1>1, <1>2, <1>3, <1>5 DEF Moves, Locks, TakesTableLock

(* Before a locked session writes, everything is checked again.            *)
LEMMA LockedWriteChecks ==
  ASSUME NEW s \in Sessions, LockedWrite(s)
  PROVE  /\ pc[s] = "locked" /\ Write(s) /\ GuidedReady(request[s])
         /\ request[s].way = "guided" => ~stale[s]
BY DEF LockedWrite, ConvertRequisition, RequisitionOrderMCP, RequisitionDraftMCP, ApprovalMCP,
       OrderDraftMCP, WorkflowLifecycleMCP, MasterLifecycle, Confirmed, GuidedReady

LEMMA WriteMoves ==
  ASSUME Typed, NEW s \in Sessions, NativeWrite(s) \/ LockedWrite(s)
  PROVE  Moves(s)
<1>1. /\ pc[s] \in {"begun", "locked"} /\ Write(s)
      /\ pc[s] = "locked" => GuidedReady(request[s])
  BY LockedWriteChecks DEF NativeWrite
<1>2. /\ Room(request[s]) /\ ~Waits(s) /\ Allowed(request[s])
      /\ pend' = [pend EXCEPT ![s] = Effect(request[s])]
      /\ pc' = [pc EXCEPT ![s] = "written"]
      /\ Quiet /\ UNCHANGED request
  BY <1>1 DEF Write
<1>3. Frame /\ Still(s) /\ pc'[s] = "written" /\ pend'[s] = Effect(request[s])
  BY <1>2 DEF Typed, TypeOK, Frame, Still
<1> QED BY <1>1, <1>2, <1>3 DEF Moves, Wrote

LEMMA EndMoves ==
  ASSUME Typed, NEW s \in Sessions, Replay(s) \/ Refuse(s) \/ Rollback(s)
  PROVE  Moves(s)
<1>1. pc[s] # "idle" /\ End(s) /\ Quiet
  <2>1. CASE Replay(s)
    BY <2>1 DEF Replay
  <2>2. CASE Refuse(s)
    BY <2>2 DEF Refuse
  <2>3. CASE Rollback(s)
    BY <2>3 DEF Rollback, InDeadlock, WaitsFor
  <2> QED BY <2>1, <2>2, <2>3
<1> QED BY <1>1, EndIs DEF Moves

(* Both kinds of checks look at the row before they let a request pass.    *)
LEMMA ReadyExists ==
  ASSUME Database, NEW q, Sound(q), NativeReady(q) \/ GuidedReady(q)
  PROVE  /\ ~Creates(q) => Exists(db, q.row)
         /\ q.op \in {"edit", "submit", "decide"} => ~RequisitionIs({"ordered"})
         /\ q.op = "convert" /\ GuidedReady(q) => RequisitionIs({"approved"})
<1>1. ASSUME NativeReady(q)
      PROVE  /\ ~Creates(q) => Exists(db, q.row)
             /\ q.op \in {"edit", "submit", "decide"} => ~RequisitionIs({"ordered"})
  BY <1>1, OrderOpsAre DEF NativeReady, CreateRequisition, CreateRequisitionFromOffer,
     HandleAmazonReturn, UpdateRequisition, SubmitRequisition, DecideRequisition, CreateOrder,
     UpdateOrder, UpdateOrderDraft, UpdateProduct, UpdateSupplier, Creates, Sound, Exists,
     RequisitionIs
<1>2. ASSUME GuidedReady(q)
      PROVE  /\ ~Creates(q) => Exists(db, q.row)
             /\ q.op \in {"edit", "submit", "decide"} => ~RequisitionIs({"ordered"})
             /\ q.op = "convert" => RequisitionIs({"approved"})
  <2>1. CASE ConversionReady(q)
    BY <2>1, OrderOpsAre DEF ConversionReady, RequisitionIs, Sound
  <2>2. CASE RequisitionDraftReady(q)
    BY <2>2, OrderOpsAre DEF RequisitionDraftReady, RequisitionIs, Sound, Creates
  <2>3. CASE RequisitionApprovalReady(q)
    BY <2>3, OrderOpsAre DEF RequisitionApprovalReady, RequisitionIs, Sound
  <2>4. CASE OrderApprovalReady(q)
    BY <2>4, OrderOpsAre DEF OrderApprovalReady, Sound
  <2>5. CASE OrderDraftReady(q)
    BY <2>5, OrderOpsAre DEF OrderDraftReady, Sound, Creates, Exists
  <2>6. CASE WorkflowLifecycleReady(q)
    BY <2>6, OrderOpsAre DEF WorkflowLifecycleReady
  <2>7. CASE MasterLifecycleReady(q)
    BY <2>7, OrderOpsAre DEF MasterLifecycleReady, Exists
  <2> QED BY <1>2, <2>1, <2>2, <2>3, <2>4, <2>5, <2>6, <2>7 DEF GuidedReady
<1> QED BY <1>1, <1>2

Core == Typed /\ Exclusive /\ RowLocks /\ Checked
Tags ==
  /\ stale \in [Sessions -> BOOLEAN]
  /\ key \in [Sessions -> Sessions \cup {"old", "legacy"}]

(* What a transaction writes is well formed.                               *)
LEMMA WroteEffect ==
  ASSUME Core, NEW s \in Sessions, Wrote(s)
  PROVE  /\ Proper(Effect(request[s]))
         /\ ~Creates(request[s]) => request[s].row \in DOMAIN Effect(request[s])
<1>1. Database /\ request[s] \in AllRequests /\ pc[s] \in {"begun", "locked"}
  BY DEF Core, Typed, TypeOK, Database, Wrote
<1>2. Sound(request[s]) /\ Room(request[s])
  BY <1>1, RequestsAreSound DEF Wrote
<1>3. ~Creates(request[s]) => Exists(db, request[s].row)
  <2>1. CASE pc[s] = "begun"
    BY <2>1 DEF Core, Checked
  <2>2. CASE pc[s] = "locked"
    BY <1>1, <1>2, <2>2, ReadyExists DEF Wrote
  <2> QED BY <1>1, <2>1, <2>2
<1> QED BY <1>1, <1>2, <1>3, EffectTyped

LEMMA MovesTyped ==
  ASSUME Core, NEW s \in Sessions, Moves(s), Tags'
  PROVE  Typed'
<1>1. /\ Frame /\ Still(s)
      /\ db' = db /\ made' = made /\ expired' = expired
      /\ Begins(s) \/ Shows(s) \/ Locks(s) \/ Wrote(s) \/ Over(s)
  BY DEF Moves, Quiet
<1>2. Typed /\ TypeOK
  BY DEF Core, Typed
<1>3. \A t \in Sessions : t # s => pc'[t] = pc[t] /\ request'[t] = request[t] /\ pend'[t] = pend[t]
  BY <1>1 DEF Still
<1>4. /\ Proper(pend'[s])
      /\ pc'[s] # "idle" => request'[s] \in AllRequests
      /\ pc'[s] # "written" => DOMAIN pend'[s] = {}
      /\ pc'[s] = "begun" => ~TakesTableLock(request'[s])
      /\ pc'[s] = "shown" => request'[s].way = "guided"
      /\ pc'[s] = "locked" => TakesTableLock(request'[s])
      /\ pc'[s] = "written" /\ ~Creates(request'[s]) => request'[s].row \in DOMAIN pend'[s]
  <2>1. CASE Begins(s)
    BY <1>2, <2>1 DEF Typed, Begins, Proper
  <2>2. CASE Shows(s)
    BY <1>2, <2>2 DEF Typed, Shows, Proper
  <2>3. CASE Locks(s)
    BY <1>2, <2>3 DEF Typed, Locks, Proper
  <2>4. CASE Wrote(s)
    BY <1>2, <2>4, WroteEffect DEF Typed, Wrote
  <2>5. CASE Over(s)
    BY <2>5, ProperNone DEF Over
  <2> QED BY <1>1, <2>1, <2>2, <2>3, <2>4, <2>5
<1>5. TypeOK'
  <2>1. /\ DOMAIN db' = Rows \cup {Punchout}
        /\ \A r \in DOMAIN db' : db'[r] \in RowOf(r) \cup {AbsentRow}
        /\ made' \subseteq OrderIds
        /\ expired' \in BOOLEAN
    BY <1>1, <1>2 DEF TypeOK
  <2>2. \A t \in Sessions : /\ DOMAIN pend'[t] \subseteq DOMAIN db'
                            /\ \A r \in DOMAIN pend'[t] : pend'[t][r] \in RowOf(r)
    <3>1. ASSUME NEW t \in Sessions
          PROVE  /\ DOMAIN pend'[t] \subseteq DOMAIN db'
                 /\ \A r \in DOMAIN pend'[t] : pend'[t][r] \in RowOf(r)
      <4>1. CASE t = s
        BY <1>4, <2>1, <4>1 DEF Proper
      <4>2. CASE t # s
        BY <1>1, <1>2, <1>3, <4>2 DEF TypeOK
      <4> QED BY <4>1, <4>2
    <3> QED BY <3>1
  <2> QED BY <1>1, <2>1, <2>2 DEF TypeOK, Frame, Tags
<1>6. \A t \in Sessions :
        /\ pc'[t] # "idle" => request'[t] \in AllRequests
        /\ pc'[t] # "written" => DOMAIN pend'[t] = {}
        /\ pc'[t] = "begun" => ~TakesTableLock(request'[t])
        /\ pc'[t] = "shown" => request'[t].way = "guided"
        /\ pc'[t] = "locked" => TakesTableLock(request'[t])
        /\ pc'[t] = "written" /\ ~Creates(request'[t]) => request'[t].row \in DOMAIN pend'[t]
  BY <1>2, <1>3, <1>4 DEF Typed
<1> QED BY <1>1, <1>5, <1>6 DEF Typed, Frame

LEMMA MovesExclusive ==
  ASSUME Core, NEW s \in Sessions, Moves(s)
  PROVE  Exclusive'
<1>1. SUFFICES ASSUME NEW a \in Sessions, NEW b \in Sessions, a # b, HoldsTables(a)'
               PROVE  pc'[b] # "written" /\ ~HoldsTables(b)'
  BY DEF Exclusive
<1>2. /\ \A t \in Sessions : t # s => pc'[t] = pc[t] /\ request'[t] = request[t]
      /\ Begins(s) \/ Shows(s) \/ Locks(s) \/ Wrote(s) \/ Over(s)
  BY DEF Moves, Still
<1>3. \A t \in Sessions : t # s => (HoldsTables(t)' <=> HoldsTables(t))
  BY <1>2 DEF HoldsTables
<1>4. \/ ~HoldsTables(s)' /\ pc'[s] # "written"
      \/ \A t \in Sessions : t # s => pc[t] # "written" /\ ~HoldsTables(t)
      \/ ~HoldsTables(s)' /\ \A t \in Sessions : t # s => ~HoldsTables(t)
  <2>1. CASE Begins(s) \/ Shows(s) \/ Over(s)
    BY <2>1 DEF Begins, Shows, Over, HoldsTables
  <2>2. CASE Locks(s)
    BY <2>2 DEF Locks, TablesFree
  <2>3. CASE Wrote(s) /\ pc[s] = "begun"
    <3>1. ~TakesTableLock(request[s]) /\ request'[s] = request[s] /\ ~Waits(s) /\ Room(request[s])
      BY <2>3 DEF Core, Typed, Wrote
    <3>2. \A t \in Sessions : t # s => ~HoldsTables(t)
      BY <2>3, <3>1 DEF Waits, WaitsFor
    <3> QED BY <3>1, <3>2 DEF HoldsTables
  <2>4. CASE Wrote(s) /\ pc[s] = "locked"
    BY <2>4 DEF Core, Typed, Exclusive, HoldsTables
  <2> QED BY <1>2, <2>1, <2>2, <2>3, <2>4 DEF Wrote
<1>5. CASE a = s
  BY <1>1, <1>2, <1>3, <1>4, <1>5
<1>6. CASE b = s
  BY <1>1, <1>2, <1>3, <1>4, <1>6 DEF HoldsTables
<1>7. CASE a # s /\ b # s
  BY <1>1, <1>2, <1>3, <1>7 DEF Core, Exclusive
<1> QED BY <1>5, <1>6, <1>7

LEMMA MovesRowLocks ==
  ASSUME Core, NEW s \in Sessions, Moves(s)
  PROVE  RowLocks'
<1>1. /\ Still(s)
      /\ Begins(s) \/ Shows(s) \/ Locks(s) \/ Wrote(s) \/ Over(s)
  BY DEF Moves
<1>2. \A t \in Sessions : t # s => Held(t)' = Held(t)
  BY <1>1 DEF Still, Held
<1>3. \A t \in Sessions : t # s => Held(s)' \cap Held(t) = {}
  <2>1. CASE Begins(s)
    BY <2>1 DEF Core, Typed, Begins, Held
  <2>2. CASE Shows(s)
    BY <2>2 DEF Core, Typed, Shows, Held
  <2>3. CASE Locks(s)
    BY <2>3 DEF Core, Typed, Locks, Held
  <2>4. CASE Over(s)
    BY <2>4 DEF Over, Held
  <2>5. CASE Wrote(s)
    <3>1. Held(s)' = DOMAIN Effect(request[s])
      BY <2>5 DEF Wrote, Held
    <3>2. \A t \in Sessions : t # s => DOMAIN Effect(request[s]) \cap (Held(t) \cup Shared(t)) = {}
      BY <2>5 DEF Wrote, Waits, WaitsFor
    <3> QED BY <3>1, <3>2
  <2> QED BY <1>1, <2>1, <2>2, <2>3, <2>4, <2>5
<1> QED BY <1>2, <1>3 DEF Core, RowLocks

LEMMA MovesChecked ==
  ASSUME Core, NEW s \in Sessions, Moves(s)
  PROVE  Checked'
<1>1. /\ \A t \in Sessions : t # s => pc'[t] = pc[t] /\ request'[t] = request[t]
      /\ db' = db
      /\ Begins(s) \/ Shows(s) \/ Locks(s) \/ Wrote(s) \/ Over(s)
  BY DEF Moves, Still, Quiet
<1>2. ASSUME pc'[s] = "begun" /\ ~Creates(request'[s])
      PROVE  /\ Exists(db, request'[s].row)
             /\ request'[s].op \in {"edit", "submit", "decide"} => ~RequisitionIs({"ordered"})
  <2>1. Begins(s)
    BY <1>1, <1>2 DEF Shows, Locks, Wrote, Over
  <2>2. Database /\ Sound(request'[s]) /\ NativeReady(request'[s])
    BY <2>1, RequestsAreSound DEF Begins, Core, Typed, TypeOK, Database
  <2> QED BY <1>2, <2>2, ReadyExists
<1> QED BY <1>1, <1>2 DEF Core, Checked, Exists, RequisitionIs

LEMMA MovesCore ==
  ASSUME Core, NEW s \in Sessions, Moves(s), Tags'
  PROVE  Core'
BY MovesTyped, MovesExclusive, MovesRowLocks, MovesChecked DEF Core

-----------------------------------------------------------------------------
(* A commit: it changes the rows its transaction has locked, and no row    *)
(* that exists disappears.                                                 *)
LEMMA CommitIs ==
  ASSUME Core, NEW s \in Sessions, Commit(s)
  PROVE  /\ pc[s] = "written" /\ db' = pend[s] @@ db
         /\ Frame /\ Still(s) /\ Over(s)
         /\ DOMAIN db' = DOMAIN db /\ Held(s) = DOMAIN pend[s]
         /\ \A r \in DOMAIN pend[s] : db'[r] = pend[s][r] /\ Exists(db', r)
         /\ \A r \in DOMAIN db : r \notin DOMAIN pend[s] => db'[r] = db[r]
         /\ \A r \in DOMAIN db : Exists(db, r) => Exists(db', r)
<1>1. pc[s] = "written" /\ db' = pend[s] @@ db /\ End(s)
  BY DEF Commit
<1>2. DOMAIN pend[s] \subseteq DOMAIN db /\ \A r \in DOMAIN pend[s] : pend[s][r].status # "absent"
  BY RowsExist DEF Core, Typed, TypeOK
<1>3. /\ DOMAIN db' = DOMAIN db
      /\ \A r \in DOMAIN pend[s] : db'[r] = pend[s][r]
      /\ \A r \in DOMAIN db : r \notin DOMAIN pend[s] => db'[r] = db[r]
  <2>1. /\ DOMAIN db' = DOMAIN pend[s] \cup DOMAIN db
        /\ \A r \in DOMAIN pend[s] : db'[r] = pend[s][r]
        /\ \A r \in DOMAIN db : r \notin DOMAIN pend[s] => db'[r] = db[r]
    BY <1>1 DEF @@
  <2> QED BY <1>2, <2>1
<1>4. Frame /\ Still(s) /\ Over(s)
  BY <1>1, EndIs DEF Core
<1>5. Held(s) = DOMAIN pend[s]
  BY <1>1 DEF Held
<1> QED BY <1>1, <1>2, <1>3, <1>4, <1>5 DEF Exists

(* What somebody else has locked does not change by a commit.              *)
LEMMA CommitSpares ==
  ASSUME Core, NEW s \in Sessions, Commit(s), NEW t \in Sessions, t # s,
         NEW r \in Held(t) \cap DOMAIN db
  PROVE  db'[r] = db[r]
BY CommitIs DEF Core, RowLocks

LEMMA BegunHolds ==
  ASSUME Core, NEW t \in Sessions, pc[t] = "begun", ~Creates(request[t])
  PROVE  /\ Sound(request[t]) /\ request[t].row \in Held(t) \cap DOMAIN db
         /\ request[t].row \in Rows \cup {Punchout}
         /\ request[t].op \in {"edit", "submit", "decide"} => request[t].row = Requisition
<1>1. request[t] \in AllRequests /\ DOMAIN db = Rows \cup {Punchout}
  BY DEF Core, Typed, TypeOK
<1>2. Sound(request[t]) /\ request[t].row \in Held(t)
  BY <1>1, RequestsAreSound DEF Held
<1>3. request[t].op # "convert"
  BY DEF Core, Typed, TakesTableLock
<1> QED BY <1>1, <1>2, <1>3, RowTypes DEF Sound, Creates

LEMMA CommitTypeOK ==
  ASSUME Core, NEW s \in Sessions, Commit(s)
  PROVE  TypeOK' /\ Tags'
<1>1. TypeOK
  BY DEF Core, Typed
<1>2. \A r \in DOMAIN db' : db'[r] \in RowOf(r) \cup {AbsentRow}
  BY <1>1, CommitIs DEF TypeOK
<1>3. \A t \in Sessions : /\ DOMAIN pend'[t] \subseteq DOMAIN db'
                          /\ \A r \in DOMAIN pend'[t] : pend'[t][r] \in RowOf(r)
  <2>1. ASSUME NEW t \in Sessions
        PROVE  /\ DOMAIN pend'[t] \subseteq DOMAIN db'
               /\ \A r \in DOMAIN pend'[t] : pend'[t][r] \in RowOf(r)
    <3>1. CASE t = s
      BY <3>1, CommitIs DEF Over
    <3>2. CASE t # s
      BY <1>1, <3>2, CommitIs DEF Still, TypeOK
    <3> QED BY <3>1, <3>2
  <2> QED BY <2>1
<1>4. made' \subseteq OrderIds /\ expired' \in BOOLEAN
  BY <1>1 DEF TypeOK, Commit
<1>5. stale' \in [Sessions -> BOOLEAN]
  <2> DEFINE now(t) == /\ t # s /\ pc[t] # "idle"
                       /\ stale[t] \/ Outdates(pend[s], request[t])
  <2>1. stale' = [t \in Sessions |-> now(t)]
    BY DEF Commit
  <2>2. \A t \in Sessions : now(t) \in BOOLEAN
    OBVIOUS
  <2> QED BY <2>1, <2>2
<1>6. key' \in [Sessions -> Sessions \cup {"old", "legacy"}]
  BY <1>1 DEF Commit, TypeOK
<1>7. DOMAIN db' = Rows \cup {Punchout}
  BY <1>1, CommitIs DEF TypeOK
<1> QED BY <1>2, <1>3, <1>4, <1>5, <1>6, <1>7, CommitIs DEF TypeOK, Tags, Frame

LEMMA CommitCore ==
  ASSUME Core, NEW s \in Sessions, Commit(s)
  PROVE  Core'
<1>1. TypeOK' /\ Frame /\ Over(s)
      /\ \A t \in Sessions : t # s => pc'[t] = pc[t] /\ request'[t] = request[t] /\ pend'[t] = pend[t]
  BY CommitIs, CommitTypeOK DEF Still
<1>2. Typed'
  <2>1. ASSUME NEW t \in Sessions
        PROVE  /\ pc'[t] # "idle" => request'[t] \in AllRequests
               /\ pc'[t] # "written" => DOMAIN pend'[t] = {}
               /\ pc'[t] = "begun" => ~TakesTableLock(request'[t])
               /\ pc'[t] = "shown" => request'[t].way = "guided"
               /\ pc'[t] = "locked" => TakesTableLock(request'[t])
               /\ pc'[t] = "written" /\ ~Creates(request'[t]) => request'[t].row \in DOMAIN pend'[t]
    BY <1>1 DEF Core, Typed, Over
  <2> QED BY <1>1, <2>1 DEF Typed, Frame
<1>3. Exclusive'
  BY <1>1 DEF Core, Exclusive, HoldsTables, Over
<1>4. RowLocks'
  <2>1. pc'[s] = "idle" /\ DOMAIN pend'[s] = {}
    BY <1>1 DEF Over
  <2>2. Held(s)' = {}
    BY <2>1 DEF Held
  <2>3. \A t \in Sessions : t # s => Held(t)' = Held(t)
    BY <1>1 DEF Held
  <2> QED BY <2>2, <2>3 DEF Core, RowLocks
<1>5. Checked'
  <2>1. SUFFICES ASSUME NEW t \in Sessions, pc'[t] = "begun", ~Creates(request'[t])
                 PROVE  /\ Exists(db, request[t].row)'
                        /\ request[t].op \in {"edit", "submit", "decide"} => ~RequisitionIs({"ordered"})'
                        /\ request'[t] = request[t]
    BY DEF Checked
  <2>2. t # s /\ pc[t] = "begun" /\ request'[t] = request[t] /\ ~Creates(request[t])
    BY <1>1, <2>1 DEF Over
  <2>3. db'[request[t].row] = db[request[t].row]
    BY <2>2, BegunHolds, CommitSpares
  <2> QED BY <2>2, <2>3, BegunHolds DEF Core, Checked, Exists, RequisitionIs
<1> QED BY <1>2, <1>3, <1>4, <1>5 DEF Core

(* The PunchOut session is the only row that changes without a transaction *)
(* of a session.                                                           *)
LEMMA StartIs ==
  ASSUME Core, NEW user \in Buyers, StartAmazonPunchout(user)
  PROVE  /\ DOMAIN db' = DOMAIN db /\ \A r \in Rows : db'[r] = db[r]
         /\ db'[Punchout] \in PunchoutRow /\ db'[Punchout].status # "returned"
         /\ ~Exists(db, Punchout) /\ Unused(Requisition)
         /\ UNCHANGED <<pc, request, pend, stale, key, made, expired>>
<1>1. user \in Users
  BY SoundRequests DEF Buyers, Sound
<1>2. PICK answer \in {"started", "failed"} :
        db' = [db EXCEPT ![Punchout] = [status |-> answer, user |-> user]]
  BY DEF StartAmazonPunchout
<1>3. DOMAIN db = Rows \cup {Punchout}
  BY DEF Core, Typed, TypeOK
<1>4. db'[Punchout] = [status |-> answer, user |-> user]
  BY <1>2, <1>3
<1> QED BY <1>1, <1>2, <1>3, <1>4, RowTypes DEF StartAmazonPunchout, PunchoutRow

LEMMA StartCore ==
  ASSUME Core, NEW user \in Buyers, StartAmazonPunchout(user)
  PROVE  Core'
<1>1. /\ DOMAIN db' = DOMAIN db /\ \A r \in Rows : db'[r] = db[r]
      /\ db'[Punchout] \in PunchoutRow
      /\ ~Exists(db, Punchout)
      /\ UNCHANGED <<pc, request, pend, stale, key, made, expired>>
  BY StartIs
<1>2. TypeOK'
  <2>1. \A r \in DOMAIN db' : db'[r] \in RowOf(r) \cup {AbsentRow}
    BY <1>1, RowTypes DEF Core, Typed, TypeOK
  <2> QED BY <1>1, <2>1 DEF Core, Typed, TypeOK
<1>3. Typed'
  BY <1>1, <1>2 DEF Core, Typed
<1>4. Exclusive' /\ RowLocks'
  BY <1>1 DEF Core, Exclusive, RowLocks, HoldsTables, Held
<1>5. Checked'
  <2>1. SUFFICES ASSUME NEW t \in Sessions, pc[t] = "begun", ~Creates(request[t])
                 PROVE  /\ Exists(db, request[t].row)'
                        /\ request[t].op \in {"edit", "submit", "decide"} => ~RequisitionIs({"ordered"})'
    BY <1>1 DEF Checked
  <2>2. request[t].row \in Rows
    BY <1>1, <2>1, BegunHolds DEF Core, Checked
  <2> QED BY <1>1, <2>1, <2>2, RowTypes DEF Core, Checked, Exists, RequisitionIs
<1> QED BY <1>3, <1>4, <1>5 DEF Core

-----------------------------------------------------------------------------
(* Only a conversion makes the requisition "ordered" and nothing undoes    *)
(* it; no write moves an order to another requisition.                     *)
LEMMA ConversionWrites ==
  ASSUME Database, NEW q, Sound(q), Room(q), q.op = "convert", Exists(db, Requisition)
  PROVE  /\ Requisition \in DOMAIN Effect(q) /\ Effect(q)[Requisition].status = "ordered"
         /\ \E o \in OrderIds :
               DOMAIN Effect(q) \cap OrderIds = {o} /\ Effect(q)[o].requisition = Requisition
<1> DEFINE b == [db[Requisition] EXCEPT !.status = "ordered"]
           c == [status |-> "draft", archived |-> FALSE,
                 requisition |-> Requisition,
                 product |-> db[Requisition].product,
                 supplier |-> q.supplier,
                 amazon |-> db[Requisition].amazon]
<1>1. Effect(q) = (Requisition :> b) @@ (NewOrder :> c)
  BY OrderOpsAre DEF Effect, Conversion
<1>2. NewOrder \in OrderIds /\ Requisition \notin OrderIds
  BY RowTypes DEF Room, NewOrder
<1>3. db[Requisition] \in RequisitionRow
  BY RowsExist, RowTypes
<1>4. b.status = "ordered" /\ c.requisition = Requisition
  BY <1>3 DEF RequisitionRow
<1> HIDE DEF b, c
<1>5. /\ DOMAIN Effect(q) = {Requisition, NewOrder}
      /\ Effect(q)[Requisition] = b /\ Effect(q)[NewOrder] = c
  BY <1>1, <1>2 DEF @@, :>
<1> QED BY <1>2, <1>4, <1>5

LEMMA OtherWrites ==
  ASSUME Database, NEW q, Sound(q), Room(q), q.op # "convert",
         ~Creates(q) => Exists(db, q.row),
         q.op \in {"edit", "submit", "decide"} => ~RequisitionIs({"ordered"})
  PROVE  /\ Requisition \in DOMAIN Effect(q) =>
               (Effect(q)[Requisition].status = "ordered" <=> RequisitionIs({"ordered"}))
         /\ \A o \in DOMAIN Effect(q) \cap OrderIds :
               Exists(db, o) => Effect(q)[o].requisition = db[o].requisition
<1>1. \A r \in Rows \cup {Punchout} : Exists(db, r) => db[r] \in RowOf(r)
  BY RowsExist
<1>2. CASE q.op = "create"
  <2>1. Effect(q) = Requisition :> NewRequisition(q)
    BY <1>2, OrderOpsAre DEF Effect
  <2>2. DOMAIN Effect(q) = {Requisition} /\ Effect(q)[Requisition] = NewRequisition(q)
    BY <2>1 DEF :>
  <2> QED BY <1>2, <2>2, RowTypes DEF NewRequisition, Room, Unused, RequisitionIs
<1>3. CASE q.op = "offer"
  <2> DEFINE p == IF Exists(db, q.value) THEN << >> ELSE q.value :> [status |-> "active"]
             n == NewRequisition(q)
  <2>1. Effect(q) = (Requisition :> n) @@ p
    BY <1>3, OrderOpsAre DEF Effect
  <2>2. q.value \in Masters
    BY <1>3, RowTypes DEF Sound
  <2>3. DOMAIN p \cap Workflows = {}
    BY <2>2, RowTypes DEF Workflows, :>
  <2>4. n.status = "draft"
    BY DEF NewRequisition
  <2> HIDE DEF p, n
  <2>5. Effect(q)[Requisition] = n /\ DOMAIN Effect(q) \cap OrderIds = {}
    BY <2>1, <2>3, RowTypes DEF @@, :>, Workflows
  <2> QED BY <1>3, <2>4, <2>5 DEF Room, Unused, RequisitionIs
<1>4. CASE q.op = "basket"
  <2> DEFINE a == IF Exists(db, AmazonSupplier) THEN << >> ELSE AmazonSupplier :> [status |-> "active"]
             b == [status |-> "draft", archived |-> FALSE,
                   requester |-> db[Punchout].user, product |-> NoProduct,
                   supplier |-> AmazonSupplier, amazon |-> TRUE]
             c == [db[Punchout] EXCEPT !.status = "returned"]
  <2>1. Effect(q) = (Requisition :> b) @@ (Punchout :> c) @@ a
    BY <1>4, OrderOpsAre DEF Effect, Basket
  <2>2. AmazonSupplier \in Masters /\ Punchout \notin Rows
    BY SessionsAssumption, RowTypes
  <2>3. DOMAIN a \cap Workflows = {}
    BY <2>2, RowTypes DEF Workflows, :>
  <2>4. b.status = "draft"
    OBVIOUS
  <2> HIDE DEF a, b, c
  <2>5. Effect(q)[Requisition] = b /\ DOMAIN Effect(q) \cap OrderIds = {}
    <3>1. DOMAIN Effect(q) = {Requisition, Punchout} \cup DOMAIN a /\ Effect(q)[Requisition] = b
      BY <2>1 DEF @@, :>
    <3>2. Requisition \notin OrderIds /\ Punchout \notin OrderIds /\ OrderIds \subseteq Workflows
      BY <2>2, RowTypes DEF Workflows
    <3> QED BY <2>3, <3>1, <3>2
  <2> QED BY <1>4, <2>4, <2>5 DEF Room, Unused, RequisitionIs
<1>5. CASE q.op \in {"edit", "submit", "decide"}
  <2>1. q.row = Requisition /\ db[Requisition] \in RequisitionRow
    BY <1>1, <1>5, OrderOpsAre, RowTypes DEF Sound, Creates
  <2>2. \E row : Effect(q) = Requisition :> row /\ row.status # "ordered"
    <3>1. CASE q.op = "edit"
      <4>1. [db[Requisition] EXCEPT !.status = "draft", !.product = q.value, !.supplier = q.supplier].status = "draft"
        BY <2>1 DEF RequisitionRow
      <4> QED BY <3>1, <4>1, OrderOpsAre DEF Effect
    <3>2. CASE q.op = "submit"
      <4>1. [db[Requisition] EXCEPT !.status = "submitted"].status = "submitted"
        BY <2>1 DEF RequisitionRow
      <4> QED BY <3>2, <4>1, OrderOpsAre DEF Effect
    <3>3. CASE q.op = "decide"
      <4>1. [db[Requisition] EXCEPT !.status = q.value].status = q.value
        BY <2>1 DEF RequisitionRow
      <4>2. q.value # "ordered"
        BY <3>3 DEF Sound
      <4> QED BY <3>3, <4>1, <4>2, OrderOpsAre DEF Effect
    <3> QED BY <1>5, <3>1, <3>2, <3>3
  <2>3. PICK row : Effect(q) = Requisition :> row /\ row.status # "ordered"
    BY <2>2
  <2>4. DOMAIN Effect(q) = {Requisition} /\ Effect(q)[Requisition] = row
    BY <2>3 DEF :>
  <2> QED BY <1>5, <2>3, <2>4, RowTypes
<1>6. CASE q.op \in OrderOps
  <2>1. Effect(q) = PlacedOrder(q)
    BY <1>6, OrderOpsAre DEF Effect
  <2>2. NewOrder \in OrderIds /\ Unused(NewOrder)
    BY <1>6 DEF Room, NewOrder
  <2>3. DOMAIN Effect(q) = {NewOrder}
    BY <2>1 DEF PlacedOrder, :>
  <2> QED BY <2>2, <2>3, RowTypes DEF Unused
<1>7. CASE q.op \in {"redraft", "move"}
  <2>1. q.row \in OrderIds /\ db[q.row] \in OrderRow
    BY <1>1, <1>7, OrderOpsAre, RowTypes DEF Sound, Creates
  <2>2. \E row : Effect(q) = q.row :> row /\ row.requisition = db[q.row].requisition
    <3>1. CASE q.op = "redraft"
      <4>1. [db[q.row] EXCEPT !.product = q.value, !.supplier = q.supplier].requisition = db[q.row].requisition
        BY <2>1 DEF OrderRow
      <4> QED BY <3>1, <4>1, OrderOpsAre DEF Effect
    <3>2. CASE q.op = "move"
      <4>1. [db[q.row] EXCEPT !.status = q.value].requisition = db[q.row].requisition
        BY <2>1 DEF OrderRow
      <4> QED BY <3>2, <4>1, OrderOpsAre DEF Effect
    <3> QED BY <1>7, <3>1, <3>2
  <2>3. PICK row : Effect(q) = q.row :> row /\ row.requisition = db[q.row].requisition
    BY <2>2
  <2>4. DOMAIN Effect(q) = {q.row} /\ Effect(q)[q.row] = row
    BY <2>3 DEF :>
  <2> QED BY <2>1, <2>3, <2>4, RowTypes
<1>8. CASE q.op = "rename"
  <2>1. q.row \in Masters /\ Effect(q) = q.row :> db[q.row]
    BY <1>8, OrderOpsAre DEF Effect, Sound
  <2>2. DOMAIN Effect(q) = {q.row}
    BY <2>1 DEF :>
  <2> QED BY <2>1, <2>2, RowTypes
<1>9. CASE q.op \in {"archive", "restore"}
  <2>1. q.row \in Rows /\ Effect(q) = Lifecycle(q) /\ db[q.row] \in RowOf(q.row) /\ Exists(db, q.row)
    BY <1>1, <1>9, OrderOpsAre DEF Effect, Sound, Creates
  <2>2. CASE q.row \in Masters
    <3>1. DOMAIN Effect(q) = {q.row}
      BY <2>1 DEF Lifecycle, :>
    <3> QED BY <2>2, <3>1, RowTypes
  <2>3. CASE q.row \in Workflows
    <3> DEFINE b == q.op = "archive"
               row == [db[q.row] EXCEPT !.archived = b]
    <3>1. q.row \notin Masters
      BY <2>3, RowTypes DEF Workflows
    <3>2. Effect(q) = q.row :> row
      BY <2>1, <3>1 DEF Lifecycle
    <3> HIDE DEF b
    <3>3. row.status = db[q.row].status /\ row.requisition = db[q.row].requisition
      <4>1. CASE q.row = Requisition
        BY <2>1, <4>1, RowTypes DEF RequisitionRow
      <4>2. CASE q.row \in OrderIds
        <5>1. db[q.row] \in OrderRow
          BY <2>1, <4>2, RowTypes
        <5> QED BY <5>1 DEF OrderRow
      <4> QED BY <2>3, <4>1, <4>2 DEF Workflows
    <3> HIDE DEF row
    <3>4. DOMAIN Effect(q) = {q.row} /\ Effect(q)[q.row] = row
      BY <3>2 DEF :>
    <3> QED BY <2>1, <3>3, <3>4 DEF RequisitionIs
  <2> QED BY <2>1, <2>2, <2>3 DEF Rows
<1> QED BY <1>2, <1>3, <1>4, <1>5, <1>6, <1>7, <1>8, <1>9 DEF Sound

(* What open transactions will do to the requisition and its orders.       *)
Converting(w) ==
  /\ made = {}
  /\ Requisition \in DOMAIN w /\ w[Requisition].status = "ordered"
  /\ \E o \in OrderIds : DOMAIN w \cap OrderIds = {o} /\ w[o].requisition = Requisition
NotConverting(w) ==
  /\ Requisition \in DOMAIN w =>
       (w[Requisition].status = "ordered" <=> RequisitionIs({"ordered"}))
  /\ \A o \in DOMAIN w \cap made : w[o].requisition = Requisition
Made ==
  /\ ConvertedOnce
  /\ \A o \in made : Exists(db, o)
  /\ \A s \in Sessions : pc[s] = "written" =>
       /\ request[s].op = "convert" => Converting(pend[s])
       /\ request[s].op # "convert" => NotConverting(pend[s])

LEMMA WroteMade ==
  ASSUME Core, Made, NEW s \in Sessions, Wrote(s)
  PROVE  /\ request[s].op = "convert" => Converting(Effect(request[s]))
         /\ request[s].op # "convert" => NotConverting(Effect(request[s]))
<1>1. Database /\ request[s] \in AllRequests /\ pc[s] \in {"begun", "locked"}
  BY DEF Core, Typed, TypeOK, Database, Wrote
<1>2. Sound(request[s]) /\ Room(request[s])
  BY <1>1, RequestsAreSound DEF Wrote
<1>3. /\ ~Creates(request[s]) => Exists(db, request[s].row)
      /\ request[s].op \in {"edit", "submit", "decide"} => ~RequisitionIs({"ordered"})
      /\ request[s].op = "convert" => RequisitionIs({"approved"})
  <2>1. CASE pc[s] = "begun"
    <3>1. request[s].op # "convert"
      BY <2>1 DEF Core, Typed, TakesTableLock
    <3>2. request[s].op \in {"edit", "submit", "decide"} => ~Creates(request[s])
      BY OrderOpsAre DEF Creates
    <3> QED BY <2>1, <3>1, <3>2 DEF Core, Checked
  <2>2. CASE pc[s] = "locked"
    BY <1>2, <1>1, <2>2, ReadyExists DEF Wrote
  <2> QED BY <1>1, <2>1, <2>2
<1>4. CASE request[s].op = "convert"
  <2>1. RequisitionIs({"approved"})
    BY <1>3, <1>4
  <2>2. Exists(db, Requisition) /\ made = {}
    BY <2>1 DEF RequisitionIs, Made, ConvertedOnce
  <2> QED BY <1>1, <1>2, <1>4, <2>2, ConversionWrites DEF Converting
<1>5. CASE request[s].op # "convert"
  <2>1. /\ Requisition \in DOMAIN Effect(request[s]) =>
             (Effect(request[s])[Requisition].status = "ordered" <=> RequisitionIs({"ordered"}))
        /\ \A o \in DOMAIN Effect(request[s]) \cap OrderIds :
             Exists(db, o) => Effect(request[s])[o].requisition = db[o].requisition
    BY <1>1, <1>2, <1>3, <1>5, OtherWrites
  <2>2. \A o \in made : o \in OrderIds /\ Exists(db, o) /\ db[o].requisition = Requisition
    BY DEF Core, Typed, TypeOK, Made, ConvertedOnce
  <2> QED BY <1>5, <2>1, <2>2 DEF NotConverting
<1> QED BY <1>4, <1>5

LEMMA MovesMade ==
  ASSUME Core, Made, NEW s \in Sessions, Moves(s)
  PROVE  Made'
<1>1. /\ db' = db /\ made' = made
      /\ \A t \in Sessions : t # s =>
           pc'[t] = pc[t] /\ request'[t] = request[t] /\ pend'[t] = pend[t]
      /\ Begins(s) \/ Shows(s) \/ Locks(s) \/ Wrote(s) \/ Over(s)
  BY DEF Moves, Still, Quiet
<1>2. ConvertedOnce' /\ \A o \in made' : Exists(db, o)'
  BY <1>1 DEF Made, ConvertedOnce, RequisitionIs, Exists
<1>4. pc'[s] = "written" =>
        /\ request'[s].op = "convert" => Converting(pend'[s])
        /\ request'[s].op # "convert" => NotConverting(pend'[s])
  <2>1. CASE Wrote(s)
    BY <2>1, WroteMade DEF Wrote
  <2> QED BY <1>1, <2>1 DEF Begins, Shows, Locks, Over
<1>5. ASSUME NEW t \in Sessions, pc'[t] = "written"
      PROVE  /\ request'[t].op = "convert" => Converting(pend[t])'
             /\ request'[t].op # "convert" => NotConverting(pend[t])'
  <2>1. /\ request'[t].op = "convert" => Converting(pend'[t])
        /\ request'[t].op # "convert" => NotConverting(pend'[t])
    BY <1>1, <1>4, <1>5 DEF Made
  <2>2. CASE request'[t].op = "convert"
    BY <1>1, <2>1, <2>2 DEF Converting
  <2>3. CASE request'[t].op # "convert"
    BY <1>1, <2>1, <2>3 DEF NotConverting, RequisitionIs, Exists
  <2> QED BY <2>2, <2>3
<1> QED BY <1>2, <1>5 DEF Made

LEMMA CommitMade ==
  ASSUME Core, Made, NEW s \in Sessions, Commit(s)
  PROVE  Made'
<1>1. /\ pc[s] = "written" /\ Still(s) /\ Over(s)
      /\ \A r \in DOMAIN pend[s] : db'[r] = pend[s][r] /\ Exists(db', r)
      /\ \A r \in DOMAIN db : r \notin DOMAIN pend[s] => db'[r] = db[r]
      /\ \A r \in DOMAIN db : Exists(db, r) => Exists(db', r)
  BY CommitIs
<1>2. /\ made \subseteq OrderIds /\ made \subseteq DOMAIN db
      /\ Requisition \in DOMAIN db /\ Requisition \notin OrderIds
  BY RowTypes DEF Core, Typed, TypeOK
<1>3. ASSUME NEW t \in Sessions, pc'[t] = "written"
      PROVE  t # s /\ pc[t] = "written" /\ request'[t] = request[t] /\ pend'[t] = pend[t]
  BY <1>1, <1>3 DEF Still, Over
<1>4. CASE request[s].op = "convert"
  <2>1. Converting(pend[s]) /\ made' = DOMAIN pend[s] \cap OrderIds
    BY <1>1, <1>4 DEF Made, Converting, Commit
  <2>2. PICK o \in OrderIds : DOMAIN pend[s] \cap OrderIds = {o} /\ pend[s][o].requisition = Requisition
    BY <2>1 DEF Converting
  <2>3. /\ made' = {o} /\ db'[o].requisition = Requisition /\ Exists(db', o)
        /\ Exists(db', Requisition) /\ db'[Requisition].status = "ordered"
    BY <1>1, <2>1, <2>2 DEF Converting
  <2>4. ConvertedOnce' /\ \A p \in made' : Exists(db, p)'
    BY <2>3 DEF ConvertedOnce, RequisitionIs, Exists
  <2>5. \A t \in Sessions : pc'[t] # "written"
    <3>1. HoldsTables(s)
      BY <1>1, <1>4 DEF HoldsTables, TakesTableLock
    <3> QED BY <1>3, <3>1 DEF Core, Exclusive
  <2> QED BY <2>4, <2>5 DEF Made
<1>5. CASE request[s].op # "convert"
  <2>1. NotConverting(pend[s]) /\ made' = made
    BY <1>1, <1>5 DEF Made, Commit
  <2>2. RequisitionIs({"ordered"})' <=> RequisitionIs({"ordered"})
    BY <1>1, <1>2, <2>1 DEF NotConverting, RequisitionIs, Exists
  <2>3. \A o \in made : db'[o].requisition = Requisition /\ Exists(db', o)
    BY <1>1, <1>2, <2>1 DEF NotConverting, Made, ConvertedOnce
  <2>4. ConvertedOnce' /\ \A o \in made' : Exists(db, o)'
    BY <2>1, <2>2, <2>3 DEF Made, ConvertedOnce, Exists
  <2>5. ASSUME NEW t \in Sessions, pc'[t] = "written"
        PROVE  request'[t].op # "convert" /\ NotConverting(pend[t])'
    <3>1. t # s /\ pc[t] = "written" /\ request'[t] = request[t] /\ pend'[t] = pend[t]
      BY <1>3, <2>5
    <3>2. request[t].op # "convert"
      BY <1>1, <3>1 DEF Core, Exclusive, HoldsTables, TakesTableLock
    <3>3. NotConverting(pend[t])
      BY <3>1, <3>2 DEF Made
    <3> QED BY <2>1, <2>2, <3>1, <3>2, <3>3 DEF NotConverting
  <2> QED BY <2>4, <2>5 DEF Made
<1> QED BY <1>4, <1>5

LEMMA StartMade ==
  ASSUME Core, Made, NEW user \in Buyers, StartAmazonPunchout(user)
  PROVE  Made'
<1>1. /\ \A r \in Rows : db'[r] = db[r]
      /\ UNCHANGED <<pc, request, pend, stale, key, made, expired>>
  BY StartIs
<1>2. made \subseteq Rows /\ Requisition \in Rows
  BY RowTypes DEF Core, Typed, TypeOK
<1> QED BY <1>1, <1>2 DEF Made, ConvertedOnce, Converting, NotConverting, RequisitionIs, Exists

-----------------------------------------------------------------------------
(* Only a preview not yet confirmed can be outdated by others, and a key   *)
(* is confirmed once.                                                      *)
Fresh ==
  \A s \in Sessions :
    /\ pc[s] \in {"idle", "begun", "written"} => ~stale[s]
    /\ pc[s] = "locked" /\ request[s].way # "guided" => ~stale[s]
Keyed ==
  \A s \in Sessions :
    /\ pc[s] \in {"locked", "written"} /\ request[s].way = "guided" => key[s] \in Sessions
    /\ pc[s] = "shown" /\ key[s] = "legacy" => \/ key[s] \in Sessions
                                               \/ LegacyApproval(s)
                                               \/ LegacyRequisitionDraft(s)
                                               \/ LegacyOrderDraft(s)

(* How the marks of one session change together with its place.            *)
Marks(s) ==
  /\ Tags'
  /\ \A t \in Sessions : t # s => stale'[t] = stale[t] /\ key'[t] = key[t]
  /\ pc'[s] \in {"idle", "begun", "written"} => ~stale'[s]
  /\ pc'[s] = "locked" /\ request'[s].way # "guided" => ~stale'[s]
  /\ pc'[s] \in {"locked", "written"} /\ request'[s].way = "guided" => key'[s] \in Sessions
  /\ pc'[s] = "shown" /\ key'[s] = "legacy" => \/ key'[s] \in Sessions
                                               \/ LegacyApproval(s)'
                                               \/ LegacyRequisitionDraft(s)'
                                               \/ LegacyOrderDraft(s)'

LEMMA MarksKeep ==
  ASSUME Fresh, Keyed, NEW s \in Sessions, Still(s), Marks(s)
  PROVE  Fresh' /\ Keyed'
<1>1. Fresh'
  BY DEF Fresh, Still, Marks
<1>2. Keyed'
  <2>1. SUFFICES ASSUME NEW t \in Sessions
                 PROVE  /\ pc'[t] \in {"locked", "written"} /\ request'[t].way = "guided" => key'[t] \in Sessions
                        /\ pc'[t] = "shown" /\ key'[t] = "legacy" =>
                              \/ key'[t] \in Sessions
                              \/ LegacyApproval(t)'
                              \/ LegacyRequisitionDraft(t)'
                              \/ LegacyOrderDraft(t)'
    BY DEF Keyed
  <2>2. CASE t = s
    BY <2>2 DEF Marks
  <2>3. CASE t # s
    BY <2>3 DEF Still, Marks, Keyed, LegacyApproval, LegacyRequisitionDraft, LegacyOrderDraft
  <2> QED BY <2>2, <2>3
<1> QED BY <1>1, <1>2

IInv == Core /\ Made /\ Fresh /\ Keyed

LEMMA InitMarks ==
  ASSUME IInv
  PROVE  /\ Tags
         /\ pc \in [Sessions -> {"idle", "shown", "begun", "locked", "written"}]
         /\ request \in [Sessions -> AllRequests \cup {NoRequest}]
BY DEF IInv, Core, Typed, TypeOK, Tags

LEMMA NativeBeginMarks ==
  ASSUME IInv, NEW s \in Sessions, NativeBegin(s)
  PROVE  Marks(s)
BY InitMarks DEF NativeBegin, Marks, Tags, IInv, Fresh, Idle

LEMMA PreviewMarks ==
  ASSUME IInv, NEW s \in Sessions, Preview(s)
  PROVE  Marks(s)
<1>1. PICK q \in Requests[s], k \in {s, "legacy"} :
        /\ k = "legacy" => q.op \in {"create", "edit", "submit", "decide",
                                     "move", "order", "redraft"}
        /\ request' = [request EXCEPT ![s] = q]
        /\ key' = [key EXCEPT ![s] = k]
  BY DEF Preview
<1>2. pc' = [pc EXCEPT ![s] = "shown"] /\ stale' = stale
  BY DEF Preview
<1>3. pc'[s] = "shown" /\ request'[s] = q /\ key'[s] = k
  BY <1>1, <1>2, InitMarks DEF Tags
<1>4. Tags' /\ \A t \in Sessions : t # s => stale'[t] = stale[t] /\ key'[t] = key[t]
  BY <1>1, <1>2, InitMarks DEF Tags
<1> QED BY <1>1, <1>3, <1>4 DEF Marks, LegacyApproval, LegacyRequisitionDraft, LegacyOrderDraft

LEMMA RepeatMarks ==
  ASSUME IInv, NEW s \in Sessions, NEW t \in Sessions, Repeat(s, t)
  PROVE  Marks(t)
<1>1. /\ pc[t] = "idle" /\ pc[s] # "idle" /\ request[s].way = "guided"
      /\ pc' = [pc EXCEPT ![t] = "shown"]
      /\ request' = [request EXCEPT ![t] = request[s]]
      /\ stale' = [stale EXCEPT ![t] = stale[s]]
      /\ key' = [key EXCEPT ![t] = key[s]]
  BY DEF Repeat, Idle
<1>2. pc'[t] = "shown" /\ request'[t] = request[s] /\ key'[t] = key[s]
  BY <1>1, InitMarks DEF Tags
<1>3. Tags' /\ \A u \in Sessions : u # t => stale'[u] = stale[u] /\ key'[u] = key[u]
  BY <1>1, InitMarks DEF Tags
<1>4. key[s] = "legacy" => \/ key[s] \in Sessions
                           \/ LegacyApproval(s)
                           \/ LegacyRequisitionDraft(s)
                           \/ LegacyOrderDraft(s)
  <2>1. pc[s] \in {"shown", "begun", "locked", "written"}
    BY <1>1, InitMarks
  <2>2. pc[s] # "begun" \/ request[s].way # "guided"
    BY DEF IInv, Core, Typed, TakesTableLock
  <2> QED BY <1>1, <2>1, <2>2 DEF IInv, Keyed
<1> QED BY <1>2, <1>3, <1>4 DEF Marks, LegacyApproval, LegacyRequisitionDraft, LegacyOrderDraft

LEMMA LockMarks ==
  ASSUME IInv, NEW s \in Sessions, GuidedLock(s) \/ ConvertLock(s)
  PROVE  Marks(s)
<1>1. CASE GuidedLock(s)
  <2>1. /\ pc[s] = "shown" /\ ~Answered(s)
        /\ pc' = [pc EXCEPT ![s] = "locked"]
        /\ request' = request /\ stale' = stale /\ key' = key
    BY <1>1 DEF GuidedLock
  <2>2. pc'[s] = "locked" /\ request[s].way = "guided"
    BY <2>1, InitMarks DEF IInv, Core, Typed
  <2>3. key[s] \in Sessions
    BY <2>1, InitMarks DEF IInv, Keyed, Answered, Tags
  <2> QED BY <2>1, <2>2, <2>3, InitMarks DEF Marks, Tags
<1>2. CASE ConvertLock(s)
  <2>1. PICK q \in Requests[s] : q.way = "native" /\ request' = [request EXCEPT ![s] = q]
    BY <1>2 DEF ConvertLock
  <2>2. /\ pc[s] = "idle" /\ pc' = [pc EXCEPT ![s] = "locked"]
        /\ stale' = stale /\ key' = key
    BY <1>2 DEF ConvertLock, Idle
  <2> QED BY <2>1, <2>2, InitMarks DEF Marks, Tags, IInv, Fresh
<1> QED BY <1>1, <1>2

LEMMA WriteMarks ==
  ASSUME IInv, NEW s \in Sessions, NativeWrite(s) \/ LockedWrite(s)
  PROVE  Marks(s)
<1>1. /\ pc[s] \in {"begun", "locked"} /\ Write(s)
      /\ pc[s] = "locked" /\ request[s].way = "guided" => ~stale[s]
  BY LockedWriteChecks DEF NativeWrite
<1>2. /\ pc' = [pc EXCEPT ![s] = "written"]
      /\ request' = request /\ stale' = stale /\ key' = key
  BY <1>1 DEF Write
<1>3. ~stale[s]
  BY <1>1 DEF IInv, Fresh
<1>4. request[s].way = "guided" => key[s] \in Sessions
  BY <1>1 DEF IInv, Core, Typed, TakesTableLock, Keyed
<1> QED BY <1>2, <1>3, <1>4, InitMarks DEF Marks, Tags

LEMMA EndMarks ==
  ASSUME IInv, NEW s \in Sessions, Replay(s) \/ Refuse(s) \/ Rollback(s)
  PROVE  Marks(s)
<1>1. End(s) /\ Reset(s)
  BY DEF Replay, Refuse, Rollback
<1> QED BY <1>1, InitMarks DEF End, Reset, Marks, Tags

(* A commit outdates previews only: what another browser has locked, or    *)
(* has written, is not what is committed.                                  *)
LEMMA CommitMarks ==
  ASSUME IInv, NEW s \in Sessions, Commit(s)
  PROVE  Fresh' /\ Keyed'
<1>1. Core
  BY DEF IInv
<1>2. /\ pc[s] = "written" /\ Held(s) = DOMAIN pend[s]
      /\ pc'[s] = "idle"
      /\ \A t \in Sessions : t # s => pc'[t] = pc[t] /\ request'[t] = request[t]
  BY <1>1, CommitIs DEF Still, Over
<1>3. \A t \in Sessions :
        /\ stale'[t] <=> /\ t # s /\ pc[t] # "idle"
                         /\ stale[t] \/ Outdates(pend[s], request[t])
        /\ key'[t] = IF t = s THEN s
                     ELSE IF key[t] = key[s] /\ pc[t] # "idle" THEN "old" ELSE key[t]
  BY DEF Commit
<1>4. ASSUME NEW t \in Sessions, t # s, pc[t] \in {"locked", "written"}, TakesTableLock(request[t])
      PROVE  FALSE
  BY <1>1, <1>2, <1>4 DEF Core, Exclusive, HoldsTables
<1>5. ASSUME NEW t \in Sessions, t # s, pc[t] \in {"begun", "written"}
      PROVE  ~Outdates(pend[s], request[t])
  <2>1. ~TakesTableLock(request[t])
    BY <1>1, <1>4, <1>5 DEF Core, Typed
  <2>2. ReadByUI(request[t]) \subseteq Held(t)
    BY <1>1, <1>5 DEF ReadByUI, Held, Core, Typed
  <2>3. DOMAIN pend[s] \cap ReadByUI(request[t]) = {}
    BY <1>1, <1>2, <1>5, <2>2 DEF Core, RowLocks
  <2>4. \A d : Context(d, request[t]) = ReadByUI(request[t])
    BY <2>1 DEF Context
  <2> QED BY <2>3, <2>4 DEF Outdates
<1>6. \A t \in Sessions : pc[t] = "locked" => TakesTableLock(request[t])
  BY <1>1 DEF Core, Typed
<1>7. Fresh'
  <2>1. SUFFICES ASSUME NEW t \in Sessions
                 PROVE  /\ pc'[t] \in {"idle", "begun", "written"} => ~stale'[t]
                        /\ pc'[t] = "locked" /\ request'[t].way # "guided" => ~stale'[t]
    BY DEF Fresh
  <2>2. CASE t = s
    BY <1>3, <2>2
  <2>3. CASE t # s
    <3>1. pc[t] \in {"begun", "written"} => ~stale[t]
      BY DEF IInv, Fresh
    <3>2. pc[t] = "locked" => FALSE
      BY <1>4, <1>6, <2>3
    <3> QED BY <1>2, <1>3, <1>5, <2>3, <3>1, <3>2
  <2> QED BY <2>2, <2>3
<1>8. Keyed'
  <2>1. SUFFICES ASSUME NEW t \in Sessions
                 PROVE  /\ pc'[t] \in {"locked", "written"} /\ request'[t].way = "guided" => key'[t] \in Sessions
                        /\ pc'[t] = "shown" /\ key'[t] = "legacy" =>
                              \/ key'[t] \in Sessions
                              \/ LegacyApproval(t)'
                              \/ LegacyRequisitionDraft(t)'
                              \/ LegacyOrderDraft(t)'
    BY DEF Keyed
  <2>2. CASE t = s
    BY <1>2, <1>3, <2>2
  <2>3. CASE t # s
    <3>1. ~(pc'[t] \in {"locked", "written"} /\ request'[t].way = "guided")
      BY <1>2, <1>4, <2>3 DEF TakesTableLock
    <3>2. pc'[t] = "shown" /\ key'[t] = "legacy" => pc[t] = "shown" /\ key[t] = "legacy"
      BY <1>2, <1>3, <2>3
    <3>3. request'[t] = request[t]
      BY <1>2, <2>3
    <3> QED BY <1>3, <3>1, <3>2, <3>3 DEF IInv, Keyed, LegacyApproval, LegacyRequisitionDraft,
            LegacyOrderDraft
  <2> QED BY <2>2, <2>3
<1> QED BY <1>7, <1>8

-----------------------------------------------------------------------------
LEMMA InitIInv == Init => IInv
<1>1. SUFFICES ASSUME Init PROVE IInv
  OBVIOUS
<1>2. TypeOK
  <2>1. db = [r \in Rows \cup {Punchout} |->
                IF r \in Masters \ NewMasters THEN [status |-> "active"] ELSE AbsentRow]
    BY <1>1 DEF Init
  <2>2. [status |-> "active"] \in MasterRow
    BY DEF MasterRow
  <2>3. \A r \in DOMAIN db : db[r] \in RowOf(r) \cup {AbsentRow}
    BY <2>1, <2>2, RowTypes
  <2>4. \A s \in Sessions : DOMAIN pend[s] = {}
    BY <1>1 DEF Init
  <2>5. DOMAIN db = Rows \cup {Punchout}
    BY <2>1
  <2>6. /\ pc \in [Sessions -> {"idle", "shown", "begun", "locked", "written"}]
        /\ request \in [Sessions -> AllRequests \cup {NoRequest}]
        /\ stale \in [Sessions -> BOOLEAN]
        /\ key \in [Sessions -> Sessions \cup {"old", "legacy"}]
        /\ made \subseteq OrderIds
        /\ expired \in BOOLEAN
    BY <1>1 DEF Init
  <2> QED BY <2>3, <2>4, <2>5, <2>6 DEF TypeOK
<1>3. \A s \in Sessions : pc[s] = "idle" /\ DOMAIN pend[s] = {} /\ stale[s] = FALSE
  BY <1>1 DEF Init
<1>4. Core
  <2>1. Typed
    BY <1>1, <1>2, <1>3 DEF Init, Typed
  <2>2. Exclusive /\ Checked
    BY <1>3 DEF Exclusive, Checked, HoldsTables
  <2>3. RowLocks
    BY <1>3 DEF RowLocks, Held
  <2> QED BY <2>1, <2>2, <2>3 DEF Core
<1>5. Made
  <2>1. made = {} /\ db[Requisition].status # "ordered"
    BY <1>1, RowTypes DEF Init, AbsentRow
  <2> QED BY <1>3, <2>1 DEF Made, ConvertedOnce, RequisitionIs
<1>6. Fresh /\ Keyed
  BY <1>3 DEF Fresh, Keyed
<1> QED BY <1>4, <1>5, <1>6 DEF IInv

LEMMA SessionStep ==
  ASSUME IInv, NEW s \in Sessions, Moves(s), Marks(s)
  PROVE  IInv'
<1>1. Core /\ Made /\ Tags' /\ Still(s)
  BY DEF IInv, Marks, Moves
<1>2. Core' /\ Made'
  BY <1>1, MovesCore, MovesMade
<1>3. Fresh' /\ Keyed'
  BY <1>1, MarksKeep DEF IInv
<1> QED BY <1>2, <1>3 DEF IInv

LEMMA NextIInv == IInv /\ [Next]_vars => IInv'
<1>1. SUFFICES ASSUME IInv, [Next]_vars PROVE IInv'
  OBVIOUS
<1>2. Core /\ Made /\ Typed
  BY <1>1 DEF IInv, Core
<1>3. ASSUME NEW user \in Buyers, StartAmazonPunchout(user) PROVE IInv'
  <2>1. Core' /\ Made'
    BY <1>2, <1>3, StartCore, StartMade
  <2>2. UNCHANGED <<pc, request, pend, stale, key, made, expired>>
    BY <1>3 DEF StartAmazonPunchout
  <2>3. Fresh' /\ Keyed'
    BY <1>1, <2>2 DEF IInv, Fresh, Keyed, LegacyApproval, LegacyRequisitionDraft, LegacyOrderDraft
  <2> QED BY <2>1, <2>3 DEF IInv
<1>4. ASSUME Expire \/ UNCHANGED vars PROVE IInv'
  <2>1. UNCHANGED <<db, pc, request, pend, stale, key, made>> /\ expired' \in BOOLEAN
    BY <1>2, <1>4 DEF Expire, vars, Typed, TypeOK
  <2>2. Typed'
    BY <1>2, <2>1 DEF Typed, TypeOK
  <2>3. Exclusive' /\ RowLocks' /\ Checked'
    BY <1>2, <2>1 DEF Core, Exclusive, RowLocks, Checked, HoldsTables, Held, Exists, RequisitionIs
  <2>4. Made'
    BY <1>2, <2>1 DEF Made, ConvertedOnce, Converting, NotConverting, RequisitionIs, Exists
  <2>5. Fresh' /\ Keyed'
    BY <1>1, <2>1 DEF IInv, Fresh, Keyed, LegacyApproval, LegacyRequisitionDraft, LegacyOrderDraft
  <2> QED BY <2>2, <2>3, <2>4, <2>5 DEF IInv, Core
<1>5. ASSUME NEW s \in Sessions, NativeBegin(s) PROVE IInv'
  BY <1>1, <1>2, <1>5, NativeBeginMoves, NativeBeginMarks, SessionStep
<1>6. ASSUME NEW s \in Sessions, Preview(s) PROVE IInv'
  BY <1>1, <1>2, <1>6, PreviewMoves, PreviewMarks, SessionStep
<1>7. ASSUME NEW s \in Sessions, ConvertLock(s) PROVE IInv'
  BY <1>1, <1>2, <1>7, ConvertLockMoves, LockMarks, SessionStep
<1>8. ASSUME NEW s \in Sessions, NEW t \in Sessions, Repeat(s, t) PROVE IInv'
  BY <1>1, <1>2, <1>8, RepeatMoves, RepeatMarks, SessionStep
<1>9. ASSUME NEW s \in Sessions, NativeWrite(s) \/ LockedWrite(s) PROVE IInv'
  BY <1>1, <1>2, <1>9, WriteMoves, WriteMarks, SessionStep
<1>10. ASSUME NEW s \in Sessions, GuidedLock(s) PROVE IInv'
  BY <1>1, <1>2, <1>10, GuidedLockMoves, LockMarks, SessionStep
<1>11. ASSUME NEW s \in Sessions, Replay(s) \/ Refuse(s) \/ Rollback(s) PROVE IInv'
  BY <1>1, <1>2, <1>11, EndMoves, EndMarks, SessionStep
<1>12. ASSUME NEW s \in Sessions, Commit(s) PROVE IInv'
  <2>1. Core' /\ Made'
    BY <1>2, <1>12, CommitCore, CommitMade
  <2>2. Fresh' /\ Keyed'
    BY <1>1, <1>12, CommitMarks
  <2> QED BY <2>1, <2>2 DEF IInv
<1> QED BY <1>1, <1>3, <1>4, <1>5, <1>6, <1>7, <1>8, <1>9, <1>10, <1>11, <1>12 DEF Next, Step

LEMMA Invariance == Spec => []IInv
BY InitIInv, NextIInv, PTL DEF Spec

(* Every row, request, mark and key has the values its name promises, for  *)
(* any number of sessions, orders, products and suppliers.                 *)
THEOREM TypeCorrect == Spec => []TypeOK
<1>1. IInv => TypeOK
  BY DEF IInv, Core, Typed
<1> QED BY <1>1, Invariance, PTL

(* However many browsers and assistants convert, return, edit and archive  *)
(* at once: the approved requisition becomes at most one order, and it is  *)
(* "ordered" exactly when there is one.                                    *)
THEOREM OneOrderPerRequisition == Spec => []ConvertedOnce
<1>1. IInv => ConvertedOnce
  BY DEF IInv, Made
<1> QED BY <1>1, Invariance, PTL

(* No session commits on rows that others changed since it locked them or  *)
(* its user confirmed them.                                                *)
THEOREM CommitsAreFresh == Spec => ActsOnWhatItRead
<1>1. IInv /\ [Next]_vars => [\A s \in Sessions : Commits(s) => ~stale[s]]_vars
  BY DEF IInv, Fresh, Commits
<1> QED BY <1>1, Invariance, PTL DEF Spec, ActsOnWhatItRead

(* A guided request never commits under a key that was answered before.    *)
THEOREM KeysAreUsedOnce == Spec => OncePerKey
<1>1. IInv /\ [Next]_vars =>
        [\A s \in Sessions :
           Commits(s) /\ request[s].way = "guided" => key[s] \in Sessions]_vars
  BY DEF IInv, Keyed, Commits
<1> QED BY <1>1, Invariance, PTL DEF Spec, OncePerKey
=============================================================================
