-------------------------- MODULE WorkflowTriggers --------------------------
(***************************************************************************)
(* The PL/pgSQL triggers that guard requisitions, purchase orders and the  *)
(* products and suppliers they name (src/internal/database:                *)
(* workflow_lifecycle_schema.go, workflow_references_schema.go,            *)
(* master_lifecycle_schema.go).                                            *)
(*                                                                         *)
(* A database is a function from row identities to records; what a         *)
(* transaction writes is such a function on the rows it touches, so that   *)
(* w @@ db is the database the transaction itself sees.  A row that does   *)
(* not exist yet has the status "absent".  The lines of a requisition or   *)
(* order are abstracted to the one product they name, NoProduct for a line *)
(* without a catalog product.                                              *)
(***************************************************************************)
CONSTANTS
    Requisition,    \* the identity of the requisition
    OrderIds,       \* identities of purchase orders
    Products,       \* identities of catalog products
    Suppliers,      \* identities of suppliers
    NoProduct,      \* a line that names no catalog product
    NoRequisition   \* an order that refers to no requisition

ASSUME RowsAssumption ==
    /\ Requisition \notin OrderIds \cup Products \cup Suppliers
    /\ OrderIds \cap (Products \cup Suppliers) = {}
    /\ Products \cap Suppliers = {}
    /\ NoProduct \notin Products
    /\ NoRequisition \notin {Requisition} \cup Suppliers

(* One row, and rows written over others, as in the module TLC, whose      *)
(* definitions the prover does not see.                                    *)
r :> row == [x \in {r} |-> row]
w @@ db == [x \in DOMAIN w \cup DOMAIN db |-> IF x \in DOMAIN w THEN w[x] ELSE db[x]]

Masters == Products \cup Suppliers
Workflows == {Requisition} \cup OrderIds
Rows == Workflows \cup Masters

Exists(db, r) == db[r].status # "absent"
Active(db, m) == db[m].status = "active"

(* An order that still commits the company: neither closed nor archived.   *)
OpenOrder(db, o) ==
    /\ db[o].status \notin {"absent", "received", "cancelled"}
    /\ ~db[o].archived

(* A requisition that keeps the products it names from being archived.  A  *)
(* returned requisition does not, it is validated again when it is edited. *)
PendingRequisition(db) ==
    /\ db[Requisition].status \in {"draft", "submitted", "approved"}
    /\ ~db[Requisition].archived

-----------------------------------------------------------------------------
(* guard_procurement_workflow_lifecycle                                    *)

Business(row) == [f \in DOMAIN row \ {"archived"} |-> row[f]]

(* The requester of a requisition never changes, and an archived row       *)
(* changes only by its restoration, which changes nothing else.            *)
RetainedIdentity(db, w, r) ==
    /\ r = Requisition => w[r].requester = db[r].requester
    /\ db[r].archived \/ w[r].archived =>
          /\ Business(w[r]) = Business(db[r])
          /\ ~(w[r].archived /\ db[r].archived)

ArchivalAllowed(db, r) ==
    IF r = Requisition
    THEN /\ db[r].status \in {"draft", "returned", "rejected", "ordered"}
         /\ \A o \in OrderIds :
               OpenOrder(db, o) => db[o].requisition # Requisition
    ELSE db[r].status \in {"draft", "received", "cancelled"}

LifecycleTrigger(db, w) ==
    \A r \in DOMAIN w \cap Workflows :
        IF ~Exists(db, r) THEN ~w[r].archived
        ELSE /\ RetainedIdentity(db, w, r)
             /\ ~db[r].archived /\ w[r].archived => ArchivalAllowed(db, r)

-----------------------------------------------------------------------------
(* guard_procurement_workflow_catalog_references: the rows a write refers  *)
(* to are locked FOR SHARE and must be active.  "lined" are the rows whose *)
(* lines the transaction inserts or rewrites.                              *)

Restored(db, w, r) == Exists(db, r) /\ db[r].archived /\ ~w[r].archived

ProductsOf(row) == {row.product} \ {NoProduct}

RequisitionReferences(db, w, lined) ==
    LET r == Requisition
        checked == \/ r \in lined
                   \/ /\ Exists(db, r) /\ ~w[r].archived
                      /\ \/ Restored(db, w, r)
                         \/ /\ w[r].status \in {"submitted", "approved"}
                            /\ w[r].status # db[r].status
    IN IF r \in DOMAIN w /\ checked
       THEN ProductsOf(w[r]) \cup {w[r].supplier} ELSE {}

OrderReferences(db, w, lined) ==
    UNION { LET closes == /\ Exists(db, o) /\ ~db[o].archived
                          /\ w[o].status \in {"received", "cancelled"}
                          /\ w[o].supplier = db[o].supplier
                          /\ w[o].requisition = db[o].requisition
                header == IF w[o].archived \/ closes THEN {}
                          ELSE {w[o].supplier, w[o].requisition} \ {NoRequisition}
                lines == IF o \in lined \/ Restored(db, w, o)
                         THEN ProductsOf(w[o]) ELSE {}
            IN header \cup lines : o \in DOMAIN w \cap OrderIds }

References(db, w, lined) ==
    RequisitionReferences(db, w, lined) \cup OrderReferences(db, w, lined)

ReferencesTrigger(db, w, lined) ==
    \A r \in References(db, w, lined) :
        LET now == w @@ db
        IN IF r = Requisition THEN Exists(now, r) /\ ~now[r].archived
           ELSE Active(now, r)

-----------------------------------------------------------------------------
(* guard_procurement_master_lifecycle                                      *)

NeededMaster(db, m) ==
    \/ m \in Suppliers /\ \E o \in OrderIds :
          OpenOrder(db, o) /\ db[o].supplier = m
    \/ m \in Products /\ \E o \in OrderIds :
          OpenOrder(db, o) /\ db[o].product = m
    \/ m \in Products /\ PendingRequisition(db) /\ db[Requisition].product = m

MasterTrigger(db, w) ==
    \A m \in DOMAIN w \cap Masters :
        IF ~Exists(db, m) THEN w[m].status = "active"
        ELSE /\ ~(db[m].status = "archived" /\ w[m].status = "archived")
             /\ Active(db, m) /\ w[m].status = "archived" => ~NeededMaster(db, m)

-----------------------------------------------------------------------------
TriggersAllow(db, w, lined) ==
    /\ LifecycleTrigger(db, w)
    /\ ReferencesTrigger(db, w, lined)
    /\ MasterTrigger(db, w)
=============================================================================
