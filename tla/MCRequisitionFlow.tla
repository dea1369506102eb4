------------------------- MODULE MCRequisitionFlow -------------------------
(* One requisition, two orders, two products, a supplier and Amazon, which *)
(* is not a supplier yet.                                                  *)
EXTENDS RequisitionFlow

Ask(op, row, value, way, user) ==
    [op |-> op, row |-> row, value |-> value, supplier |-> "s", way |-> way,
     user |-> user]
WithAmazon(q) == [q EXCEPT !.supplier = AmazonSupplier]
Native(op, row, value, user) == Ask(op, row, value, "native", user)
Guided(op, row, value, user) == Ask(op, row, value, "guided", user)

(* What browsers ask for, one request at a time.                           *)
UIRequests == {
    Native("offer", Requisition, "p2", "admin"),
    Native("basket", Punchout, NoProduct, "requester"),
    Native("edit", Requisition, "p1", "requester"),
    Native("submit", Requisition, NoProduct, "requester"),
    Native("decide", Requisition, "approved", "admin"),
    Native("decide", Requisition, "rejected", "admin"),
    Native("convert", Requisition, NoProduct, "admin"),
    Native("order sent", Requisition, "p1", "admin"),
    Native("redraft", "o1", "p2", "admin"),
    Native("archive", "p1", NoProduct, "admin"),
    Native("move", "o1", "sent", "admin") }

(* What the assistant asks for, and an administrator's second browser.     *)
AssistantRequests == {
    Guided("create", Requisition, "p1", "requester"),
    Guided("edit", Requisition, "p1", "requester"),
    Guided("submit", Requisition, NoProduct, "requester"),
    Guided("move", "o1", "cancelled", "admin"),
    Guided("decide", Requisition, "approved", "admin"),
    Guided("decide", Requisition, "returned", "admin"),
    Guided("convert", Requisition, NoProduct, "admin"),
    WithAmazon(Guided("convert", Requisition, NoProduct, "admin")),
    Guided("order", NoRequisition, "p1", "admin"),
    Guided("redraft", "o1", "p1", "admin"),
    Guided("archive", Requisition, NoProduct, "requester"),
    Guided("restore", Requisition, NoProduct, "requester"),
    Guided("archive", "p1", NoProduct, "admin"),
    Native("archive", "s", NoProduct, "admin") }

MCRequests == [s \in Sessions |->
                  IF s = "ui" THEN UIRequests ELSE AssistantRequests]

(* Fewer, for liveness: those that take rows and tables in opposite order. *)
LiveRequests == [s \in Sessions |-> IF s = "ui"
    THEN { Native("create", Requisition, "p1", "requester"),
           Native("edit", Requisition, "p1", "requester"),
           Native("submit", Requisition, NoProduct, "requester"),
           Native("decide", Requisition, "approved", "admin"),
           Native("rename", "p1", NoProduct, "admin"),
           Native("order confirmed", NoRequisition, "p1", "admin"),
           Native("redraft", "o1", "p1", "admin"),
           Native("move", "o1", "cancelled", "admin") }
    ELSE { Guided("decide", Requisition, "returned", "admin"),
           Guided("convert", Requisition, NoProduct, "admin"),
           Guided("redraft", "o1", "p2", "admin"),
           Guided("move", "o1", "cancelled", "admin"),
           Guided("archive", Requisition, NoProduct, "admin"),
           Guided("archive", "p1", NoProduct, "admin"),
           Native("convert", Requisition, NoProduct, "admin"),
           Native("restore", "p1", NoProduct, "admin") }]
=============================================================================
