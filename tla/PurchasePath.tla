---------------------------- MODULE PurchasePath ----------------------------
(***************************************************************************)
(* The path of a purchase as its users are told it, with no word on locks, *)
(* previews, keys or triggers: a requisition is drafted, submitted,        *)
(* decided and converted into one order; orders are drafted, changed while *)
(* they are drafts, and moved on; records that no longer bind anybody are  *)
(* archived and come back unchanged.  Each step is made on the records as  *)
(* they are at that moment.                                                *)
(*                                                                         *)
(* These are the rules of README.md of the repository on drafts, approval  *)
(* and archives (README.md:185-275) and of the handlers' own checks;       *)
(* RequisitionFlow implements them.                                        *)
(***************************************************************************)
EXTENDS OrderStatus

CONSTANTS Requisition, NoRequisition, OrderIds, Products, NoProduct, Suppliers, Users

VARIABLES
  requisition,  \* its record
  orders        \* the records of the orders

pathVars == <<requisition, orders>>

Drafts ==
  [status : {"draft"}, archived : {FALSE}, requester : Users,
   product : Products \cup {NoProduct}, supplier : Suppliers, amazon : BOOLEAN]
NewOrders ==
  [status : {"draft", "sent", "confirmed"}, archived : {FALSE},
   requisition : {Requisition, NoRequisition}, product : Products,
   supplier : Suppliers, amazon : {FALSE}]

Init ==
  /\ requisition = [status |-> "absent"]
  /\ orders = [o \in OrderIds |-> [status |-> "absent"]]

(* An order may only go on for a requisition that is not archived.         *)
MayGoOnFor(r) ==
  r = Requisition => requisition.status # "absent" /\ ~requisition.archived

Binds(o) ==
  /\ orders[o].status \notin {"absent", "received", "cancelled"}
  /\ ~orders[o].archived

Begin ==
  /\ requisition.status = "absent"
  /\ requisition' \in Drafts
  /\ UNCHANGED orders

Edit(p, s) ==
  /\ requisition.status \in {"draft", "returned"}
  /\ ~requisition.archived /\ ~requisition.amazon
  /\ requisition' = [requisition EXCEPT !.status = "draft", !.product = p, !.supplier = s]
  /\ UNCHANGED orders

Submit ==
  /\ requisition.status = "draft" /\ ~requisition.archived
  /\ requisition' = [requisition EXCEPT !.status = "submitted"]
  /\ UNCHANGED orders

Decide(decision) ==
  /\ requisition.status = "submitted" /\ ~requisition.archived
  /\ requisition' = [requisition EXCEPT !.status = decision]
  /\ UNCHANGED orders

(* What was approved is ordered, once, from the supplier chosen then.      *)
Convert(o, s) ==
  /\ requisition.status = "approved" /\ ~requisition.archived
  /\ \A p \in OrderIds : orders[p].status # "absent" => orders[p].requisition # Requisition
  /\ orders[o].status = "absent"
  /\ requisition' = [requisition EXCEPT !.status = "ordered"]
  /\ orders' = [orders EXCEPT ![o] =
       [status |-> "draft", archived |-> FALSE, requisition |-> Requisition,
        product |-> requisition.product, supplier |-> s,
        amazon |-> requisition.amazon]]

ArchiveRequisition ==
  /\ requisition.status \in {"draft", "returned", "rejected", "ordered"}
  /\ ~requisition.archived
  /\ \A o \in OrderIds : Binds(o) => orders[o].requisition # Requisition
  /\ requisition' = [requisition EXCEPT !.archived = TRUE]
  /\ UNCHANGED orders

RestoreRequisition ==
  /\ requisition.status # "absent" /\ requisition.archived
  /\ requisition' = [requisition EXCEPT !.archived = FALSE]
  /\ UNCHANGED orders

Place(o, row) ==
  /\ orders[o].status = "absent"
  /\ MayGoOnFor(row.requisition)
  /\ orders' = [orders EXCEPT ![o] = row]
  /\ UNCHANGED requisition

Redraft(o, p, s) ==
  /\ orders[o].status = "draft" /\ ~orders[o].archived /\ ~orders[o].amazon
  /\ MayGoOnFor(orders[o].requisition)
  /\ orders' = [orders EXCEPT ![o].product = p, ![o].supplier = s]
  /\ UNCHANGED requisition

(* A basket is sent to Amazon by the program, not marked as sent by hand.  *)
Move(o, status) ==
  /\ TransitionAllowed(orders[o].status, status)
  /\ ~orders[o].archived
  /\ orders[o].status = "draft" /\ status = "sent" => ~orders[o].amazon
  /\ status # "cancelled" => MayGoOnFor(orders[o].requisition)
  /\ orders' = [orders EXCEPT ![o].status = status]
  /\ UNCHANGED requisition

ArchiveOrder(o) ==
  /\ orders[o].status \in {"draft", "received", "cancelled"}
  /\ ~orders[o].archived
  /\ orders' = [orders EXCEPT ![o].archived = TRUE]
  /\ UNCHANGED requisition

RestoreOrder(o) ==
  /\ orders[o].status # "absent" /\ orders[o].archived
  /\ MayGoOnFor(orders[o].requisition)
  /\ orders' = [orders EXCEPT ![o].archived = FALSE]
  /\ UNCHANGED requisition

Next ==
  \/ Begin
  \/ \E p \in Products, s \in Suppliers : Edit(p, s)
  \/ Submit
  \/ \E decision \in {"approved", "rejected", "returned"} : Decide(decision)
  \/ ArchiveRequisition
  \/ RestoreRequisition
  \/ \E o \in OrderIds :
       \/ \E s \in Suppliers : Convert(o, s)
       \/ \E row \in NewOrders : Place(o, row)
       \/ \E p \in Products, s \in Suppliers : Redraft(o, p, s)
       \/ \E status \in {"sent", "confirmed", "cancelled"} : Move(o, status)
       \/ ArchiveOrder(o)
       \/ RestoreOrder(o)

Spec == Init /\ [][Next]_pathVars
=============================================================================
