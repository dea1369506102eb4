--------------------------- MODULE ReceiptLedger ---------------------------
(***************************************************************************)
(* What a user of the warehouse is promised about goods receipts, with no  *)
(* word on locks, transactions or retries: receipts are booked one at a    *)
(* time into a ledger, each only if the order as it then stands allows it, *)
(* and how much is there is what the ledger says.                          *)
(*                                                                         *)
(* The README of the repository promises this of goods receipts (partial   *)
(* receipts, explicit overdelivery, serial numbers, repeated calls);       *)
(* GoodsReceipt implements it.                                             *)
(***************************************************************************)
EXTENDS Naturals, SequencesExt, OrderStatus

CONSTANTS Orders, Lines, OrderOf, Ordered, NoKey, Inputs

VARIABLES
  status,   \* of an order
  version,  \* how often an order has changed
  receipts  \* the ledger

ledgerVars == <<status, version, receipts>>

(* What each of some receipts books on a line. *)
BookedOn(l, done) ==
  [n \in DOMAIN done |-> IF done[n].line = l THEN done[n].quantity ELSE 0]

Received(l, done) == SumFunction(BookedOn(l, done))

(* The receipt of i, on the order its user sees now; who names no key      *)
(* names no version either.                                                *)
Entry(i) ==
  [line |-> i.line, quantity |-> i.quantity, serials |-> i.serials,
   over |-> i.over, key |-> i.key,
   seen |-> IF i.key = NoKey THEN 0 ELSE version[OrderOf[i.line]]]

(* Neither the devices nor the key of i have been booked before. *)
IsNew(i) ==
  \A n \in DOMAIN receipts :
    /\ Range(i.serials) \cap Range(receipts[n].serials) = {}
    /\ i.key = NoKey \/ i.key # receipts[n].key
       \/ OrderOf[i.line] # OrderOf[receipts[n].line]

Complete(o, done) ==
  \A l \in Lines : OrderOf[l] = o => Received(l, done) >= Ordered[l]

Init ==
  /\ status = [o \in Orders |-> "sent"]
  /\ version = [o \in Orders |-> 0]
  /\ receipts = <<>>

Book(i) ==
  LET o == OrderOf[i.line] IN
  /\ status[o] \in Receivable
  /\ i.over \/ Received(i.line, receipts) + i.quantity <= Ordered[i.line]
  /\ IsNew(i)
  /\ receipts' = Append(receipts, Entry(i))
  /\ status' = [status EXCEPT ![o] =
       IF Complete(o, receipts') THEN "received" ELSE "partially_received"]
  /\ version' = [version EXCEPT ![o] = @ + 1]

ChangeStatus(o, s) ==
  /\ TransitionAllowed(status[o], s)
  /\ status' = [status EXCEPT ![o] = s]
  /\ version' = [version EXCEPT ![o] = @ + 1]
  /\ UNCHANGED receipts

Next ==
  \/ \E i \in Inputs : Book(i)
  \/ \E o \in Orders, s \in Statuses : ChangeStatus(o, s)

Spec == Init /\ [][Next]_ledgerVars
=============================================================================
