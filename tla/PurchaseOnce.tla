---------------------------- MODULE PurchaseOnce ----------------------------
(***************************************************************************)
(* What the owner of the money is promised about a supplier order, with    *)
(* no word on how: an order that is committed to a supplier is bought at   *)
(* most once, it is reported as bought only when it was, and an order that *)
(* was declared "not sent" is never bought afterwards if its closing is    *)
(* final.                                                                  *)
(*                                                                         *)
(* README.md 100-125 and 72-93 of the repository state this promise for    *)
(* the Amazon, Adam Hall and reconciliation releases; SupplierSubmission   *)
(* implements it.                                                          *)
(***************************************************************************)
EXTENDS Naturals

CONSTANTS
  Orders,
  Final          \* the orders that can be closed for good

VARIABLES
  phase,         \* "free", "committed" (a durable claim exists) or "absent"
  bought,        \* how many purchases the supplier holds for the order
  acknowledged   \* the orders this system asserts to be bought

purchaseVars == <<phase, bought, acknowledged>>

Init ==
  /\ phase = [o \in Orders |-> "free"]
  /\ bought = [o \in Orders |-> 0]
  /\ acknowledged = {}

(* The only way out of "free"; there is no way back. *)
Commit(o) ==
  /\ phase[o] = "free"
  /\ phase' = [phase EXCEPT ![o] = "committed"]
  /\ UNCHANGED <<bought, acknowledged>>

(* The order may still be bought; one that was closed too early only if    *)
(* its closing is not final.                                               *)
Open(o) ==
  \/ phase[o] = "committed"
  \/ phase[o] = "absent" /\ o \notin Final

(* The supplier books the purchase: once, and only for a committed order. *)
Buy(o) ==
  /\ Open(o)
  /\ bought[o] = 0
  /\ bought' = [bought EXCEPT ![o] = 1]
  /\ UNCHANGED <<phase, acknowledged>>

Acknowledge(o) ==
  /\ Open(o)
  /\ bought[o] = 1
  /\ acknowledged' = acknowledged \cup {o}
  /\ UNCHANGED <<phase, bought>>

(* The order is closed as never sent, when nothing has bought it yet. *)
DeclareAbsent(o) ==
  /\ phase[o] = "committed"
  /\ bought[o] = 0
  /\ phase' = [phase EXCEPT ![o] = "absent"]
  /\ UNCHANGED <<bought, acknowledged>>

Next == \E o \in Orders :
          Commit(o) \/ Buy(o) \/ Acknowledge(o) \/ DeclareAbsent(o)

Spec == Init /\ [][Next]_purchaseVars
=============================================================================
