---------------------------- MODULE OrderStatus ----------------------------
(***************************************************************************)
(* The status of a purchase order and who may change it:                   *)
(* orderTransitionAllowed and the receivable statuses of                   *)
(* src/internal/api/handler.go.  Every component that reads or writes the  *)
(* status shares these definitions.                                        *)
(***************************************************************************)

Statuses == {"draft", "submitting", "submission_unknown", "sent", "confirmed",
             "partially_confirmed", "partially_received", "received",
             "cancelled"}

(* What a user may turn a status into; it may also be written to itself. *)
TransitionAllowed(from, to) ==
  \/ from = to
  \/ from = "draft" /\ to \in {"sent", "cancelled"}
  \/ from = "sent" /\ to \in {"confirmed", "partially_confirmed", "cancelled"}
  \/ /\ from \in {"confirmed", "partially_confirmed", "partially_received"}
     /\ to = "cancelled"
  \/ from = "submission_unknown" /\ to = "draft"

(* Goods may be booked in for an order in one of these. *)
Receivable == {"sent", "confirmed", "partially_confirmed",
               "partially_received"}
=============================================================================
