------------------------- MODULE MCAdamHallCheckout -------------------------
(* AdamHallCheckout on a small instance: orders and checkouts are alike.   *)
EXTENDS AdamHallCheckout, TLC

Symmetry == Permutations(Orders) \cup Permutations(Checkouts)
=============================================================================
