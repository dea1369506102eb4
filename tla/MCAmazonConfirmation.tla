----------------------- MODULE MCAmazonConfirmation -----------------------
(* A small order for AmazonConfirmation: two units on one line, one on     *)
(* another, over two Amazon order numbers.                                 *)
EXTENDS AmazonConfirmation, TLC

CONSTANTS l1, l2

OrderedQuantity == [l \in Lines |-> IF l = l1 THEN 2 ELSE 1]
Symmetry == Permutations(Numbers)
=============================================================================
