----------------------- MODULE MCSupplierSubmission -----------------------
(* Small instances of SupplierSubmission: one Amazon and one Adam Hall     *)
(* order, two handlers at a time.  Handlers and keys are interchangeable.  *)
EXTENDS SupplierSubmission, TLC

Symmetry == Permutations(Requests) \cup Permutations(Keys)
=============================================================================
