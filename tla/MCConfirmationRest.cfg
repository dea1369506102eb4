SPECIFICATION Spec
CONSTANTS
  l1 = l1
  l2 = l2
  Lines = {l1, l2}
  Quantity <- OrderedQuantity
  Numbers = {n1, n2}
  CancelsRest = TRUE
  NoticeBound = 3
  Over = 0
SYMMETRY Symmetry
INVARIANT
  FullyRejectedIsCancelled
CHECK_DEADLOCK FALSE
