SPECIFICATION Spec
CONSTANTS
  l1 = l1
  l2 = l2
  Lines = {l1, l2}
  Quantity <- OrderedQuantity
  Numbers = {n1, n2}
  CancelsRest = FALSE
  NoticeBound = 3
  Over = 1
SYMMETRY Symmetry
INVARIANTS
  TypeOK
  CaughtUp
  FullyRejectedIsCancelled
  ReceivedWithinConfirmed
PROPERTIES
  CancelledStays
  DeliveredRowsStand
  NewerLineNoticeStands
CHECK_DEADLOCK FALSE
