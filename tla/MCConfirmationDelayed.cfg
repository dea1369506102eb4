SPECIFICATION Spec
CONSTANTS
  l1 = l1
  l2 = l2
  Lines = {l1, l2}
  Quantity <- OrderedQuantity
  Numbers = {n1, n2}
  CancelsRest = FALSE
  NoticeBound = 2
  Over = 0
PROPERTY
  NewerNoticeStands
CHECK_DEADLOCK FALSE
