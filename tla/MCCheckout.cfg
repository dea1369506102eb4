SPECIFICATION Spec
CONSTANTS
  Orders = {o1, o2}
  Checkouts = {c1, c2}
  Articles = {a1}
  Quantity = 2
  Prices = {1, 2}
  NoOrder = NoOrder
  NoCheckout = NoCheckout
  NoCart = NoCart
  OwnPrice = OwnPrice
  EditBound = 1
  QuietCheckout = TRUE
SYMMETRY Symmetry
INVARIANTS
  TypeOK
  PaidAsReviewed
  PaidIsOrdered
  AnswerIsOutcome
  CartNotDoubled
