SPECIFICATION Spec
CONSTANTS
  Orders = {adh}
  AmazonOrders = {}
  Requests = {r1}
  Keys = {k1}
  NoKey = NoKey
  NoOrder = NoOrder
  NativeAmazon = TRUE
  Settle = 2
  AttemptBound = 1
INVARIANT
  AbsentStaysAbsent
