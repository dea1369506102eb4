SPECIFICATION Spec
CONSTANTS
  Orders = {amz}
  AmazonOrders = {amz}
  Requests = {r1}
  Keys = {k1}
  NoKey = NoKey
  NoOrder = NoOrder
  NativeAmazon = TRUE
  Settle = 2
  AttemptBound = 1
INVARIANT
  AcknowledgedCanBeFinished
