SPECIFICATION FairSpec
CONSTANTS
  Orders = {amz, adh}
  AmazonOrders = {amz}
  Requests = {r1, r2}
  Keys = {k1}
  NoKey = NoKey
  NoOrder = NoOrder
  NativeAmazon = FALSE
  Settle = 2
  AttemptBound = 1
INVARIANT
  AcknowledgedCanBeFinished
PROPERTY
  NeverStranded
