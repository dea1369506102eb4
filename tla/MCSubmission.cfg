SPECIFICATION Spec
CONSTANTS
  Orders = {amz, adh}
  AmazonOrders = {amz}
  Requests = {r1, r2}
  Keys = {k1, k2}
  NoKey = NoKey
  NoOrder = NoOrder
  NativeAmazon = TRUE
  Settle = 2
  AttemptBound = 1
SYMMETRY Symmetry
INVARIANTS
  TypeOK
  AtMostOneCall
  NoManualDuplicate
  SentIsReal
  UnknownMeansUnknown
  AmazonAbsentStaysAbsent
PROPERTIES
  ReconciliationStands
  FinalReceiptStands
  PurchasesOnce
