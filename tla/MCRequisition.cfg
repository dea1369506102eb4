SPECIFICATION Spec
CONSTANTS
  Requisition = "requisition"
  OrderIds = {"o1", "o2"}
  Products = {"p1", "p2"}
  Suppliers = {"s", "amazon"}
  AmazonSupplier = "amazon"
  Punchout = "punchout"
  NoProduct = "no product"
  NoRequisition = "no requisition"
  Sessions = {"ui", "mcp"}
  Users = {"requester", "admin"}
  Admins = {"admin"}
  NewMasters = {"p2", "amazon"}
  Requests <- MCRequests
CHECK_DEADLOCK FALSE
INVARIANTS TypeOK OpenReferencesActive ConvertedOnce BasketIntact
PROPERTIES ActsOnWhatItRead OncePerKey KeepsToPath
