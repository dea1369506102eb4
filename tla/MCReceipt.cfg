SPECIFICATION Spec
CONSTANTS
  Orders = {"o1", "o2"}
  Lines = {"stock", "device", "third"}
  OrderOf <- MCOrderOf
  Ordered <- MCOrdered
  Requests = {r1, r2}
  Keys = {"k1"}
  NoKey = "none"
  Serials = {"s1", "s2"}
  Inputs <- MCInputs
  VersionBound = 2
CHECK_DEADLOCK FALSE
INVARIANTS TypeOK ReceivedIsBooked OncePerKey StatusAgrees NoSilentOverdelivery SerialsUnique
PROPERTIES BookedAsSeen BooksAsIfAlone EveryRequestEnds
