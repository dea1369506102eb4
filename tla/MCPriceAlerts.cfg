SPECIFICATION Spec
CONSTANTS
  Offers = {"o1"}
  Alerts = {"a1"}
  Prices = {1, 2}
  Sessions = {"s1", "s2"}
  NoRow = NoRow
CHECK_DEADLOCK FALSE
INVARIANT AlertsFire
