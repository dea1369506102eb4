--------------------------- MODULE MCGoodsReceipt ---------------------------
(* An order of two lines, one of them with devices, and an order of one    *)
(* line with devices; the same serial numbers come in opposite orders.     *)
EXTENDS GoodsReceipt

MCOrderOf == [l \in Lines |-> IF l = "third" THEN "o2" ELSE "o1"]
MCOrdered == [l \in Lines |-> 2]
Row(line, quantity, serials, over, key) ==
  [line |-> line, quantity |-> quantity, serials |-> serials, over |-> over, key |-> key]
MCInputs == {
  Row("stock", 1, <<>>, FALSE, NoKey),
  Row("device", 2, <<"s1", "s2">>, FALSE, NoKey),
  Row("third", 2, <<"s2", "s1">>, FALSE, NoKey),
  Row("stock", 3, <<>>, TRUE, "k1"),
  Row("device", 1, <<"s1">>, FALSE, "k1")}
=============================================================================
