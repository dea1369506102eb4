---------------------- MODULE AmazonConfirmationProofs ----------------------
(***************************************************************************)
(* Theorems about AmazonConfirmation for any order, any split and any      *)
(* network.                                                                *)
(*                                                                         *)
(* Three invariants carry them.  Inv: goods are in stock only for an order *)
(* whose status closes it to confirmations, or that is cancelled.          *)
(* DatedInv: nothing follows a refusal of the whole order, so that the     *)
(* notice that empties rows of any date is the newest.  LedgerInv: there   *)
(* is a history of what Amazon had decided after each notice, and over a   *)
(* network that keeps the order the rows are one of its entries.  The sums *)
(* of quantities are those of SumTheorems.                                 *)
(***************************************************************************)
EXTENDS AmazonConfirmation, SumTheorems, TLAPS

ReceivedInv ==
  status \in {"partially_received", "received", "cancelled"}
    \/ \A l \in Lines : received[l] = 0

Inv == TypeOK /\ ReceivedInv /\ ReceivedWithinConfirmed

USE ConfirmationConstants DEF ConfirmationConstants

(* The status a confirmation leads to is one of four. *)
LEMMA ConfirmedStatusValues ==
  ASSUME NEW t
  PROVE  ConfirmedStatus(t) \in {"cancelled", "confirmed",
                                 "partially_confirmed", "sent"}
BY DEF ConfirmedStatus

(* What a notice makes of the rows is again a set of rows. *)
LEMMA NewRowsType ==
  ASSUME TypeOK, NEW i \in 1..Len(mail)
  PROVE  NewRows(mail[i], i) \in [Parts -> Row]
<1>1. mail[i] \in Notice /\ i \in Nat
  BY DEF TypeOK
<1>2. WholeRows(mail[i], i) \in [Parts -> Row]
  BY <1>1 DEF WholeRows, Row, NoRow, Notice, Parts
<1>3. ASSUME NEW row \in Row
      PROVE  LineRow(mail[i], row, i) \in Row
  <2>1. CASE Outdated(row, i)
    BY <2>1 DEF LineRow
  <2>2. CASE ~Outdated(row, i) /\ IsPartialCancel(mail[i], row)
    BY <1>1, <1>3, <2>2 DEF LineRow, IsPartialCancel, Row, Notice
  <2>3. CASE ~Outdated(row, i) /\ ~IsPartialCancel(mail[i], row)
    BY <1>1, <1>3, <2>3 DEF LineRow, Row, Notice
  <2> QED
    BY <2>1, <2>2, <2>3
<1> QED
  BY <1>1, <1>2, <1>3 DEF NewRows, TypeOK

-----------------------------------------------------------------------------
LEMMA InitInv == Init => Inv
<1>1. <<>> \in Seq(Notice) /\ {} \subseteq 1..Len(<<>>)
  OBVIOUS
<1>2. NoRow \in Row
  BY DEF NoRow, Row
<1> QED
  BY <1>1, <1>2 DEF Init, Inv, TypeOK, Statuses, ReceivedInv,
     ReceivedWithinConfirmed

(* What Amazon decides touches only Amazon's side. *)
LEMMA SendType ==
  ASSUME TypeOK, NEW notice \in Notice, Send(notice),
         truth' \in [Parts -> Row]
  PROVE  TypeOK'
<1>1. mail' = Append(mail, notice) /\ mail \in Seq(Notice)
  BY DEF Send, TypeOK
<1>2. mail' \in Seq(Notice) /\ Len(mail') = Len(mail) + 1 /\ Len(mail) \in Nat
  BY <1>1
<1>3. seen' = seen /\ seen \subseteq 1..Len(mail)
  BY DEF Send, TypeOK
<1>4. seen' \subseteq 1..Len(mail')
  BY <1>2, <1>3
<1> QED
  BY <1>2, <1>4 DEF Send, TypeOK

LEMMA AmazonType ==
  ASSUME TypeOK, AmazonStep
  PROVE  /\ TypeOK'
         /\ UNCHANGED <<status, rows, seen, received, ordered>>
<1>0. Len(mail) + 1 \in Nat
  BY DEF TypeOK
<1>1. ASSUME NEW n \in Numbers, NEW kind \in {"accept", "reject"},
             AmazonDecidesOrder(n, kind)
      PROVE  /\ TypeOK'
             /\ UNCHANGED <<status, rows, seen, received, ordered>>
  <2> DEFINE notice == [kind |-> kind, number |-> n,
                        line |-> CHOOSE l \in Lines : TRUE,
                        acc |-> 0, rej |-> 0]
  <2>1. notice \in Notice
    BY DEF Notice, Kinds
  <2>2. truth' \in [Parts -> Row]
    BY <1>0, <1>1 DEF AmazonDecidesOrder, Whole, Row, NoRow, Parts
  <2>3. Send(notice)
    BY <1>1 DEF AmazonDecidesOrder
  <2> QED
    BY <2>1, <2>2, <2>3, SendType DEF Send
<1>2. ASSUME NEW l \in Lines, NEW n \in Numbers, NEW a \in Units,
             NEW r \in Units, AmazonDecidesLine(l, n, a, r)
      PROVE  /\ TypeOK'
             /\ UNCHANGED <<status, rows, seen, received, ordered>>
  <2> DEFINE notice == [kind |-> "detail", number |-> n, line |-> l,
                        acc |-> a, rej |-> r]
  <2>0. a \in Nat /\ r \in Nat
    BY DEF Units
  <2>1. notice \in Notice
    BY <2>0 DEF Notice, Kinds
  <2>2. [acc |-> a, rej |-> r, date |-> Len(mail) + 1] \in Row
    BY <1>0, <2>0 DEF Row
  <2>3. truth' \in [Parts -> Row]
    BY <1>2, <2>2 DEF AmazonDecidesLine, TypeOK
  <2>4. Send(notice)
    BY <1>2 DEF AmazonDecidesLine
  <2> QED
    BY <2>1, <2>3, <2>4, SendType DEF Send
<1>3. ASSUME NEW l \in Lines, NEW n \in Numbers, NEW r \in Units,
             AmazonCancelsPart(l, n, r)
      PROVE  /\ TypeOK'
             /\ UNCHANGED <<status, rows, seen, received, ordered>>
  <2> DEFINE notice == [kind |-> "update", number |-> n, line |-> l,
                        acc |-> 0, rej |-> r]
             part == truth[<<l, n>>]
  <2>0. part \in Row /\ r \in 1..part.acc
    BY <1>3 DEF AmazonCancelsPart, TypeOK, Parts
  <2>1. r \in Nat /\ part.acc - r \in Nat /\ part.rej + r \in Nat
    BY <2>0 DEF Row
  <2>2. [acc |-> part.acc - r, rej |-> part.rej + r, date |-> Len(mail) + 1]
          \in Row
    BY <1>0, <2>1 DEF Row
  <2>3. truth' \in [Parts -> Row]
    BY <1>3, <2>2 DEF AmazonCancelsPart, TypeOK
  <2>4. notice \in Notice
    BY <2>1 DEF Notice, Kinds
  <2>5. Send(notice)
    BY <1>3 DEF AmazonCancelsPart
  <2> QED
    BY <2>3, <2>4, <2>5, SendType DEF Send
<1> QED
  BY <1>1, <1>2, <1>3 DEF AmazonStep

-----------------------------------------------------------------------------
(* Every step keeps the invariant. *)
LEMMA NextInv ==
  ASSUME Inv, [Next]_vars
  PROVE  Inv'
<1> USE DEF Inv
<1>1. CASE AmazonStep
  <2>1. TypeOK' /\ UNCHANGED <<status, rows, seen, received, ordered>>
    BY <1>1, AmazonType
  <2> QED
    BY <2>1 DEF ReceivedInv, ReceivedWithinConfirmed
<1>2. ASSUME NEW i \in 1..Len(mail), Deliver(i)
      PROVE  Inv'
  <2>0. Apply(i)
    BY <1>2 DEF Deliver
  <2>1. rows' \in [Parts -> Row]
    BY <2>0, NewRowsType DEF Apply
  <2>2. status' \in {"cancelled", "confirmed", "partially_confirmed", "sent"}
    BY <2>0, ConfirmedStatusValues DEF Apply
  <2>3. TypeOK'
    BY <2>0, <2>1, <2>2 DEF Apply, TypeOK, Statuses
  <2>4. ReceivedInv'
    BY <2>0, <2>2 DEF Apply, ReceivedInv, OpenForNotices, NotRevived
  <2>5. ReceivedWithinConfirmed'
    BY <2>2 DEF ReceivedWithinConfirmed
  <2> QED
    BY <2>3, <2>4, <2>5
<1>3. ASSUME NEW s \in {"sent", "submission_unknown"}, SubmissionEnds(s)
      PROVE  Inv'
  BY <1>3 DEF SubmissionEnds, TypeOK, Statuses, ReceivedInv,
     ReceivedWithinConfirmed
<1>4. ASSUME NEW s \in Statuses, UserSetsStatus(s)
      PROVE  Inv'
  BY <1>4 DEF UserSetsStatus, TransitionAllowed, TypeOK, ReceivedInv,
     ReceivedWithinConfirmed
<1>5. ASSUME NEW l \in Lines, NEW q \in Units \ {0}, ReceiveGoods(l, q)
      PROVE  Inv'
  <2>1. q \in Nat /\ received[l] + q \in Nat
    BY DEF Units, TypeOK
  <2>2. /\ received' = [received EXCEPT ![l] = @ + q]
        /\ status' \in {"received", "partially_received"}
        /\ UNCHANGED <<rows, seen, mail, truth, ordered>>
    BY <1>5 DEF ReceiveGoods
  <2>3. TypeOK'
    BY <2>1, <2>2 DEF TypeOK, Statuses
  <2>4. ReceivedInv'
    BY <2>2 DEF ReceivedInv
  <2>5. ASSUME NEW k \in Lines, received'[k] > 0, HasRow(rows, k)
        PROVE  received'[k] <= Accepted(rows, k)
    <3>1. CASE k = l
      BY <1>5, <2>2, <2>5, <3>1 DEF ReceiveGoods, WithinConfirmed, TypeOK
    <3>2. CASE k # l
      <4>1. received[k] > 0 /\ received'[k] = received[k]
        BY <2>2, <2>5, <3>2 DEF TypeOK
      <4>2. status = "partially_received"
        BY <1>5, <4>1 DEF ReceiveGoods, Receivable, ReceivedInv
      <4> QED
        BY <2>5, <4>1, <4>2 DEF ReceivedWithinConfirmed
    <3> QED
      BY <3>1, <3>2
  <2>6. ReceivedWithinConfirmed'
    BY <2>2, <2>5 DEF ReceivedWithinConfirmed
  <2> QED
    BY <2>3, <2>4, <2>6
<1>6. CASE UNCHANGED vars
  BY <1>6 DEF vars, TypeOK, ReceivedInv, ReceivedWithinConfirmed
<1> QED
  BY <1>1, <1>2, <1>3, <1>4, <1>5, <1>6 DEF Next

LEMMA Invariant == Spec => []Inv
<1>1. Inv /\ [Next]_vars => Inv'
  BY NextInv
<1> QED
  BY InitInv, <1>1, PTL DEF Spec

-----------------------------------------------------------------------------
(* The model's state stays in its types, in particular no share of a line  *)
(* ever goes below zero when a cancellation is subtracted                  *)
(* (amazon_confirmation.go 208-210).                                       *)
THEOREM TypeCorrect == Spec => []TypeOK
<1>1. Inv => TypeOK
  BY DEF Inv
<1> QED
  BY Invariant, <1>1, PTL

(* However notices are delayed, repeated and reordered, goods are never    *)
(* booked in beyond what Amazon confirmed for their line                   *)
(* (handler.go 2377-2388 against amazon_confirmation.go 149-151).          *)
THEOREM DeliveriesWithinConfirmed == Spec => []ReceivedWithinConfirmed
<1>1. Inv => ReceivedWithinConfirmed
  BY DEF Inv
<1> QED
  BY Invariant, <1>1, PTL

(* No notice, delivery or user brings a cancelled order back               *)
(* (amazon_confirmation.go 260-262, handler.go 1943-1959).                 *)
THEOREM CancelledOrdersStay == Spec => CancelledStays
<1>1. ASSUME Inv, [Next]_vars, status = "cancelled"
      PROVE  status' = "cancelled"
  <2>1. CASE AmazonStep
    BY <1>1, <2>1, AmazonType DEF Inv
  <2>2. ASSUME NEW i \in 1..Len(mail), Deliver(i)
        PROVE  status' = "cancelled"
    BY <1>1, <2>2 DEF Deliver, Apply, NotRevived
  <2>3. ASSUME NEW s \in Statuses, UserSetsStatus(s)
        PROVE  status' = "cancelled"
    BY <1>1, <2>3 DEF UserSetsStatus, TransitionAllowed
  <2> QED
    BY <1>1, <2>1, <2>2, <2>3
    DEF Next, vars, SubmissionEnds, ReceiveGoods, Receivable
<1>2. Inv /\ [Next]_vars => [status = "cancelled" => status' = "cancelled"]_vars
  BY <1>1
<1> QED
  BY Invariant, <1>2, PTL DEF Spec, CancelledStays

(* Rows of goods in stock are never rewritten, unless a user has cancelled *)
(* the rest of the order.                                                  *)
THEOREM RowsOfDeliveredGoodsStand == Spec => DeliveredRowsStand
<1>1. ASSUME Inv, [Next]_vars, NEW l \in Lines, NEW n \in Numbers,
             received[l] > 0, rows'[<<l, n>>] # rows[<<l, n>>]
      PROVE  status = "cancelled"
  <2>1. PICK i \in 1..Len(mail) : Deliver(i)
    BY <1>1, AmazonType
    DEF Inv, Next, SubmissionEnds, UserSetsStatus, ReceiveGoods, vars
  <2>2. OpenForNotices
    BY <2>1 DEF Deliver, Apply
  <2> QED
    BY <1>1, <2>2 DEF Inv, TypeOK, ReceivedInv, OpenForNotices
<1>2. Inv /\ [Next]_vars =>
        [\A l \in Lines, n \in Numbers :
           received[l] > 0 /\ rows'[<<l, n>>] # rows[<<l, n>>]
             => status = "cancelled"]_vars
  BY <1>1
<1> QED
  BY Invariant, <1>2, PTL DEF Spec, DeliveredRowsStand

-----------------------------------------------------------------------------
(* Nothing follows a refusal of the whole order: whatever else Amazon may  *)
(* decide needs a unit that is not refused yet.                            *)
Refused ==
  \A l \in Lines : /\ Rejected(truth, l) = Quantity[l]
                   /\ \A n \in Numbers : truth[<<l, n>>].acc = 0

RefusalInv ==
  \A i \in 1..Len(mail) : mail[i].kind = "reject" => i = Len(mail) /\ Refused

(* No row is dated later than the last notice. *)
DatesInv == \A p \in Parts : rows[p].date <= Len(mail)

LEMMA PartSums ==
  ASSUME NEW t \in [Parts -> Row], NEW l \in Lines
  PROVE  /\ \A n \in Numbers : t[<<l, n>>] \in Row
         /\ Accepted(t, l) \in Nat
         /\ Rejected(t, l) \in Nat
<1> DEFINE acc == [n \in Numbers |-> t[<<l, n>>].acc]
           rej == [n \in Numbers |-> t[<<l, n>>].rej]
<1>1. \A n \in Numbers : t[<<l, n>>] \in Row
  BY DEF Parts
<1>2. \A n \in Numbers : acc[n] \in Nat /\ rej[n] \in Nat
  BY <1>1 DEF Row
<1>3. SumFunctionOnSet(acc, Numbers) \in Nat
  <2> HIDE DEF acc
  <2> QED BY <1>2, SumType
<1>4. SumFunctionOnSet(rej, Numbers) \in Nat
  <2> HIDE DEF rej
  <2> QED BY <1>2, SumType
<1> QED
  BY <1>1, <1>3, <1>4 DEF Accepted, Rejected

LEMMA RequestedPositive == Requested \in Nat /\ Requested > 0
<1>1. \A l \in Lines : Quantity[l] \in Nat /\ Quantity[l] > 0
  OBVIOUS
<1>2. PICK l \in Lines : TRUE
  OBVIOUS
<1>3. SumFunctionOnSet(Quantity, Lines) \in Nat
  BY <1>1, SumType
<1>4. Quantity[l] <= SumFunctionOnSet(Quantity, Lines)
  BY <1>1, SumAtLeast
<1> QED
  BY <1>1, <1>3, <1>4 DEF Requested

(* The totals of an order of which every line is refused, or nothing is.   *)
LEMMA TotalOfRefused ==
  ASSUME NEW t, \A l \in Lines : Rejected(t, l) = Quantity[l]
  PROVE  TotalRejected(t) = Requested
<1> DEFINE rej == [l \in Lines |-> Rejected(t, l)]
<1>1. \A l \in Lines : rej[l] = Quantity[l]
  OBVIOUS
<1>2. SumFunctionOnSet(rej, Lines) = SumFunctionOnSet(Quantity, Lines)
  <2> HIDE DEF rej
  <2> QED BY <1>1, SumEqual
<1> QED
  BY <1>2 DEF TotalRejected, Requested

LEMMA SumsOfNoRow ==
  ASSUME NEW t, \A p \in Parts : t[p] = NoRow
  PROVE  /\ \A l \in Lines : Rejected(t, l) = 0
         /\ TotalRejected(t) = 0
<1>1. ASSUME NEW l \in Lines
      PROVE  Rejected(t, l) = 0
  <2> DEFINE rej == [n \in Numbers |-> t[<<l, n>>].rej]
  <2>1. \A n \in Numbers : rej[n] = 0
    BY DEF NoRow, Parts
  <2>2. SumFunctionOnSet(rej, Numbers) = 0
    <3> HIDE DEF rej
    <3> QED BY <2>1, SumOfZeros
  <2> QED
    BY <2>2 DEF Rejected
<1> DEFINE total == [l \in Lines |-> Rejected(t, l)]
<1>2. \A l \in Lines : total[l] = 0
  BY <1>1
<1>3. SumFunctionOnSet(total, Lines) = 0
  <2> HIDE DEF total
  <2> QED BY <1>2, SumOfZeros
<1> QED
  BY <1>1, <1>3 DEF TotalRejected

LEMMA WholeIsRefused ==
  ASSUME TypeOK, NEW n \in Numbers, truth' = Whole(n, "reject")
  PROVE  Refused'
<1>1. ASSUME NEW l \in Lines
      PROVE  Rejected(truth', l) = Quantity[l]
  <2> DEFINE rej == [k \in Numbers |-> truth'[<<l, k>>].rej]
  <2>1. \A k \in Numbers : rej[k] = IF k = n THEN Quantity[l] ELSE 0
    BY DEF Whole, NoRow, Parts
  <2>2. rej[n] \in Nat /\ rej[n] = Quantity[l]
    BY <2>1
  <2>3. \A k \in Numbers \ {n} : rej[k] = 0
    BY <2>1
  <2>4. SumFunctionOnSet(rej, Numbers) = rej[n]
    <3> HIDE DEF rej
    <3> QED BY <2>2, <2>3, SumOfOne
  <2> QED
    BY <2>2, <2>4 DEF Rejected
<1>2. ASSUME NEW l \in Lines, NEW k \in Numbers
      PROVE  truth'[<<l, k>>].acc = 0
  BY DEF Whole, NoRow, Parts
<1> QED
  BY <1>1, <1>2 DEF Refused

LEMMA RefusedIsFinal ==
  ASSUME TypeOK, Refused
  PROVE  ~AmazonStep
<1>1. ASSUME NEW n \in Numbers, NEW kind \in {"accept", "reject"}
      PROVE  ~AmazonDecidesOrder(n, kind)
  <2>1. TotalRejected(truth) = Requested
    BY TotalOfRefused DEF Refused
  <2>2. ~(\A p \in Parts : truth[p] = NoRow)
    <3>1. ASSUME \A p \in Parts : truth[p] = NoRow
          PROVE  FALSE
      BY <2>1, <3>1, SumsOfNoRow, RequestedPositive
    <3> QED
      BY <3>1
  <2> QED
    BY <2>1, <2>2, RequestedPositive DEF AmazonDecidesOrder
<1>2. ASSUME NEW l \in Lines, NEW n \in Numbers, NEW a \in Units,
             NEW r \in Units
      PROVE  ~AmazonDecidesLine(l, n, a, r)
  <2>1. Accepted(truth, l) \in Nat /\ Rejected(truth, l) = Quantity[l]
    BY PartSums DEF TypeOK, Refused
  <2>2. Quantity[l] \in Nat /\ a + r \in Nat
    BY DEF Units
  <2> QED
    BY <2>1, <2>2 DEF AmazonDecidesLine, Undecided
<1>3. ASSUME NEW l \in Lines, NEW n \in Numbers, NEW r \in Units
      PROVE  ~AmazonCancelsPart(l, n, r)
  BY DEF AmazonCancelsPart, Refused
<1> QED
  BY <1>1, <1>2, <1>3 DEF AmazonStep

(* What Amazon sends is appended, and a refusal is Whole.                  *)
LEMMA AmazonSends ==
  ASSUME TypeOK, AmazonStep
  PROVE  /\ Len(mail) \in Nat
         /\ Len(mail') = Len(mail) + 1
         /\ \A i \in 1..Len(mail) : mail'[i] = mail[i]
         /\ mail'[Len(mail')].kind = "reject" => Refused'
<1>1. ASSUME NEW notice, Send(notice)
      PROVE  /\ Len(mail) \in Nat
             /\ Len(mail') = Len(mail) + 1
             /\ mail'[Len(mail')] = notice
             /\ \A i \in 1..Len(mail) : mail'[i] = mail[i]
  BY <1>1 DEF Send, TypeOK
<1>2. ASSUME NEW n \in Numbers, NEW kind \in {"accept", "reject"},
             AmazonDecidesOrder(n, kind)
      PROVE  /\ \E notice : Send(notice) /\ notice.kind = kind
             /\ kind = "reject" => Refused'
  <2>1. kind = "reject" => Refused'
    BY <1>2, WholeIsRefused DEF AmazonDecidesOrder
  <2> QED
    BY <1>2, <2>1 DEF AmazonDecidesOrder
<1>3. ASSUME NEW l \in Lines, NEW n \in Numbers, NEW a \in Units,
             NEW r \in Units, AmazonDecidesLine(l, n, a, r)
      PROVE  \E notice : Send(notice) /\ notice.kind = "detail"
  BY <1>3 DEF AmazonDecidesLine
<1>4. ASSUME NEW l \in Lines, NEW n \in Numbers, NEW r \in Units,
             AmazonCancelsPart(l, n, r)
      PROVE  \E notice : Send(notice) /\ notice.kind = "update"
  BY <1>4 DEF AmazonCancelsPart
<1>5. \E notice : /\ Send(notice)
                  /\ notice.kind = "reject" => Refused'
  BY <1>2, <1>3, <1>4 DEF AmazonStep
<1> QED
  BY <1>1, <1>5

LEMMA AmazonRefusalDates ==
  ASSUME TypeOK, RefusalInv, DatesInv, AmazonStep
  PROVE  RefusalInv' /\ DatesInv'
<1>1. \A i \in 1..Len(mail) : mail[i].kind # "reject"
  BY RefusedIsFinal DEF RefusalInv
<1>2. /\ Len(mail) \in Nat
      /\ Len(mail') = Len(mail) + 1
      /\ \A i \in 1..Len(mail) : mail'[i] = mail[i]
      /\ mail'[Len(mail')].kind = "reject" => Refused'
  BY AmazonSends
<1>3. ASSUME NEW i \in 1..Len(mail'), mail'[i].kind = "reject"
      PROVE  i = Len(mail') /\ Refused'
  BY <1>1, <1>2, <1>3
<1>4. rows' = rows /\ \A p \in Parts : rows[p].date \in Nat
  BY AmazonType DEF TypeOK, Row
<1>5. DatesInv'
  BY <1>2, <1>4 DEF DatesInv
<1> QED
  BY <1>3, <1>5 DEF RefusalInv

(* The date of the latest row of a line is the date of one of them.        *)
LEMMA LatestIsLargest ==
  ASSUME NEW t \in [Parts -> Row], NEW b \in Nat,
         \A p \in Parts : t[p].date <= b, NEW l \in Lines
  PROVE  /\ \E n \in Numbers : LatestOf(t, l) = t[<<l, n>>].date
         /\ \A n \in Numbers : LatestOf(t, l) >= t[<<l, n>>].date
<1> DEFINE dates == {t[<<l, n>>].date : n \in Numbers}
<1>0. \A n \in Numbers : t[<<l, n>>].date \in Nat /\ t[<<l, n>>].date <= b
  <2> TAKE n \in Numbers
  <2>1. <<l, n>> \in Parts
    BY DEF Parts
  <2> QED
    BY <2>1 DEF Row
<1>1. dates \in SUBSET Nat /\ dates # {} /\ \A d \in dates : d <= b
  BY <1>0
<1> HIDE DEF dates
<1>2. IsFiniteSet(dates)
  BY <1>1, FS_BoundedSetOfNaturals
<1>3. \E m \in dates : \A d \in dates : m >= d
  BY <1>1, <1>2, LargestExists
<1>4. Max(dates) \in dates /\ \A d \in dates : Max(dates) >= d
  BY <1>3 DEF Max
<1> QED
  BY <1>4 DEF LatestOf, dates

(* A row that is written gets the date of its notice; a line notice writes *)
(* none that is newer.                                                     *)
LEMMA DeliveredDates ==
  ASSUME TypeOK, DatesInv, NEW i \in 1..Len(mail), Apply(i)
  PROVE  /\ \A p \in Parts : rows'[p].date <= Len(mail)
         /\ mail[i].kind \notin {"accept", "reject"} =>
              \A p \in Parts : rows'[p].date >= rows[p].date
         /\ mail[i].kind = "reject" =>
              \E n \in Numbers : \A l \in Lines : rows'[<<l, n>>].date = i
<1>1. i \in Nat /\ i <= Len(mail) /\ Len(mail) \in Nat /\ mail[i] \in Notice
  BY DEF TypeOK
<1>2. \A p \in Parts : rows[p] \in Row /\ rows[p].date \in Nat
  BY DEF TypeOK, Row
<1>3. rows' = NewRows(mail[i], i)
  BY DEF Apply
<1>4. CASE mail[i].kind \in {"accept", "reject"}
  <2>1. rows' = WholeRows(mail[i], i)
    BY <1>3, <1>4 DEF NewRows
  <2>2. \A p \in Parts : rows'[p].date \in {0, i}
    BY <2>1 DEF WholeRows, NoRow
  <2>3. mail[i].number \in Numbers
    BY <1>1 DEF Notice
  <2>4. \A l \in Lines : rows'[<<l, mail[i].number>>].date = i
    BY <2>1, <2>3 DEF WholeRows, Parts
  <2> QED
    BY <1>1, <1>4, <2>2, <2>3, <2>4
<1>5. CASE mail[i].kind \notin {"accept", "reject"}
  <2> DEFINE q == <<mail[i].line, mail[i].number>>
  <2>1. q \in Parts
    BY <1>1 DEF Notice, Parts
  <2>2. rows' = [rows EXCEPT ![q] = LineRow(mail[i], rows[q], i)]
    BY <1>3, <1>5 DEF NewRows
  <2>3. LineRow(mail[i], rows[q], i).date
          = IF Outdated(rows[q], i) THEN rows[q].date ELSE i
    BY DEF LineRow
  <2>4. /\ LineRow(mail[i], rows[q], i).date >= rows[q].date
        /\ LineRow(mail[i], rows[q], i).date <= Len(mail)
    BY <1>1, <1>2, <2>1, <2>3 DEF Outdated, DatesInv
  <2> HIDE DEF q
  <2>5. ASSUME NEW p \in Parts
        PROVE  rows'[p].date >= rows[p].date /\ rows'[p].date <= Len(mail)
    <3>1. CASE p = q
      BY <2>1, <2>2, <2>4, <3>1 DEF TypeOK
    <3>2. CASE p # q
      <4>1. rows'[p] = rows[p]
        BY <2>2, <3>2 DEF TypeOK
      <4> QED
        BY <1>1, <1>2, <4>1 DEF DatesInv
    <3> QED
      BY <3>1, <3>2
  <2> QED
    BY <1>5, <2>5
<1> QED
  BY <1>4, <1>5

(* The rows of every line stay, or one takes the date of the last notice.  *)
LEMMA DeliveredNothingOlder ==
  ASSUME TypeOK, RefusalInv, DatesInv, NEW i \in 1..Len(mail), Apply(i),
         mail[i].kind # "accept"
  PROVE  NothingOlder
<1> DEFINE b == Len(mail)
<1>0. b \in Nat /\ i \in 1..b
  BY DEF TypeOK
<1>1. rows \in [Parts -> Row] /\ rows' \in [Parts -> Row]
  BY NewRowsType DEF TypeOK, Apply
<1>2. /\ \A p \in Parts : rows'[p].date <= b
      /\ mail[i].kind # "reject" =>
           \A p \in Parts : rows'[p].date >= rows[p].date
      /\ mail[i].kind = "reject" =>
           \E n \in Numbers : \A l \in Lines : rows'[<<l, n>>].date = i
  BY DeliveredDates
<1>3. \A p \in Parts : rows[p].date <= b
  BY DEF DatesInv
<1>4. mail[i].kind = "reject" => i = b
  BY DEF RefusalInv
<1> HIDE DEF b
<1> SUFFICES ASSUME NEW l \in Lines
             PROVE  LatestOf(rows', l) >= LatestOf(rows, l)
  BY DEF NothingOlder
<1>5. PICK n \in Numbers : LatestOf(rows, l) = rows[<<l, n>>].date
  BY <1>0, <1>1, <1>3, LatestIsLargest
<1>6. \A k \in Numbers : LatestOf(rows', l) >= rows'[<<l, k>>].date
  <2> DEFINE t == rows'
  <2>1. t \in [Parts -> Row] /\ \A p \in Parts : t[p].date <= b
    BY <1>1, <1>2
  <2> HIDE DEF t
  <2>2. \A k \in Numbers : LatestOf(t, l) >= t[<<l, k>>].date
    BY <1>0, <2>1, LatestIsLargest
  <2> QED
    BY <2>2 DEF t
<1>7. \E m \in Numbers : LatestOf(rows', l) = rows'[<<l, m>>].date
  <2> DEFINE t == rows'
  <2>1. t \in [Parts -> Row] /\ \A p \in Parts : t[p].date <= b
    BY <1>1, <1>2
  <2> HIDE DEF t
  <2>2. \E m \in Numbers : LatestOf(t, l) = t[<<l, m>>].date
    BY <1>0, <2>1, LatestIsLargest
  <2> QED
    BY <2>2 DEF t
<1>8. \A k \in Numbers :
        /\ <<l, k>> \in Parts
        /\ rows[<<l, k>>].date \in Nat /\ rows'[<<l, k>>].date \in Nat
  BY <1>1 DEF Parts, Row
<1>9. \E k \in Numbers : rows'[<<l, k>>].date >= rows[<<l, n>>].date
  <2>1. CASE mail[i].kind = "reject"
    BY <1>0, <1>2, <1>3, <1>4, <1>8, <2>1
  <2>2. CASE mail[i].kind # "reject"
    BY <1>2, <1>8, <2>2
  <2> QED
    BY <2>1, <2>2
<1>10. PICK k \in Numbers : rows'[<<l, k>>].date >= rows[<<l, n>>].date
  BY <1>9
<1> DEFINE latest == LatestOf(rows', l)
           x == rows'[<<l, k>>].date
           y == rows[<<l, n>>].date
<1>11. latest \in Nat /\ x \in Nat /\ y \in Nat
  BY <1>7, <1>8
<1>12. latest >= x /\ x >= y
  BY <1>6, <1>10
<1> HIDE DEF latest, x, y
<1>13. latest >= y
  BY <1>11, <1>12
<1> QED
  BY <1>5, <1>13 DEF latest, y

DatedInv == TypeOK /\ RefusalInv /\ DatesInv

LEMMA DatedInit == Init => DatedInv
<1>1. Init => TypeOK
  BY InitInv DEF Inv
<1>2. Len(<<>>) = 0 /\ 1..0 = {}
  OBVIOUS
<1>3. Init => RefusalInv /\ DatesInv
  BY <1>2 DEF Init, RefusalInv, DatesInv, NoRow
<1> QED
  BY <1>1, <1>3 DEF DatedInv

LEMMA DatedNext ==
  ASSUME Inv, DatedInv, [Next]_vars
  PROVE  DatedInv'
<1>0. TypeOK'
  BY NextInv DEF Inv
<1>1. CASE AmazonStep
  BY <1>0, <1>1, AmazonRefusalDates DEF DatedInv
<1>2. ASSUME NEW i \in 1..Len(mail), Apply(i)
      PROVE  DatedInv'
  <2>1. \A p \in Parts : rows'[p].date <= Len(mail)
    BY <1>2, DeliveredDates DEF DatedInv
  <2>2. mail' = mail /\ truth' = truth
    BY <1>2 DEF Apply
  <2> QED
    BY <1>0, <2>1, <2>2 DEF DatedInv, RefusalInv, Refused, DatesInv
<1>3. CASE UNCHANGED <<rows, mail, truth>>
  BY <1>0, <1>3 DEF DatedInv, RefusalInv, Refused, DatesInv
<1> QED
  BY <1>1, <1>2, <1>3 DEF Next, vars, Deliver, SubmissionEnds,
     UserSetsStatus, ReceiveGoods

(* A delayed, repeated or overtaken line notice never sets a line back,    *)
(* over any network (amazon_confirmation.go 202-206).                      *)
THEOREM LineNoticesKeepOrder == Spec => NewerLineNoticeStands
<1>1. ASSUME Inv, DatedInv, [Next]_vars,
             \A i \in 1..Len(mail) : mail[i].kind # "accept"
      PROVE  NothingOlder
  <2>1. ASSUME NEW i \in 1..Len(mail), Apply(i)
        PROVE  NothingOlder
    BY <1>1, <2>1, DeliveredNothingOlder DEF DatedInv
  <2>2. CASE rows' = rows
    <3>0. rows \in [Parts -> Row] /\ Len(mail) \in Nat
      BY <1>1 DEF DatedInv, TypeOK
    <3> SUFFICES ASSUME NEW l \in Lines
                 PROVE  LatestOf(rows, l) >= LatestOf(rows, l)
      BY <2>2 DEF NothingOlder
    <3>1. \E n \in Numbers : LatestOf(rows, l) = rows[<<l, n>>].date
      BY <1>1, <3>0, LatestIsLargest DEF DatedInv, DatesInv
    <3>2. LatestOf(rows, l) \in Nat
      BY <3>0, <3>1 DEF Parts, Row
    <3> QED
      BY <3>2
  <2>3. AmazonStep => rows' = rows
    BY <1>1, AmazonType DEF DatedInv
  <2> QED
    BY <1>1, <2>1, <2>2, <2>3 DEF Next, vars, Deliver, SubmissionEnds,
       UserSetsStatus, ReceiveGoods
<1>2. Inv /\ DatedInv /\ [Next]_vars => DatedInv'
  BY DatedNext
<1>3. Inv /\ DatedInv /\ [Next]_vars =>
        [(\A i \in 1..Len(mail) : mail[i].kind # "accept")
           => NothingOlder]_vars
  BY <1>1
<1> QED
  BY Invariant, DatedInit, <1>2, <1>3, PTL DEF Spec, NewerLineNoticeStands

-----------------------------------------------------------------------------
(* What notices make of any rows; a history of decisions holds what Amazon *)
(* had decided after each notice, and the handler, applying them in order, *)
(* goes through the same rows.                                             *)
RowsAfter(t, notice, date) ==
  IF notice.kind \in {"accept", "reject"}
    THEN WholeRows(notice, date)
    ELSE [t EXCEPT ![<<notice.line, notice.number>>] =
            LineRow(notice, @, date)]

IsHistory(h, notices, decided) ==
  /\ h \in [0..Len(notices) -> [Parts -> Row]]
  /\ h[Len(notices)] = decided
  /\ \A i \in 1..Len(notices) : h[i] = RowsAfter(h[i - 1], notices[i], i)

HistoryInv ==
  \E h : /\ IsHistory(h, mail, truth)
         /\ ordered =>
              \E k \in 0..Len(mail) : seen = 1..k /\ rows = h[k]

(* Amazon's own rows are dated by its notices, and empty before. *)
TruthInv ==
  \A p \in Parts : /\ truth[p].date <= Len(mail)
                   /\ truth[p].date = 0 => truth[p].acc = 0

(* What Amazon decides is what the handler makes of its notice.            *)
LEMMA WholeDecided ==
  ASSUME TypeOK, NEW n \in Numbers, NEW kind \in {"accept", "reject"},
         AmazonDecidesOrder(n, kind)
  PROVE  \E notice : /\ Send(notice)
                     /\ truth' = RowsAfter(truth, notice, Len(mail) + 1)
<1> DEFINE notice == [kind |-> kind, number |-> n,
                      line |-> CHOOSE l \in Lines : TRUE,
                      acc |-> 0, rej |-> 0]
<1>1. Send(notice) /\ truth' = Whole(n, kind)
  BY DEF AmazonDecidesOrder
<1>2. Whole(n, kind) = WholeRows(notice, Len(mail) + 1)
  BY DEF Whole, WholeRows
<1>3. RowsAfter(truth, notice, Len(mail) + 1)
        = WholeRows(notice, Len(mail) + 1)
  BY DEF RowsAfter
<1> QED
  BY <1>1, <1>2, <1>3

LEMMA LineDecided ==
  ASSUME TypeOK, TruthInv, NEW l \in Lines, NEW n \in Numbers,
         NEW a \in Units, NEW r \in Units, AmazonDecidesLine(l, n, a, r)
  PROVE  \E notice : /\ Send(notice)
                     /\ truth' = RowsAfter(truth, notice, Len(mail) + 1)
<1> DEFINE notice == [kind |-> "detail", number |-> n, line |-> l,
                      acc |-> a, rej |-> r]
           date == Len(mail) + 1
           p == <<l, n>>
<1>0. p \in Parts /\ Len(mail) \in Nat /\ truth[p] \in Row
  BY DEF Parts, TypeOK
<1>1. /\ Send(notice)
      /\ truth' = [truth EXCEPT ![p] = [acc |-> a, rej |-> r, date |-> date]]
  BY DEF AmazonDecidesLine
<1>2. ~Outdated(truth[p], date)
  BY <1>0 DEF Outdated, TruthInv, Row
<1>3. LineRow(notice, truth[p], date)
        = [acc |-> a, rej |-> r, date |-> date]
  BY <1>2 DEF LineRow, IsPartialCancel
<1>4. RowsAfter(truth, notice, date)
        = [truth EXCEPT ![p] = LineRow(notice, truth[p], date)]
  BY DEF RowsAfter
<1> QED
  BY <1>1, <1>3, <1>4

LEMMA PartCancelled ==
  ASSUME ~CancelsRest, TypeOK, TruthInv, NEW l \in Lines,
         NEW n \in Numbers, NEW r \in Units, AmazonCancelsPart(l, n, r)
  PROVE  \E notice : /\ Send(notice)
                     /\ truth' = RowsAfter(truth, notice, Len(mail) + 1)
<1> DEFINE notice == [kind |-> "update", number |-> n, line |-> l,
                      acc |-> 0, rej |-> r]
           date == Len(mail) + 1
           p == <<l, n>>
           part == truth[p]
           after == [acc |-> part.acc - r, rej |-> part.rej + r, date |-> date]
<1>0. p \in Parts /\ Len(mail) \in Nat /\ part \in Row
  BY DEF Parts, TypeOK
<1>1. Send(notice) /\ truth' = [truth EXCEPT ![p] = after]
  BY DEF AmazonCancelsPart
<1>2. /\ part.acc \in Nat /\ part.rej \in Nat /\ part.date \in Nat
      /\ r \in Nat /\ r > 0 /\ r <= part.acc
      /\ r = part.acc => part.rej = 0
  BY <1>0 DEF AmazonCancelsPart, Row
<1>3. part.date > 0 /\ part.date <= Len(mail)
  BY <1>0, <1>2 DEF TruthInv
<1>4. ~Outdated(part, date)
  BY <1>0, <1>2, <1>3 DEF Outdated
<1>5. LineRow(notice, part, date) = after
  <2> HIDE DEF part, date
  <2>1. CASE r < part.acc
    <3>1. IsPartialCancel(notice, part)
      BY <1>2, <1>3, <2>1 DEF IsPartialCancel
    <3> QED
      BY <1>4, <3>1 DEF LineRow
  <2>2. CASE r = part.acc
    <3>1. ~IsPartialCancel(notice, part)
      BY <1>2, <2>2 DEF IsPartialCancel
    <3>2. part.acc - r = 0 /\ part.rej + r = r
      BY <1>2, <2>2
    <3> QED
      BY <1>4, <3>1, <3>2 DEF LineRow
  <2> QED
    BY <1>2, <2>1, <2>2
<1>6. RowsAfter(truth, notice, date)
        = [truth EXCEPT ![p] = LineRow(notice, part, date)]
  BY DEF RowsAfter
<1> QED
  BY <1>1, <1>5, <1>6

LEMMA AmazonDecides ==
  ASSUME ~CancelsRest, TypeOK, TruthInv, AmazonStep
  PROVE  /\ truth' = RowsAfter(truth, mail'[Len(mail) + 1], Len(mail) + 1)
         /\ Len(mail) \in Nat
         /\ Len(mail') = Len(mail) + 1
         /\ \A i \in 1..Len(mail) : mail'[i] = mail[i]
<1>1. \E notice : /\ Send(notice)
                  /\ truth' = RowsAfter(truth, notice, Len(mail) + 1)
  BY WholeDecided, LineDecided, PartCancelled DEF AmazonStep
<1>2. ASSUME NEW notice, Send(notice)
      PROVE  mail'[Len(mail) + 1] = notice
  BY <1>2 DEF Send, TypeOK
<1> QED
  BY <1>1, <1>2, AmazonSends

LEMMA TruthNext ==
  ASSUME ~CancelsRest, TypeOK, TruthInv, AmazonStep
  PROVE  TruthInv'
<1> DEFINE notice == mail'[Len(mail) + 1]
           date == Len(mail) + 1
<1>1. /\ truth' = RowsAfter(truth, notice, date)
      /\ date \in Nat /\ date > 0 /\ Len(mail') = date
  BY AmazonDecides
<1>2. \A p \in Parts : truth[p] \in Row /\ truth[p].date \in Nat
  BY DEF TypeOK, Row
<1>3. truth' \in [Parts -> Row]
  BY AmazonType DEF TypeOK
<1>4. Len(mail) \in Nat /\ \A p \in Parts : truth[p].date <= date
  BY <1>2 DEF TypeOK, TruthInv
<1> SUFFICES ASSUME NEW p \in Parts
             PROVE  /\ truth'[p].date <= date
                    /\ truth'[p].date = 0 => truth'[p].acc = 0
  BY <1>1 DEF TruthInv
<1> HIDE DEF notice, date
<1>5. CASE notice.kind \in {"accept", "reject"}
  <2>1. truth' = WholeRows(notice, date)
    BY <1>1, <1>5 DEF RowsAfter
  <2>2. truth'[p] = NoRow \/ truth'[p].date = date
    BY <2>1 DEF WholeRows
  <2> QED
    BY <1>1, <2>2 DEF NoRow
<1>6. CASE notice.kind \notin {"accept", "reject"}
  <2> DEFINE q == <<notice.line, notice.number>>
  <2>1. truth' = [truth EXCEPT ![q] = LineRow(notice, truth[q], date)]
    BY <1>1, <1>6 DEF RowsAfter
  <2> HIDE DEF q
  <2>2. truth'[p] = truth[p] \/ truth'[p] = LineRow(notice, truth[p], date)
    BY <2>1 DEF TypeOK
  <2>3. \/ LineRow(notice, truth[p], date) = truth[p]
        \/ LineRow(notice, truth[p], date).date = date
    BY DEF LineRow
  <2>4. truth'[p] = truth[p] \/ truth'[p].date = date
    BY <2>2, <2>3
  <2> QED
    BY <1>1, <1>4, <2>4 DEF TruthInv
<1> QED
  BY <1>5, <1>6

LEMMA HistoryGrows ==
  ASSUME ~CancelsRest, TypeOK, TruthInv, HistoryInv, AmazonStep
  PROVE  HistoryInv'
<1> DEFINE date == Len(mail) + 1
<1>1. /\ truth' = RowsAfter(truth, mail'[date], date)
      /\ Len(mail) \in Nat
      /\ Len(mail') = date
      /\ \A i \in 1..Len(mail) : mail'[i] = mail[i]
  BY AmazonDecides
<1>2. truth' \in [Parts -> Row] /\ UNCHANGED <<rows, seen, ordered>>
  BY AmazonType DEF TypeOK
<1>3. PICK h : /\ IsHistory(h, mail, truth)
               /\ ordered =>
                    \E k \in 0..Len(mail) : seen = 1..k /\ rows = h[k]
  BY DEF HistoryInv
<1> PICK longer :
      longer = [i \in 0..date |-> IF i = date THEN truth' ELSE h[i]]
  OBVIOUS
<1>4. longer \in [0..Len(mail') -> [Parts -> Row]] /\ longer[date] = truth'
  BY <1>1, <1>2, <1>3 DEF IsHistory
<1>5. \A i \in 0..Len(mail) : longer[i] = h[i]
  BY <1>1
<1>6. ASSUME NEW i \in 1..date
      PROVE  longer[i] = RowsAfter(longer[i - 1], mail'[i], i)
  <2>1. CASE i = date
    <3>1. i - 1 = Len(mail) /\ i - 1 \in 0..Len(mail)
      BY <1>1, <2>1
    <3>2. longer[i - 1] = truth
      BY <1>3, <1>5, <3>1 DEF IsHistory
    <3> QED
      BY <1>1, <1>4, <2>1, <3>2
  <2>2. CASE i # date
    <3>1. i \in 1..Len(mail) /\ i - 1 \in 0..Len(mail) /\ i \in 0..Len(mail)
      BY <1>1, <2>2
    <3>2. h[i] = RowsAfter(h[i - 1], mail[i], i)
      BY <1>3, <3>1 DEF IsHistory
    <3> QED
      BY <1>1, <1>5, <3>1, <3>2
  <2> QED
    BY <2>1, <2>2
<1>7. IsHistory(longer, mail', truth')
  BY <1>1, <1>4, <1>6 DEF IsHistory
<1>8. ASSUME ordered'
      PROVE  \E k \in 0..Len(mail') : seen' = 1..k /\ rows' = longer[k]
  <2>1. PICK k \in 0..Len(mail) : seen = 1..k /\ rows = h[k]
    BY <1>2, <1>3, <1>8
  <2>2. k \in 0..Len(mail') /\ rows' = longer[k] /\ seen' = 1..k
    BY <1>1, <1>2, <1>5, <2>1
  <2> QED
    BY <2>2
<1> QED
  BY <1>7, <1>8 DEF HistoryInv

(* An ordered network delivers the notice after those seen, and the        *)
(* handler does with it what Amazon did.                                   *)
LEMMA HistoryDelivered ==
  ASSUME TypeOK, HistoryInv, NEW i \in 1..Len(mail), Deliver(i)
  PROVE  HistoryInv'
<1>1. PICK h : /\ IsHistory(h, mail, truth)
               /\ ordered =>
                    \E k \in 0..Len(mail) : seen = 1..k /\ rows = h[k]
  BY DEF HistoryInv
<1>2. /\ i \notin seen /\ seen' = seen \cup {i}
      /\ rows' = NewRows(mail[i], i)
      /\ UNCHANGED <<mail, truth, ordered>>
      /\ ordered => 1..(i - 1) \subseteq seen
  BY DEF Deliver, Apply
<1>3. IsHistory(h, mail', truth')
  BY <1>1, <1>2
<1>4. ASSUME ordered
      PROVE  \E k \in 0..Len(mail) : seen' = 1..k /\ rows' = h[k]
  <2>1. PICK k \in 0..Len(mail) : seen = 1..k /\ rows = h[k]
    BY <1>1, <1>4
  <2>2. Len(mail) \in Nat /\ i \in Nat /\ i >= 1 /\ i <= Len(mail)
        /\ k \in Nat
    BY DEF TypeOK
  <2>3. i = k + 1
    <3>1. ~(i <= k)
      BY <1>2, <2>1, <2>2
    <3>2. ~(i > k + 1)
      <4>1. ASSUME i > k + 1
            PROVE  FALSE
        <5>1. k + 1 \in 1..(i - 1) /\ k + 1 \notin 1..k
          BY <2>2, <4>1
        <5> QED
          BY <1>2, <1>4, <2>1, <5>1
      <4> QED
        BY <4>1
    <3> QED
      BY <2>2, <3>1, <3>2
  <2>4. seen' = 1..i
    BY <1>2, <2>1, <2>2, <2>3
  <2>5. rows = h[i - 1]
    BY <2>1, <2>2, <2>3
  <2>6. NewRows(mail[i], i) = RowsAfter(rows, mail[i], i)
    BY DEF NewRows, RowsAfter
  <2>7. h[i] = RowsAfter(h[i - 1], mail[i], i)
    BY <1>1 DEF IsHistory
  <2>8. i \in 0..Len(mail) /\ rows' = h[i]
    BY <1>2, <2>2, <2>5, <2>6, <2>7
  <2> QED
    BY <2>4, <2>8
<1> QED
  BY <1>2, <1>3, <1>4 DEF HistoryInv

-----------------------------------------------------------------------------
LedgerInv == TruthInv /\ HistoryInv

LEMMA LedgerInit == Init => LedgerInv
<1> SUFFICES ASSUME Init PROVE LedgerInv
  OBVIOUS
<1>1. Len(mail) = 0 /\ 1..0 = {} /\ 0..0 = {0}
  BY DEF Init
<1>2. TruthInv
  BY <1>1 DEF Init, TruthInv, NoRow
<1>3. truth \in [Parts -> Row] /\ rows = truth /\ seen = {}
  BY InitInv DEF Inv, TypeOK, Init
<1> PICK h : h = [i \in 0..0 |-> truth]
  OBVIOUS
<1>4. IsHistory(h, mail, truth)
  BY <1>1, <1>3 DEF IsHistory
<1>5. 0 \in 0..Len(mail) /\ seen = 1..0 /\ rows = h[0]
  BY <1>1, <1>3
<1> QED
  BY <1>2, <1>4, <1>5 DEF LedgerInv, HistoryInv

LEMMA LedgerNext ==
  ASSUME ~CancelsRest, Inv, LedgerInv, [Next]_vars
  PROVE  LedgerInv'
<1>1. CASE AmazonStep
  BY <1>1, TruthNext, HistoryGrows DEF Inv, LedgerInv
<1>2. ASSUME NEW i \in 1..Len(mail), Deliver(i)
      PROVE  LedgerInv'
  <2>1. HistoryInv'
    BY <1>2, HistoryDelivered DEF Inv, LedgerInv
  <2>2. UNCHANGED <<mail, truth>>
    BY <1>2 DEF Deliver, Apply
  <2> QED
    BY <2>1, <2>2 DEF LedgerInv, TruthInv
<1>3. CASE UNCHANGED <<rows, seen, mail, truth, ordered>>
  BY <1>3 DEF LedgerInv, TruthInv, HistoryInv
<1> QED
  BY <1>1, <1>2, <1>3 DEF Next, vars, SubmissionEnds, UserSetsStatus,
     ReceiveGoods

(* When Amazon never cancels the rest of a share it had refused in part,   *)
(* the split rows, the partial cancellations and the rewriting of rows by  *)
(* whole-order notices add up to what Amazon decided, for any order and    *)
(* any number of notices (amazon_confirmation.go 142-270).  Without that   *)
(* hypothesis it is false: run confirmation_rest.                          *)
THEOREM RowsCatchUp ==
  ASSUME ~CancelsRest
  PROVE  Spec => []CaughtUp
<1>1. TypeOK /\ LedgerInv => CaughtUp
  <2> SUFFICES ASSUME TypeOK, LedgerInv, ordered, AllSeen
               PROVE  rows = truth
    BY DEF CaughtUp
  <2>1. PICK h : /\ IsHistory(h, mail, truth)
                 /\ \E k \in 0..Len(mail) : seen = 1..k /\ rows = h[k]
    BY DEF LedgerInv, HistoryInv
  <2>2. PICK k \in 0..Len(mail) : seen = 1..k /\ rows = h[k]
    BY <2>1
  <2>3. k = Len(mail)
    <3>1. Len(mail) \in Nat /\ k \in Nat /\ k <= Len(mail)
      BY DEF TypeOK
    <3>2. Len(mail) >= 1 => Len(mail) \in 1..k
      BY <2>2, <3>1 DEF AllSeen
    <3> QED
      BY <3>1, <3>2
  <2> QED
    BY <2>1, <2>2, <2>3 DEF IsHistory
<1>2. Inv /\ LedgerInv /\ [Next]_vars => LedgerInv'
  BY LedgerNext
<1>3. Inv => TypeOK
  BY DEF Inv
<1> QED
  BY Invariant, LedgerInit, <1>1, <1>2, <1>3, PTL DEF Spec

-----------------------------------------------------------------------------
(* The rows never add up to a refusal of everything while the order reads  *)
(* otherwise, over any network: a confirmation says so at once, and what   *)
(* else changes the status leaves a cancelled order alone.                 *)
RejectedInv == TotalRejected(rows) = Requested => status = "cancelled"

LEMMA RejectedInit == Init => RejectedInv
<1>1. Init => \A p \in Parts : rows[p] = NoRow
  BY DEF Init
<1>2. Init => TotalRejected(rows) = 0
  BY <1>1, SumsOfNoRow
<1> QED
  BY <1>2, RequestedPositive DEF RejectedInv

LEMMA RejectedNext ==
  ASSUME Inv, RejectedInv, [Next]_vars
  PROVE  RejectedInv'
<1>1. ASSUME NEW i \in 1..Len(mail), Apply(i)
      PROVE  RejectedInv'
  <2> PICK new : new = NewRows(mail[i], i)
    OBVIOUS
  <2>1. rows' = new /\ status' = ConfirmedStatus(new)
    BY <1>1 DEF Apply
  <2>2. TotalRejected(new) = Requested => ConfirmedStatus(new) = "cancelled"
    BY DEF ConfirmedStatus
  <2>3. TotalRejected(rows') = TotalRejected(new)
    BY <2>1
  <2> QED
    BY <2>1, <2>2, <2>3 DEF RejectedInv
<1>2. ASSUME rows' = rows, status = "cancelled" => status' = "cancelled"
      PROVE  RejectedInv'
  BY <1>2 DEF RejectedInv
<1>3. AmazonStep => rows' = rows /\ status' = status
  BY AmazonType DEF Inv
<1>4. ASSUME NEW s \in Statuses, UserSetsStatus(s)
      PROVE  rows' = rows /\ (status = "cancelled" => status' = "cancelled")
  BY <1>4 DEF UserSetsStatus, TransitionAllowed
<1> QED
  BY <1>1, <1>2, <1>3, <1>4 DEF Next, vars, Deliver, SubmissionEnds,
     ReceiveGoods, Receivable

(* An order that Amazon has refused unit by unit or as a whole reads as    *)
(* cancelled as soon as the notices are in (README.md 387-388), under the  *)
(* same hypothesis on Amazon.                                              *)
THEOREM RefusedOrdersAreCancelled ==
  ASSUME ~CancelsRest
  PROVE  Spec => []FullyRejectedIsCancelled
<1>1. CaughtUp /\ RejectedInv => FullyRejectedIsCancelled
  BY DEF CaughtUp, RejectedInv, FullyRejectedIsCancelled
<1>2. Inv /\ RejectedInv /\ [Next]_vars => RejectedInv'
  BY RejectedNext
<1> QED
  BY Invariant, RejectedInit, RowsCatchUp, <1>1, <1>2, PTL DEF Spec
=============================================================================
