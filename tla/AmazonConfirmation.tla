------------------------- MODULE AmazonConfirmation -------------------------
(***************************************************************************)
(* What Amazon reports back about one submitted order, and the goods that  *)
(* arrive for it: applyAmazonConfirmation in                               *)
(* src/internal/api/amazon_confirmation.go, and the order's side of        *)
(* applyGoodsReceipt and updateOrder in handler.go.                        *)
(*                                                                         *)
(* Amazon splits an order over several Amazon order numbers and reports    *)
(* whole-order acceptances and rejections, line details, and later partial *)
(* cancellations.  The notices cross the network, where they are delayed,  *)
(* reordered, repeated and lost; every notice that was ever sent may be    *)
(* delivered again.  A refused notice (HTTP 409) changes nothing.          *)
(*                                                                         *)
(* Notice i is the i-th that Amazon sent; i is also its payload id and its *)
(* notice date.  Delivery dates and shipments are left out.                *)
(***************************************************************************)
EXTENDS Naturals, Sequences, FiniteSetsExt, OrderStatus

CONSTANTS
  Lines,          \* lines of the order
  Quantity,       \* what was ordered: [Lines -> Nat \ {0}]
  Numbers,        \* Amazon order numbers the order may be split over
  CancelsRest,    \* TRUE: Amazon may cancel the rest of a partly refused share
  NoticeBound,    \* bound: notices Amazon sends
  Over            \* bound: units delivered beyond a line's quantity

ASSUME ConfirmationConstants ==
  /\ Lines # {} /\ IsFiniteSet(Lines)
  /\ Numbers # {} /\ IsFiniteSet(Numbers)
  /\ Quantity \in [Lines -> Nat \ {0}]
  /\ CancelsRest \in BOOLEAN
  /\ NoticeBound \in Nat
  /\ Over \in Nat

VARIABLES
  status,     \* proc_purchase_orders.status
  rows,       \* proc_amazon_line_confirmations; date 0: no such row
  seen,       \* proc_amazon_confirmation_events
  received,   \* received_quantity of each line
  mail,       \* every notice Amazon has sent
  truth,      \* external: what Amazon has decided, as rows hold it
  ordered     \* the network of this behaviour keeps the order of notices

vars == <<status, rows, seen, received, mail, truth, ordered>>

Parts == Lines \X Numbers
Row == [acc : Nat, rej : Nat, date : Nat]
NoRow == [acc |-> 0, rej |-> 0, date |-> 0]

(* Whole-order notices carry no items; the others one item for a line and  *)
(* a number (the handler first adds up the items of the same pair).        *)
Kinds == {"accept", "reject", "detail", "update"}
Notice == [kind : Kinds, number : Numbers, line : Lines, acc : Nat, rej : Nat]

TypeOK ==
  /\ status \in Statuses
  /\ rows \in [Parts -> Row]
  /\ seen \subseteq 1..Len(mail)
  /\ received \in [Lines -> Nat]
  /\ mail \in Seq(Notice)
  /\ truth \in [Parts -> Row]
  /\ ordered \in BOOLEAN

Init ==
  /\ status = "submitting"
  /\ rows = [p \in Parts |-> NoRow]
  /\ seen = {}
  /\ received = [l \in Lines |-> 0]
  /\ mail = <<>>
  /\ truth = [p \in Parts |-> NoRow]
  /\ ordered \in BOOLEAN

-----------------------------------------------------------------------------
(* Sums over the numbers of a line, and over the order.                    *)

Accepted(t, l) == SumFunctionOnSet([n \in Numbers |-> t[<<l, n>>].acc], Numbers)
Rejected(t, l) == SumFunctionOnSet([n \in Numbers |-> t[<<l, n>>].rej], Numbers)
HasRow(t, l) == \E n \in Numbers : t[<<l, n>>].date > 0

TotalAccepted(t) == SumFunctionOnSet([l \in Lines |-> Accepted(t, l)], Lines)
TotalRejected(t) == SumFunctionOnSet([l \in Lines |-> Rejected(t, l)], Lines)
Requested == SumFunctionOnSet(Quantity, Lines)

-----------------------------------------------------------------------------
(* Amazon (external).  A notice says what Amazon has just decided.         *)

Undecided(l) == Quantity[l] - Accepted(truth, l) - Rejected(truth, l)

Send(notice) ==
  /\ Len(mail) < NoticeBound
  /\ mail' = Append(mail, notice)
  /\ UNCHANGED <<status, rows, seen, received, ordered>>

(* The whole order is taken or refused under one number.  Nothing follows  *)
(* a refusal.                                                              *)
Whole(n, kind) ==
  [p \in Parts |->
     IF p[2] # n THEN NoRow
     ELSE [acc  |-> IF kind = "accept" THEN Quantity[p[1]] ELSE 0,
           rej  |-> IF kind = "reject" THEN Quantity[p[1]] ELSE 0,
           date |-> Len(mail) + 1]]

AmazonDecidesOrder(n, kind) ==
  /\ \/ /\ kind = "accept"
        /\ \A p \in Parts : truth[p] = NoRow
     \/ /\ kind = "reject"
        /\ TotalRejected(truth) < Requested
  /\ truth' = Whole(n, kind)
  /\ Send([kind |-> kind, number |-> n, line |-> CHOOSE l \in Lines : TRUE,
           acc |-> 0, rej |-> 0])

(* A share of a line is accepted or rejected under a number, once. *)
AmazonDecidesLine(l, n, a, r) ==
  /\ truth[<<l, n>>] = NoRow
  /\ a + r \in 1..Undecided(l)
  /\ truth' = [truth EXCEPT ![<<l, n>>] =
                 [acc |-> a, rej |-> r, date |-> Len(mail) + 1]]
  /\ Send([kind |-> "detail", number |-> n, line |-> l, acc |-> a, rej |-> r])

(* Part or all of an accepted share is cancelled later; the update names   *)
(* the cancelled quantity.                                                 *)
AmazonCancelsPart(l, n, r) ==
  /\ r \in 1..truth[<<l, n>>].acc
  /\ r = truth[<<l, n>>].acc /\ truth[<<l, n>>].rej > 0 => CancelsRest
  /\ truth' = [truth EXCEPT ![<<l, n>>] =
                 [acc |-> @.acc - r, rej |-> @.rej + r, date |-> Len(mail) + 1]]
  /\ Send([kind |-> "update", number |-> n, line |-> l, acc |-> 0, rej |-> r])

-----------------------------------------------------------------------------
(* applyAmazonConfirmation.                                                *)

(* Whole-order notices replace all rows, whatever the rows' dates. *)
WholeRows(notice, date) ==
  [p \in Parts |->
     IF p[2] # notice.number THEN NoRow
     ELSE [acc  |-> IF notice.kind = "accept" THEN Quantity[p[1]] ELSE 0,
           rej  |-> IF notice.kind = "reject" THEN Quantity[p[1]] ELSE 0,
           date |-> date]]

(* Variant with a defect: an old line notice overwrites a newer row. *)
NeverOutdated(row, date) == FALSE

(* The row already holds a newer notice: this one is recorded as seen and  *)
(* otherwise skipped.                                                      *)
Outdated(row, date) == row.date > date

(* Variant with a defect: a cancellation always replaces the row. *)
NeverPartial(notice, row) == FALSE

(* A cancellation of less than is accepted is subtracted; any other item   *)
(* replaces the row.                                                       *)
IsPartialCancel(notice, row) ==
  /\ row.date > 0
  /\ notice.kind = "update"
  /\ notice.acc = 0
  /\ notice.rej > 0
  /\ notice.rej < row.acc

LineRow(notice, row, date) ==
  IF Outdated(row, date) THEN row
  ELSE IF IsPartialCancel(notice, row)
    THEN [acc |-> row.acc - notice.rej, rej |-> row.rej + notice.rej,
          date |-> date]
    ELSE [acc |-> notice.acc, rej |-> notice.rej, date |-> date]

NewRows(notice, date) ==
  IF notice.kind \in {"accept", "reject"}
    THEN WholeRows(notice, date)
    ELSE [rows EXCEPT ![<<notice.line, notice.number>>] =
            LineRow(notice, @, date)]

(* No line has more units accounted for than were ordered. *)
Consistent(t) ==
  \A l \in Lines : Accepted(t, l) + Rejected(t, l) <= Quantity[l]

(* Variant with a defect: the order takes Amazon's word, not a status. *)
StatusOfAmazon(t) ==
  IF TotalRejected(t) = Requested THEN "rejected" ELSE "sent"

(* Variant with a defect: "partially confirmed" is tested for first. *)
PartialFirst(t) ==
  LET acc == TotalAccepted(t)
      rej == TotalRejected(t) IN
  IF rej > 0 /\ acc + rej = Requested THEN "partially_confirmed"
  ELSE IF acc = Requested THEN "confirmed"
  ELSE IF status = "cancelled" THEN "cancelled" ELSE "sent"

(* The status that the accepted and rejected totals call for. *)
ConfirmedStatus(t) ==
  LET acc == TotalAccepted(t)
      rej == TotalRejected(t) IN
  IF rej = Requested THEN "cancelled"
  ELSE IF acc = Requested THEN "confirmed"
  ELSE IF acc > 0 /\ rej > 0 /\ acc + rej = Requested
    THEN "partially_confirmed"
  ELSE IF status = "cancelled" THEN "cancelled" ELSE "sent"

(* Variant with a defect: confirmations are taken after goods arrived. *)
AlwaysOpen == TRUE

(* A delivered order is never silently cancelled or rewritten. *)
OpenForNotices == status \notin {"received", "partially_received"}

(* Variant with a defect: a cancelled order takes any confirmation. *)
MayRevive(new) == TRUE

NotRevived(new) == status = "cancelled" => new = "cancelled"

Apply(i) ==
  LET new == NewRows(mail[i], i) IN
  /\ i \notin seen
  /\ OpenForNotices
  /\ Consistent(new)
  /\ NotRevived(ConfirmedStatus(new))
  /\ rows' = new
  /\ status' = ConfirmedStatus(new)
  /\ seen' = seen \cup {i}
  /\ UNCHANGED <<received, mail, truth, ordered>>

(* The network delivers a notice.  A repeated one, and one that is         *)
(* refused, leaves everything as it was.                                   *)
Deliver(i) ==
  /\ ordered => 1..(i - 1) \subseteq seen
  /\ Apply(i)

-----------------------------------------------------------------------------
(* The rest of the order's life.                                           *)

(* finalizeAmazonSubmission stores the outcome of the submission. *)
SubmissionEnds(s) ==
  /\ status = "submitting"
  /\ status' = s
  /\ UNCHANGED <<rows, seen, received, mail, truth, ordered>>

UserSetsStatus(s) ==
  /\ s \notin {status, "draft", "submitting"}
  /\ TransitionAllowed(status, s)
  /\ status' = s
  /\ UNCHANGED <<rows, seen, received, mail, truth, ordered>>

(* Variant with a defect: the confirmed quantity is not looked at. *)
NoCap(l, q) == TRUE

(* Once Amazon has reported on the line, no more than it accepted may be   *)
(* booked in.                                                              *)
WithinConfirmed(l, q) ==
  HasRow(rows, l) => received[l] + q <= Accepted(rows, l)

ReceiveGoods(l, q) ==
  /\ status \in Receivable
  /\ received[l] + q <= Quantity[l] + Over
  /\ WithinConfirmed(l, q)
  /\ received' = [received EXCEPT ![l] = @ + q]
  /\ status' = IF \A k \in Lines : received'[k] >= Quantity[k]
                 THEN "received" ELSE "partially_received"
  /\ UNCHANGED <<rows, seen, mail, truth, ordered>>

-----------------------------------------------------------------------------
Units == 0..(Requested + Over)

AmazonStep ==
  \/ \E n \in Numbers, kind \in {"accept", "reject"} :
       AmazonDecidesOrder(n, kind)
  \/ \E l \in Lines, n \in Numbers, a, r \in Units :
       AmazonDecidesLine(l, n, a, r)
  \/ \E l \in Lines, n \in Numbers, r \in Units : AmazonCancelsPart(l, n, r)

Next ==
  \/ AmazonStep
  \/ \E i \in 1..Len(mail) : Deliver(i)
  \/ \E s \in {"sent", "submission_unknown"} : SubmissionEnds(s)
  \/ \E s \in Statuses : UserSetsStatus(s)
  \/ \E l \in Lines, q \in Units \ {0} : ReceiveGoods(l, q)

Spec == Init /\ [][Next]_vars

-----------------------------------------------------------------------------
(* Properties.                                                             *)

AllSeen == seen = 1..Len(mail)

(* Over a network that keeps the order of notices, and repeats them at     *)
(* will, a system that has taken every notice holds exactly what Amazon    *)
(* decided: the split rows, the partial cancellations and the rewriting of *)
(* rows by whole-order notices add up to the truth.                        *)
CaughtUp == ordered /\ AllSeen => rows = truth

(* An order that Amazon has refused unit by unit or as a whole reads as    *)
(* cancelled as soon as the notices are in (README.md 387-388).            *)
FullyRejectedIsCancelled ==
  /\ ordered
  /\ AllSeen
  /\ TotalRejected(truth) = Requested
  /\ OpenForNotices
  => status = "cancelled"

(* While goods are coming in for an order, no line holds more of them than *)
(* Amazon confirmed, whichever of the confirmation and the delivery came   *)
(* first and whatever arrives late (README.md 389-390).                    *)
ReceivedWithinConfirmed ==
  status \in {"partially_received", "received"} =>
    \A l \in Lines : received[l] > 0 /\ HasRow(rows, l) =>
      received[l] <= Accepted(rows, l)

(* The rows say what happened to goods in stock: no confirmation cancels   *)
(* or rewrites a line after goods arrived for it                           *)
(* (amazon_confirmation.go 150), whatever users do to the status, short of *)
(* cancelling the rest of the order.                                       *)
DeliveredRowsStand ==
  [][\A l \in Lines, n \in Numbers :
       received[l] > 0 /\ rows'[<<l, n>>] # rows[<<l, n>>]
         => status = "cancelled"]_vars

(* A cancelled order stays cancelled, whichever notice, delivery or user   *)
(* comes next: accepting it again would bring goods nobody expects.        *)
CancelledStays == [][status = "cancelled" => status' = "cancelled"]_vars

(* What is known of a line never becomes older. *)
LatestOf(t, l) == Max({t[<<l, n>>].date : n \in Numbers})
NothingOlder == \A l \in Lines : LatestOf(rows', l) >= LatestOf(rows, l)

(* A delayed notice never undoes a newer one: "delayed older update must   *)
(* not undo a cancellation" (amazon_confirmation.go 203).                  *)
NewerNoticeStands == [][NothingOlder]_vars

(* That much holds of every order that Amazon confirms line by line: a     *)
(* delayed, repeated or overtaken line notice never sets a line back.      *)
NewerLineNoticeStands ==
  [][(\A i \in 1..Len(mail) : mail[i].kind # "accept") => NothingOlder]_vars
=============================================================================
