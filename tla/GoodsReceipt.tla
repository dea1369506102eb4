---------------------------- MODULE GoodsReceipt ----------------------------
(***************************************************************************)
(* Booking goods in: applyGoodsReceipt and receiveOrder of                 *)
(* src/internal/api/handler.go, goods_receipt_mcp.go, the idempotency      *)
(* records they run under, and the PostgreSQL locks between them.          *)
(*                                                                         *)
(* A native request (the browser) locks the order row FOR UPDATE, reads    *)
(* the line and writes later; it has no key and names no version.  A       *)
(* guided request (MCP) inserts its idempotency record, locks the purchase *)
(* tables and then the warehouse tables in SHARE ROW EXCLUSIVE mode,       *)
(* checks the context its user confirmed, and runs the same native code.   *)
(* A row lock does not keep such a table lock out, and the table lock      *)
(* keeps native writers out, so requests can wait for each other in a      *)
(* circle.                                                                 *)
(*                                                                         *)
(* An action is a statement that can wait, with all that follows until the *)
(* next.  What a transaction writes is private until Commit, where the     *)
(* stock, the devices, the task, the receipt, the line, the order and the  *)
(* record appear together.  Every line has a linked product of its own.    *)
(***************************************************************************)
EXTENDS Naturals, FiniteSets, Sequences, SequencesExt, OrderStatus

CONSTANTS
  Orders, Lines,
  OrderOf,      \* the order a line belongs to
  Ordered,      \* the quantity of a line
  Requests,     \* transactions that can be open at once
  Keys,         \* Idempotency-Keys of guided requests
  NoKey,        \* a native request has none
  Serials,      \* serial numbers of devices
  Inputs,       \* what users ask for
  VersionBound  \* changes of one order, for TLC

(* over is allowOverdelivery.  A guided request states the version         *)
(* (updated_at) of the order it was previewed with in a further field.     *)
ASSUME ReceiptConstants ==
  /\ OrderOf \in [Lines -> Orders]
  /\ Ordered \in [Lines -> Nat \ {0}]
  /\ \A o \in Orders : \E l \in Lines : OrderOf[l] = o
  /\ NoKey \notin Keys
  /\ IsFiniteSet(Requests)
  /\ VersionBound \in Nat
  /\ \A i \in Inputs :
       /\ i \in [line : Lines, quantity : Nat \ {0}, serials : Seq(Serials),
                 over : BOOLEAN, key : Keys \cup {NoKey}]
       /\ IsInjective(i.serials)
       /\ Len(i.serials) \in {0, i.quantity}

VARIABLES
  status,    \* proc_purchase_orders.status
  version,   \* its updated_at
  received,  \* received_quantity of a line
  receipts,  \* proc_receipts, each with the stock or devices it created
  records,   \* proc_idempotency_records of guided receipts
  pc,        \* the statement a transaction has reached
  input,     \* the request it serves
  line0,     \* received_quantity as it read it
  held       \* serial numbers it has locked, of those in its input

orders == <<status, version, received, receipts, records>>
vars == <<orders, pc, input, line0, held>>

Request == [line : Lines, quantity : Nat, serials : Seq(Serials),
            over : BOOLEAN, key : Keys \cup {NoKey}, seen : Nat]

Of(r) == OrderOf[input[r].line]
Guided(r) == input[r].key # NoKey

(* The transaction of r is over and its locks are gone; or it goes on.     *)
Ends(r) ==
  /\ pc' = [pc EXCEPT ![r] = "idle"]
  /\ input' = [input EXCEPT ![r] = <<>>]
  /\ line0' = [line0 EXCEPT ![r] = 0]
  /\ held' = [held EXCEPT ![r] = 0]
GoesTo(r, step) == pc' = [pc EXCEPT ![r] = step] /\ UNCHANGED input

(* How far a transaction has come: where it stands after each wait. *)
HasTables(r) == pc[r] \in {"purchase", "tables", "row", "stock", "written"} /\ Guided(r)
HasStockTables(r) == HasTables(r) /\ pc[r] # "purchase"

(* Variant with a defect: the order is read without FOR UPDATE. *)
NoRowLock(r, o) == FALSE

HoldsRow(r, o) == pc[r] \in {"row", "stock", "written"} /\ Of(r) = o

(* Variants with a defect: no advisory lock; one of the session, which the *)
(* end of the transaction does not release.                                *)
NoSerialLock(r, s) == FALSE
SessionLock(r, s) ==
  \/ pc[r] # "idle" /\ s \in Range(SubSeq(input[r].serials, 1, held[r]))
  \/ \E n \in DOMAIN receipts : s \in Range(receipts[n].serials)

HoldsSerial(r, s) == pc[r] # "idle" /\ s \in Range(SubSeq(input[r].serials, 1, held[r]))

(* The statement a transaction executes next. *)
AtRow(r) == pc[r] = "tables" \/ (pc[r] = "open" /\ ~Guided(r))
AtSerial(r) ==
  /\ (pc[r] = "row" /\ held[r] = 0) \/ pc[r] = "stock"
  /\ held[r] < Len(input[r].serials)
AtStock(r) == pc[r] = "row" /\ ~AtSerial(r)
AtLine(r) == pc[r] = "stock" /\ ~AtSerial(r)

SameKey(i, j) == i.key = j.key /\ OrderOf[i.line] = OrderOf[j.line]

(* r waits for q to end. *)
WaitsFor(r, q) ==
  /\ r # q
  /\ \/ /\ pc[r] = "arrived" /\ pc[q] \notin {"idle", "arrived"}
        /\ Guided(q) /\ SameKey(input[r], input[q])
     \/ /\ pc[r] = "open" /\ Guided(r)
        /\ HasTables(q) \/ pc[q] = "written"
     \/ /\ pc[r] = "purchase"
        /\ HasStockTables(q) \/ pc[q] \in {"stock", "written"}
     \/ AtRow(r) /\ HoldsRow(q, Of(r))
     \/ AtSerial(r) /\ HoldsSerial(q, input[r].serials[held[r] + 1])
     \/ AtStock(r) /\ HasStockTables(q)
     \/ AtLine(r) /\ HasTables(q)

Runs(r, at) == pc[r] = at /\ \A q \in Requests : ~WaitsFor(r, q)

Booked == UNION {Range(receipts[n].serials) : n \in DOMAIN receipts}

TypeOK ==
  /\ status \in [Orders -> Receivable \cup {"received", "cancelled"}]
  /\ version \in [Orders -> Nat]
  /\ received \in [Lines -> Nat]
  /\ receipts \in Seq(Request)
  /\ records \subseteq Request
  /\ pc \in [Requests -> {"idle", "arrived", "open", "purchase", "tables",
                          "row", "stock", "written"}]
  /\ \A r \in Requests : input[r] \in IF pc[r] = "idle" THEN {<<>>} ELSE Request
  /\ line0 \in [Requests -> Nat]
  /\ held \in [Requests -> Nat]
-----------------------------------------------------------------------------
Init ==
  /\ status = [o \in Orders |-> "sent"]
  /\ version = [o \in Orders |-> 0]
  /\ received = [l \in Lines |-> 0]
  /\ receipts = <<>>
  /\ records = {}
  /\ pc = [r \in Requests |-> "idle"]
  /\ input = [r \in Requests |-> <<>>]
  /\ line0 = [r \in Requests |-> 0]
  /\ held = [r \in Requests |-> 0]

(* A request opens its transaction.  A guided one names the version its    *)
(* preview showed, now or earlier.                                         *)
Arrive(r) ==
  /\ pc[r] = "idle"
  /\ \E i \in Inputs :
       /\ version[OrderOf[i.line]] < VersionBound
       /\ \E v \in IF i.key = NoKey THEN {0} ELSE 0 .. version[OrderOf[i.line]] :
            input' = [input EXCEPT ![r] = [
              line |-> i.line, quantity |-> i.quantity, serials |-> i.serials,
              over |-> i.over, key |-> i.key, seen |-> v]]
       /\ pc' = [pc EXCEPT ![r] = IF i.key = NoKey THEN "open" ELSE "arrived"]
  /\ UNCHANGED <<line0, held, orders>>

(* Variant with a defect: the payload's hash is part of the unique key. *)
SamePayload(i) == {j \in records : j = i}

(* The record that INSERT .. ON CONFLICT DO NOTHING runs into. *)
Conflicting(i) == {j \in records : SameKey(i, j)}

(* beginIdempotentMutation: a saved answer is given again, another payload *)
(* under its key is refused; both end the transaction.                     *)
InsertRecord(r) ==
  /\ Runs(r, "arrived")
  /\ IF Conflicting(input[r]) = {}
     THEN GoesTo(r, "open") /\ UNCHANGED <<line0, held>>
     ELSE Ends(r)
  /\ UNCHANGED orders

(* LOCK TABLE takes its tables one after the other. *)
LockPurchaseTables(r) ==
  /\ Runs(r, "open")
  /\ Guided(r)
  /\ GoesTo(r, "purchase")
  /\ UNCHANGED <<line0, held, orders>>

(* What the request needs of the order as it is now; and a variant with a  *)
(* defect, which does not compare the version.                             *)
SeenOrNot(r) == TRUE

AsSeen(r) == version[Of(r)] = input[r].seen

Open(o) == status[o] \in Receivable

(* Variant with a defect: what is there already is not counted. *)
FitsAlone(i, got) == i.over \/ i.quantity <= Ordered[i.line]

Fits(i, got) == i.over \/ got + i.quantity <= Ordered[i.line]

(* prepareGoodsReceiptOwner: the confirmed context must be the present one. *)
LockStockTables(r) ==
  /\ Runs(r, "purchase")
  /\ IF /\ AsSeen(r) /\ Open(Of(r))
        /\ Fits(input[r], received[input[r].line])
        /\ Range(input[r].serials) \cap Booked = {}
     THEN GoesTo(r, "tables") /\ UNCHANGED <<line0, held>>
     ELSE Ends(r)
  /\ UNCHANGED orders

(* SELECT .. FOR UPDATE of order and line, and the checks on them. *)
LockOrder(r) ==
  /\ AtRow(r)
  /\ Runs(r, pc[r])
  /\ IF /\ Open(Of(r))
        /\ Guided(r) => AsSeen(r)
        /\ Fits(input[r], received[input[r].line])
     THEN /\ GoesTo(r, "row")
          /\ line0' = [line0 EXCEPT ![r] = received[input[r].line]]
          /\ UNCHANGED held
     ELSE Ends(r)
  /\ UNCHANGED orders

(* lockAndValidateReceiptSerial, once for each serial number. *)
LockSerial(r) ==
  /\ AtSerial(r)
  /\ Runs(r, pc[r])
  /\ IF input[r].serials[held[r] + 1] \in Booked
     THEN Ends(r)
     ELSE held' = [held EXCEPT ![r] = @ + 1] /\ UNCHANGED <<pc, input, line0>>
  /\ UNCHANGED orders

(* The first INSERT into a warehouse table: stock or a device. *)
WriteStock(r) ==
  /\ AtStock(r)
  /\ Runs(r, "row")
  /\ GoesTo(r, "stock")
  /\ UNCHANGED <<line0, held, orders>>

(* The line, the receipt and the order are written. *)
WriteLine(r) ==
  /\ AtLine(r)
  /\ Runs(r, "stock")
  /\ GoesTo(r, "written")
  /\ UNCHANGED <<line0, held, orders>>

(* Variant with a defect: received when something of every line is there. *)
Untouched(o, got) == {l \in Lines : OrderOf[l] = o /\ got[l] = 0}

Remaining(o, got) == {l \in Lines : OrderOf[l] = o /\ got[l] < Ordered[l]}

StatusAfter(o, got) == IF Remaining(o, got) = {} THEN "received" ELSE "partially_received"

Commit(r) ==
  /\ pc[r] = "written"
  /\ received' = [received EXCEPT ![input[r].line] = line0[r] + input[r].quantity]
  /\ receipts' = Append(receipts, input[r])
  /\ status' = [status EXCEPT ![Of(r)] = StatusAfter(Of(r), received')]
  /\ version' = [version EXCEPT ![Of(r)] = @ + 1]
  /\ records' = IF Guided(r) THEN records \cup {input[r]} ELSE records
  /\ Ends(r)

(* An error, a timeout, a client that goes away, or the process dies: the  *)
(* transaction is rolled back.                                             *)
Abort(r) ==
  /\ pc[r] # "idle"
  /\ Ends(r)
  /\ UNCHANGED orders

(* PostgreSQL aborts a member of a circle of waiting transactions. *)
Circle(D) == D # {} /\ \A r \in D : \E q \in D : WaitsFor(r, q)
BreakCircle ==
  \E D \in SUBSET Requests : Circle(D) /\ \E r \in D : Abort(r)

(* Variant with a defect: an order can always be made a draft again. *)
ReopenAsDraft(o, s) ==
  /\ TransitionAllowed(status[o], s) \/ s = "draft"
  /\ version[o] < VersionBound
  /\ status' = [status EXCEPT ![o] = s]
  /\ version' = [version EXCEPT ![o] = @ + 1]
  /\ UNCHANGED <<received, receipts, records, pc, input, line0, held>>

(* updateOrder: a user changes the status.  It too takes the row and then  *)
(* writes a purchase table, here in one step.                              *)
UpdateOrder(o, s) ==
  /\ \A r \in Requests : ~HoldsRow(r, o) /\ ~HasTables(r)
  /\ TransitionAllowed(status[o], s)
  /\ version[o] < VersionBound
  /\ status' = [status EXCEPT ![o] = s]
  /\ version' = [version EXCEPT ![o] = @ + 1]
  /\ UNCHANGED <<received, receipts, records, pc, input, line0, held>>

Advance(r) ==
  \/ InsertRecord(r) \/ LockPurchaseTables(r) \/ LockStockTables(r)
  \/ LockOrder(r) \/ LockSerial(r) \/ WriteStock(r) \/ WriteLine(r)
  \/ Commit(r)

Next ==
  \/ \E r \in Requests : Arrive(r) \/ Advance(r) \/ Abort(r)
  \/ BreakCircle
  \/ \E o \in Orders, s \in Statuses : UpdateOrder(o, s)

(* Locks are granted in the order they were asked for, so a transaction    *)
(* that can go on again and again does; PostgreSQL looks for circles.      *)
Fairness ==
  /\ \A r \in Requests : SF_vars(Advance(r))
  /\ WF_vars(BreakCircle)

Spec == Init /\ [][Next]_vars /\ Fairness
-----------------------------------------------------------------------------
Ledger == INSTANCE ReceiptLedger

(* Whatever requests meet on an order, its lines show exactly the goods    *)
(* that receipts, stock, devices and putaway tasks were created for: no    *)
(* booking overwrites another (handler.go, line.ReceivedQuantity +=).      *)
ReceivedIsBooked == \A l \in Lines : received[l] = Ledger!Received(l, receipts)

(* A key books goods at most once, however often, with whatever payload    *)
(* and at whatever moment it is sent again, and what is saved under it is  *)
(* what was booked (beginIdempotentMutation, completeIdempotentMutation).  *)
OncePerKey ==
  /\ \A m, n \in DOMAIN receipts :
       /\ receipts[m].key # NoKey
       /\ SameKey(receipts[m], receipts[n])
       => m = n
  /\ records = {receipts[n] : n \in {m \in DOMAIN receipts : receipts[m].key # NoKey}}

(* The status written at the end of a receipt agrees with every line of    *)
(* the order, those other requests booked included.                        *)
StatusAgrees ==
  \A o \in Orders :
    LET lines == {l \in Lines : OrderOf[l] = o}
        begun == \E l \in lines : received[l] > 0
        complete == \A l \in lines : received[l] >= Ordered[l]
    IN  /\ status[o] = "received" <=> complete
        /\ status[o] \in {"sent", "confirmed", "partially_confirmed"} => ~begun
        /\ status[o] = "partially_received" => begun

(* More than was ordered is only there if a receipt said so explicitly     *)
(* (README: only "ausdrücklich markierte Überlieferungen").                *)
NoSilentOverdelivery ==
  \A l \in Lines : received[l] > Ordered[l] =>
    \E n \in DOMAIN receipts : receipts[n].line = l /\ receipts[n].over

(* No two devices share a serial number, on whatever orders they came      *)
(* (lockAndValidateReceiptSerial).                                         *)
SerialsUnique ==
  \A m, n \in DOMAIN receipts :
    m # n => Range(receipts[m].serials) \cap Range(receipts[n].serials) = {}

(* A guided receipt is booked on the very order its user saw: nobody has   *)
(* changed it between preview and commit (prepareGoodsReceiptOwner and the *)
(* locks it runs under).                                                   *)
BookedAsSeen ==
  [][\A r \in Requests :
       (pc[r] = "written" /\ Guided(r) /\ receipts' # receipts /\ pc'[r] = "idle")
       => /\ version[Of(r)] = input[r].seen
          /\ version'[Of(r)] = input[r].seen + 1]_vars

(* Receipts behave as if they were booked one at a time: every commit      *)
(* finds the order, its lines, the devices and the keys still as the       *)
(* request needs them, though it looked at them several statements and     *)
(* other commits ago (applyGoodsReceipt under its locks, the promise of    *)
(* ReceiptLedger).                                                         *)
BooksAsIfAlone == Ledger!Spec

(* Every request ends, booked, refused or rolled back, although requests   *)
(* take rows, serial numbers and tables in orders that can close circles.  *)
EveryRequestEnds == \A r \in Requests : pc[r] # "idle" ~> pc[r] = "idle"
=============================================================================
