------------------------- MODULE GoodsReceiptProofs -------------------------
(***************************************************************************)
(* Theorems about GoodsReceipt for any orders, lines, quantities, serial   *)
(* numbers, keys and any number of requests at once.                       *)
(*                                                                         *)
(* The argument: the row of an order has one reader (Readers), so what a   *)
(* transaction read of its order is still so when it commits; its serial   *)
(* numbers are locked by nobody else and in no receipt (Devices); its key  *)
(* is claimed by nobody else and has no record (Claims).  A commit moves   *)
(* what is private in these into what is public, where it is unique again. *)
(* What it read of its line being still so, it adds its quantity to the    *)
(* sum of all receipts of the line and writes nothing else over it.        *)
(***************************************************************************)
EXTENDS GoodsReceipt, SumTheorems, TLAPS

(* r has read its order and holds the row. *)
Reader(r) == pc[r] \in {"row", "stock", "written"}

(* r has inserted the record of its key, not yet committed. *)
Claimed(r) == pc[r] \notin {"idle", "arrived"} /\ Guided(r)

Locks(r) == {input[r].serials[k] : k \in 1 .. held[r]}

Shapes ==
  /\ DOMAIN input = Requests
  /\ \A r \in Requests :
       /\ pc[r] = "idle" => held[r] = 0
       /\ pc[r] # "idle" => /\ input[r].quantity > 0
                            /\ held[r] <= Len(input[r].serials)

Typed == TypeOK /\ Shapes

Readers ==
  /\ \A r, q \in Requests : r # q /\ Reader(r) /\ Reader(q) => Of(r) # Of(q)
  /\ \A r \in Requests : Reader(r) =>
       /\ Open(Of(r))
       /\ Guided(r) => AsSeen(r)
       /\ line0[r] = received[input[r].line]
       /\ Fits(input[r], line0[r])

Devices ==
  /\ SerialsUnique
  /\ \A r \in Requests : Locks(r) \cap Booked = {}
  /\ \A r, q \in Requests : r # q => Locks(r) \cap Locks(q) = {}
  /\ \A r \in Requests : pc[r] = "written" => held[r] = Len(input[r].serials)

Claims ==
  /\ OncePerKey
  /\ \A r \in Requests : Claimed(r) => Conflicting(input[r]) = {}
  /\ \A r, q \in Requests :
       r # q /\ Claimed(r) /\ Claimed(q) => ~SameKey(input[r], input[q])

(* A request is one of those users make; without a key it names no version. *)
IsInput(q) ==
  \E i \in Inputs :
    /\ q.line = i.line /\ q.quantity = i.quantity /\ q.serials = i.serials
    /\ q.over = i.over /\ q.key = i.key
    /\ i.key = NoKey => q.seen = 0

Served == \A r \in Requests : pc[r] # "idle" => IsInput(input[r])

Inv ==
  /\ Typed /\ Readers /\ Devices /\ Claims
  /\ NoSilentOverdelivery /\ StatusAgrees /\ ReceivedIsBooked
-----------------------------------------------------------------------------
(* What a step does to the request r: it asks, ends, or goes on in one of  *)
(* four ways, of which Plain only gives the others less to wait for.       *)
Asks(r) ==
  /\ pc[r] = "idle" /\ pc'[r] \in {"open", "arrived"}
  /\ input'[r] \in Request /\ input'[r].quantity > 0 /\ IsInput(input'[r])
  /\ pc'[r] = "open" => input'[r].key = NoKey
  /\ line0'[r] = line0[r] /\ held'[r] = held[r]
Ended(r) == pc[r] # "idle" /\ pc'[r] = "idle" /\ input'[r] = <<>> /\ held'[r] = 0
GoesOn(r) == pc[r] # "idle" /\ pc'[r] # "idle" /\ input'[r] = input[r]
Plain(r) ==
  /\ GoesOn(r) /\ line0'[r] = line0[r] /\ held'[r] = held[r]
  /\ pc'[r] \in {"row", "stock", "written"} => Reader(r)
  /\ pc'[r] # "arrived" => pc[r] # "arrived"
  /\ pc'[r] = "written" => held[r] = Len(input[r].serials)
Inserts(r) ==
  /\ GoesOn(r) /\ line0'[r] = line0[r] /\ held'[r] = held[r] /\ pc'[r] = "open"
  /\ Conflicting(input[r]) = {}
  /\ \A q \in Requests : q # r /\ Claimed(q) => ~SameKey(input[r], input[q])
Reads(r) ==
  /\ GoesOn(r) /\ pc[r] # "arrived" /\ pc'[r] = "row"
  /\ line0'[r] = received[input[r].line] /\ held'[r] = held[r]
  /\ Open(Of(r)) /\ (Guided(r) => AsSeen(r)) /\ Fits(input[r], line0'[r])
  /\ \A q \in Requests : q # r /\ Reader(q) => Of(q) # Of(r)
Grabs(r) ==
  /\ GoesOn(r) /\ pc'[r] = pc[r] /\ pc[r] \in {"row", "stock"} /\ line0'[r] = line0[r]
  /\ held'[r] = held[r] + 1 /\ held'[r] <= Len(input[r].serials)
  /\ input[r].serials[held'[r]] \notin Booked
  /\ \A q \in Requests : q # r => input[r].serials[held'[r]] \notin Locks(q)

(* The other requests keep what they have. *)
Others(r) ==
  \A q \in Requests : q # r =>
    /\ pc'[q] = pc[q] /\ input'[q] = input[q]
    /\ line0'[q] = line0[q] /\ held'[q] = held[q]
Frame ==
  /\ DOMAIN input' = Requests
  /\ pc' \in [Requests -> {"idle", "arrived", "open", "purchase", "tables",
                           "row", "stock", "written"}]
  /\ line0' \in [Requests -> Nat]
  /\ held' \in [Requests -> Nat]

Private(r) ==
  /\ Frame /\ Others(r) /\ UNCHANGED orders
  /\ Asks(r) \/ Ended(r) \/ Plain(r) \/ Inserts(r) \/ Reads(r) \/ Grabs(r)

LEMMA RangeOfStart ==
  ASSUME NEW S, NEW s \in Seq(S), NEW h \in 0 .. Len(s)
  PROVE  Range(SubSeq(s, 1, h)) = {s[k] : k \in 1 .. h}
<1>1. SubSeq(s, 1, h) \in Seq(S) /\ Len(SubSeq(s, 1, h)) = h
  OBVIOUS
<1>2. \A k \in 1 .. h : SubSeq(s, 1, h)[k] = s[k]
  OBVIOUS
<1>3. DOMAIN SubSeq(s, 1, h) = 1 .. h
  BY <1>1
<1> QED BY <1>2, <1>3 DEF Range

(* The end of a transaction.                                               *)
LEMMA EndsIs ==
  ASSUME Typed, NEW r \in Requests, pc[r] # "idle", Ends(r)
  PROVE  Frame /\ Others(r) /\ Ended(r)
BY DEF Typed, TypeOK, Shapes, Ends, Frame, Others, Ended

LEMMA GoesToIs ==
  ASSUME Typed, NEW r \in Requests, NEW step, GoesTo(r, step), pc[r] # "idle",
         step \in {"open", "purchase", "tables", "row", "stock", "written"},
         line0' \in [Requests -> Nat], \A q \in Requests : q # r => line0'[q] = line0[q],
         UNCHANGED held
  PROVE  Frame /\ Others(r) /\ GoesOn(r) /\ pc'[r] = step /\ held'[r] = held[r]
BY DEF Typed, TypeOK, Shapes, GoesTo, Frame, Others, GoesOn

LEMMA ArrivePrivate ==
  ASSUME Typed, NEW r \in Requests, Arrive(r)
  PROVE  Private(r)
<1>1. PICK i \in Inputs : \E v \in IF i.key = NoKey THEN {0} ELSE 0 .. version[OrderOf[i.line]] :
        /\ input' = [input EXCEPT ![r] = [line |-> i.line, quantity |-> i.quantity,
                      serials |-> i.serials, over |-> i.over, key |-> i.key, seen |-> v]]
        /\ pc' = [pc EXCEPT ![r] = IF i.key = NoKey THEN "open" ELSE "arrived"]
  BY DEF Arrive
<1>2. PICK v \in IF i.key = NoKey THEN {0} ELSE 0 .. version[OrderOf[i.line]] :
        /\ input' = [input EXCEPT ![r] = [line |-> i.line, quantity |-> i.quantity,
                      serials |-> i.serials, over |-> i.over, key |-> i.key, seen |-> v]]
        /\ pc' = [pc EXCEPT ![r] = IF i.key = NoKey THEN "open" ELSE "arrived"]
  BY <1>1
<1> DEFINE new == [line |-> i.line, quantity |-> i.quantity,
                   serials |-> i.serials, over |-> i.over, key |-> i.key, seen |-> v]
<1>3. v \in Nat
  BY <1>2, ReceiptConstants DEF Typed, TypeOK
<1>4. new \in Request /\ new.quantity > 0 /\ new.key = i.key
  BY <1>3, ReceiptConstants DEF Request
<1>11. IsInput(new)
  BY <1>2 DEF IsInput
<1>5. pc[r] = "idle" /\ UNCHANGED <<line0, held, orders>>
  BY DEF Arrive
<1>6. DOMAIN input = Requests /\ line0 \in [Requests -> Nat] /\ held \in [Requests -> Nat]
  BY DEF Typed, TypeOK, Shapes
<1>7. input' = [input EXCEPT ![r] = new]
  BY <1>2
<1> HIDE DEF new
<1>8. input'[r] = new /\ DOMAIN input' = Requests
      /\ \A q \in Requests : q # r => input'[q] = input[q]
  BY <1>6, <1>7
<1>9. pc'[r] \in {"open", "arrived"} /\ (pc'[r] = "open" => i.key = NoKey)
      /\ \A q \in Requests : q # r => pc'[q] = pc[q]
  BY <1>2 DEF Typed, TypeOK
<1>10. pc' \in [Requests -> {"idle", "arrived", "open", "purchase", "tables",
                             "row", "stock", "written"}]
  BY <1>2 DEF Typed, TypeOK
<1> QED BY <1>4, <1>11, <1>5, <1>6, <1>8, <1>9, <1>10 DEF Private, Asks, Others, Frame

LEMMA InsertPrivate ==
  ASSUME Typed, NEW r \in Requests, InsertRecord(r)
  PROVE  Private(r)
<1>1. pc[r] = "arrived" /\ \A q \in Requests : ~WaitsFor(r, q)
  BY DEF InsertRecord, Runs
<1>2. CASE Conflicting(input[r]) = {}
  <2>1. Frame /\ Others(r) /\ GoesOn(r) /\ pc'[r] = "open" /\ held'[r] = held[r] /\ line0'[r] = line0[r]
    BY <1>1, <1>2, GoesToIs DEF InsertRecord, Typed, TypeOK
  <2>2. \A q \in Requests : q # r /\ Claimed(q) => ~SameKey(input[r], input[q])
    BY <1>1 DEF WaitsFor, Claimed
  <2> QED BY <1>2, <2>1, <2>2 DEF Private, Inserts, InsertRecord
<1>3. CASE Conflicting(input[r]) # {}
  BY <1>1, <1>3, EndsIs DEF InsertRecord, Private
<1> QED BY <1>2, <1>3

LEMMA LockPurchasePrivate ==
  ASSUME Typed, NEW r \in Requests, LockPurchaseTables(r)
  PROVE  Private(r)
<1>1. pc[r] = "open" /\ GoesTo(r, "purchase") /\ UNCHANGED <<line0, held, orders>>
  BY DEF LockPurchaseTables, Runs
<1>2. Frame /\ Others(r) /\ GoesOn(r) /\ pc'[r] = "purchase" /\ held'[r] = held[r] /\ line0'[r] = line0[r]
  BY <1>1, GoesToIs DEF Typed, TypeOK
<1> QED BY <1>1, <1>2 DEF Private, Plain

LEMMA LockStockPrivate ==
  ASSUME Typed, NEW r \in Requests, LockStockTables(r)
  PROVE  Private(r)
<1>1. pc[r] = "purchase" /\ UNCHANGED orders
  BY DEF LockStockTables, Runs
<1>2. CASE GoesTo(r, "tables") /\ UNCHANGED <<line0, held>>
  <2>1. Frame /\ Others(r) /\ GoesOn(r) /\ pc'[r] = "tables" /\ held'[r] = held[r] /\ line0'[r] = line0[r]
    BY <1>1, <1>2, GoesToIs DEF Typed, TypeOK
  <2> QED BY <1>1, <2>1 DEF Private, Plain
<1>3. CASE Ends(r)
  BY <1>1, <1>3, EndsIs DEF Private
<1> QED BY <1>2, <1>3 DEF LockStockTables

LEMMA LockOrderPrivate ==
  ASSUME Typed, NEW r \in Requests, LockOrder(r)
  PROVE  Private(r)
<1>1. /\ pc[r] = "tables" \/ (pc[r] = "open" /\ ~Guided(r))
      /\ \A q \in Requests : ~WaitsFor(r, q)
      /\ UNCHANGED orders
  BY DEF LockOrder, Runs, AtRow
<1>2. CASE Ends(r)
  BY <1>1, <1>2, EndsIs DEF Private
<1>3. CASE ~Ends(r)
  <2>1. /\ Open(Of(r)) /\ (Guided(r) => AsSeen(r)) /\ Fits(input[r], received[input[r].line])
        /\ GoesTo(r, "row") /\ UNCHANGED held
        /\ line0' = [line0 EXCEPT ![r] = received[input[r].line]]
    BY <1>3 DEF LockOrder
  <2>2. input[r].line \in Lines
    BY <1>1 DEF Typed, TypeOK, Request
  <2>3. received[input[r].line] \in Nat /\ line0 \in [Requests -> Nat]
    BY <2>2 DEF Typed, TypeOK
  <2>4. /\ line0' \in [Requests -> Nat] /\ line0'[r] = received[input[r].line]
        /\ \A q \in Requests : q # r => line0'[q] = line0[q]
    BY <2>1, <2>3
  <2>5. Frame /\ Others(r) /\ GoesOn(r) /\ pc'[r] = "row" /\ held'[r] = held[r]
    BY <1>1, <2>1, <2>4, GoesToIs
  <2>6. \A q \in Requests : q # r /\ Reader(q) => Of(q) # Of(r)
    BY <1>1 DEF WaitsFor, AtRow, HoldsRow, Reader
  <2> QED BY <1>1, <2>1, <2>4, <2>5, <2>6 DEF Private, Reads
<1> QED BY <1>2, <1>3

LEMMA LockSerialPrivate ==
  ASSUME Typed, NEW r \in Requests, LockSerial(r)
  PROVE  Private(r)
<1>1. /\ pc[r] \in {"row", "stock"} /\ held[r] < Len(input[r].serials)
      /\ \A q \in Requests : ~WaitsFor(r, q)
      /\ UNCHANGED orders
  BY DEF LockSerial, Runs, AtSerial
<1>2. CASE Ends(r)
  BY <1>1, <1>2, EndsIs DEF Private
<1>3. CASE ~Ends(r)
  <2>1. /\ input[r].serials[held[r] + 1] \notin Booked
        /\ held' = [held EXCEPT ![r] = @ + 1] /\ UNCHANGED <<pc, input, line0>>
    BY <1>3 DEF LockSerial
  <2>2. held \in [Requests -> Nat] /\ input[r].serials \in Seq(Serials)
    BY <1>1 DEF Typed, TypeOK, Request
  <2>3. /\ held' \in [Requests -> Nat] /\ held'[r] = held[r] + 1
        /\ \A q \in Requests : q # r => held'[q] = held[q]
    BY <2>1, <2>2
  <2>4. Frame /\ Others(r) /\ GoesOn(r)
    BY <1>1, <2>1, <2>3 DEF Frame, Others, GoesOn, Typed, TypeOK, Shapes
  <2>5. ASSUME NEW q \in Requests, q # r
        PROVE  input[r].serials[held[r] + 1] \notin Locks(q)
    <3>1. ~HoldsSerial(q, input[r].serials[held[r] + 1])
      BY <1>1, <2>5 DEF LockSerial, WaitsFor
    <3>2. CASE pc[q] = "idle"
      BY <3>2 DEF Typed, Shapes, Locks
    <3>3. CASE pc[q] # "idle"
      <4>1. input[q].serials \in Seq(Serials) /\ held[q] \in 0 .. Len(input[q].serials)
        BY <3>3 DEF Typed, TypeOK, Shapes, Request
      <4>2. Locks(q) = Range(SubSeq(input[q].serials, 1, held[q]))
        BY <4>1, RangeOfStart DEF Locks
      <4> QED BY <3>1, <3>3, <4>2 DEF HoldsSerial
    <3> QED BY <3>2, <3>3
  <2>6. held'[r] <= Len(input[r].serials)
    BY <1>1, <2>2, <2>3
  <2> QED BY <1>1, <2>1, <2>3, <2>4, <2>5, <2>6 DEF Private, Grabs
<1> QED BY <1>2, <1>3

LEMMA WriteStockPrivate ==
  ASSUME Typed, NEW r \in Requests, WriteStock(r)
  PROVE  Private(r)
<1>1. pc[r] = "row" /\ GoesTo(r, "stock") /\ UNCHANGED <<line0, held, orders>>
  BY DEF WriteStock, Runs
<1>2. Frame /\ Others(r) /\ GoesOn(r) /\ pc'[r] = "stock" /\ held'[r] = held[r] /\ line0'[r] = line0[r]
  BY <1>1, GoesToIs DEF Typed, TypeOK
<1> QED BY <1>1, <1>2 DEF Private, Plain, Reader

LEMMA WriteLinePrivate ==
  ASSUME Typed, NEW r \in Requests, WriteLine(r)
  PROVE  Private(r)
<1>1. /\ pc[r] = "stock" /\ GoesTo(r, "written") /\ UNCHANGED <<line0, held, orders>>
      /\ ~(held[r] < Len(input[r].serials))
  BY DEF WriteLine, Runs, AtLine, AtSerial
<1>2. Frame /\ Others(r) /\ GoesOn(r) /\ pc'[r] = "written" /\ held'[r] = held[r] /\ line0'[r] = line0[r]
  BY <1>1, GoesToIs DEF Typed, TypeOK
<1>3. input[r].serials \in Seq(Serials) /\ held[r] \in Nat /\ held[r] <= Len(input[r].serials)
  BY <1>1 DEF Typed, TypeOK, Shapes, Request
<1>4. held[r] = Len(input[r].serials)
  BY <1>1, <1>3
<1> QED BY <1>1, <1>2, <1>4 DEF Private, Plain, Reader

LEMMA AbortPrivate ==
  ASSUME Typed, NEW r \in Requests, Abort(r)
  PROVE  Private(r)
BY EndsIs DEF Abort, Private

(* A step commits, is private, or is a user's change of a status; a circle *)
(* is broken by rolling one of its members back.                           *)
LEMMA Steps ==
  ASSUME Typed, Next
  PROVE  \/ \E r \in Requests : Private(r) \/ Commit(r)
         \/ \E o \in Orders, s \in Statuses : UpdateOrder(o, s)
<1>1. \/ \E r \in Requests :
           \/ Arrive(r) \/ InsertRecord(r) \/ LockPurchaseTables(r)
           \/ LockStockTables(r) \/ LockOrder(r) \/ LockSerial(r)
           \/ WriteStock(r) \/ WriteLine(r) \/ Commit(r) \/ Abort(r)
      \/ \E o \in Orders, s \in Statuses : UpdateOrder(o, s)
  BY DEF Next, Advance, BreakCircle
<1> QED BY <1>1, ArrivePrivate, InsertPrivate, LockPurchasePrivate, LockStockPrivate,
           LockOrderPrivate, LockSerialPrivate, WriteStockPrivate, WriteLinePrivate,
           AbortPrivate

(* Preservation by a private step: it leaves the orders alone.             *)
LEMMA PrivateTyped ==
  ASSUME Typed, NEW r \in Requests, Private(r)
  PROVE  Typed'
<1>1. Frame /\ Others(r) /\ UNCHANGED orders
  BY DEF Private
<1>2. /\ input'[r] \in IF pc'[r] = "idle" THEN {<<>>} ELSE Request
      /\ pc'[r] = "idle" => held'[r] = 0
      /\ pc'[r] # "idle" => input'[r].quantity > 0 /\ held'[r] <= Len(input'[r].serials)
  <2>1. CASE Asks(r)
    <3>1. held'[r] = 0 /\ pc'[r] # "idle" /\ input'[r] \in Request /\ input'[r].quantity > 0
      BY <2>1 DEF Asks, Typed, Shapes
    <3>2. Len(input'[r].serials) \in Nat
      BY <3>1 DEF Request
    <3> QED BY <3>1, <3>2
  <2>2. CASE Ended(r)
    BY <2>2 DEF Ended
  <2>3. CASE Plain(r) \/ Inserts(r) \/ Reads(r) \/ Grabs(r)
    <3>1. GoesOn(r) /\ held'[r] <= Len(input[r].serials)
      BY <2>3 DEF Plain, Inserts, Reads, Grabs, GoesOn, Typed, Shapes
    <3> QED BY <3>1 DEF GoesOn, Typed, TypeOK, Shapes
  <2> QED BY <2>1, <2>2, <2>3 DEF Private
<1>3. ASSUME NEW q \in Requests
      PROVE  /\ input'[q] \in IF pc'[q] = "idle" THEN {<<>>} ELSE Request
             /\ pc'[q] = "idle" => held'[q] = 0
             /\ pc'[q] # "idle" => input'[q].quantity > 0 /\ held'[q] <= Len(input'[q].serials)
  <2>1. CASE q = r
    BY <1>2, <2>1
  <2>2. CASE q # r
    BY <1>1, <2>2 DEF Others, Typed, TypeOK, Shapes
  <2> QED BY <2>1, <2>2
<1>4. Shapes'
  BY <1>1, <1>3 DEF Shapes, Frame
<1>5. TypeOK'
  BY <1>1, <1>3 DEF TypeOK, Typed, Frame, orders
<1> QED BY <1>4, <1>5 DEF Typed

LEMMA PrivateReaders ==
  ASSUME Typed, Readers, NEW r \in Requests, Private(r)
  PROVE  Readers'
<1>1. Others(r) /\ UNCHANGED orders
  BY DEF Private
<1>2. ASSUME NEW q \in Requests, q # r, Reader(q)'
      PROVE  /\ Reader(q) /\ Of(q)' = Of(q)
             /\ Open(Of(q))' /\ (Guided(q) => AsSeen(q))'
             /\ (line0[q] = received[input[q].line])' /\ Fits(input[q], line0[q])'
  BY <1>1, <1>2 DEF Others, Readers, Reader, Of, Open, Guided, AsSeen, Fits, orders
<1>3. ASSUME Reader(r)'
      PROVE  /\ Of(r)' = Of(r)
             /\ \A q \in Requests : q # r /\ Reader(q) => Of(q) # Of(r)
             /\ Open(Of(r))' /\ (Guided(r) => AsSeen(r))'
             /\ (line0[r] = received[input[r].line])' /\ Fits(input[r], line0[r])'
  <2>1. CASE Reads(r)
    BY <1>1, <2>1 DEF Reads, GoesOn, Of, Open, Guided, AsSeen, Fits, orders
  <2>2. CASE Plain(r) \/ Grabs(r)
    <3>1. Reader(r) /\ input'[r] = input[r] /\ line0'[r] = line0[r]
      BY <1>3, <2>2 DEF Plain, Grabs, GoesOn, Reader
    <3> QED BY <1>1, <3>1 DEF Readers, Of, Open, Guided, AsSeen, Fits, orders
  <2>3. CASE Asks(r) \/ Ended(r) \/ Inserts(r)
    BY <1>3, <2>3 DEF Asks, Ended, Inserts, Reader
  <2> QED BY <2>1, <2>2, <2>3 DEF Private
<1>4. ASSUME NEW p \in Requests, NEW q \in Requests, p # q, Reader(p)', Reader(q)'
      PROVE  Of(p)' # Of(q)'
  <2>1. CASE p # r /\ q # r
    BY <1>2, <1>4, <2>1 DEF Readers
  <2>2. CASE p = r
    BY <1>2, <1>3, <1>4, <2>2
  <2>3. CASE q = r
    BY <1>2, <1>3, <1>4, <2>3
  <2> QED BY <2>1, <2>2, <2>3
<1>5. \A q \in Requests : Reader(q)' =>
             /\ Open(Of(q))' /\ (Guided(q) => AsSeen(q))'
             /\ (line0[q] = received[input[q].line])' /\ Fits(input[q], line0[q])'
  BY <1>2, <1>3
<1> QED BY <1>4, <1>5 DEF Readers

LEMMA PrivateDevices ==
  ASSUME Typed, Devices, NEW r \in Requests, Private(r)
  PROVE  Devices'
<1>1. Others(r) /\ UNCHANGED orders
  BY DEF Private
<1>2. Booked' = Booked /\ SerialsUnique'
  BY <1>1 DEF Booked, SerialsUnique, Devices, orders
<1>3. \A q \in Requests : q # r => Locks(q)' = Locks(q)
  BY <1>1 DEF Others, Locks
<1>4. /\ Locks(r)' \cap Booked = {}
      /\ \A q \in Requests : q # r => Locks(r)' \cap Locks(q) = {}
      /\ pc'[r] = "written" => held'[r] = Len(input'[r].serials)
  <2>1. CASE Grabs(r)
    <3>1. held[r] \in Nat /\ held'[r] = held[r] + 1 /\ input'[r] = input[r]
      BY <2>1 DEF Grabs, GoesOn, Typed, TypeOK
    <3>2. Locks(r)' = Locks(r) \cup {input[r].serials[held'[r]]}
      <4>1. 1 .. held'[r] = (1 .. held[r]) \cup {held'[r]}
        BY <3>1
      <4> QED BY <3>1, <4>1 DEF Locks
    <3> QED BY <2>1, <3>2 DEF Grabs, Devices
  <2>2. CASE Asks(r) \/ Ended(r)
    <3>1. held'[r] = 0 /\ pc'[r] # "written"
      BY <2>2 DEF Asks, Ended, Typed, Shapes
    <3>2. Locks(r)' = {}
      BY <3>1 DEF Locks
    <3> QED BY <3>1, <3>2
  <2>3. CASE Plain(r) \/ Inserts(r) \/ Reads(r)
    <3>1. /\ Locks(r)' = Locks(r)
          /\ pc'[r] = "written" => held'[r] = Len(input'[r].serials)
      BY <2>3 DEF Plain, Inserts, Reads, GoesOn, Locks
    <3> QED BY <3>1 DEF Devices
  <2> QED BY <2>1, <2>2, <2>3 DEF Private
<1>5. ASSUME NEW q \in Requests, q # r
      PROVE  pc'[q] = "written" => held'[q] = Len(input'[q].serials)
  BY <1>1, <1>5 DEF Others, Devices
<1>6. \A q \in Requests : pc'[q] = "written" => held'[q] = Len(input'[q].serials)
  BY <1>4, <1>5
<1>7. \A q \in Requests : Locks(q)' \cap Booked' = {}
  BY <1>2, <1>3, <1>4 DEF Devices
<1>8. \A p, q \in Requests : p # q => Locks(p)' \cap Locks(q)' = {}
  BY <1>3, <1>4 DEF Devices
<1> QED BY <1>2, <1>6, <1>7, <1>8 DEF Devices

LEMMA PrivateClaims ==
  ASSUME Typed, Claims, NEW r \in Requests, Private(r)
  PROVE  Claims'
<1>1. Others(r) /\ UNCHANGED orders
  BY DEF Private
<1>2. OncePerKey'
  BY <1>1 DEF OncePerKey, Claims, orders, SameKey
<1>3. ASSUME NEW q \in Requests, q # r, Claimed(q)'
      PROVE  Claimed(q) /\ input'[q] = input[q] /\ Conflicting(input[q])' = {}
  BY <1>1, <1>3 DEF Others, Claimed, Guided, Claims, Conflicting, SameKey, orders
<1>4. ASSUME Claimed(r)'
      PROVE  /\ input'[r] = input[r] /\ Conflicting(input[r])' = {}
             /\ \A q \in Requests : q # r /\ Claimed(q) => ~SameKey(input[r], input[q])
  <2>1. CASE Inserts(r)
    BY <1>1, <2>1 DEF Inserts, GoesOn, Conflicting, SameKey, orders
  <2>2. CASE Plain(r) \/ Reads(r) \/ Grabs(r)
    <3>1. Claimed(r) /\ input'[r] = input[r]
      BY <1>4, <2>2 DEF Plain, Reads, Grabs, GoesOn, Claimed, Guided
    <3> QED BY <1>1, <3>1 DEF Claims, Conflicting, SameKey, orders
  <2>3. CASE Asks(r) \/ Ended(r)
    BY <1>4, <2>3 DEF Asks, Ended, Claimed, Guided
  <2> QED BY <2>1, <2>2, <2>3 DEF Private
<1>5. ASSUME NEW p \in Requests, NEW q \in Requests, p # q, Claimed(p)', Claimed(q)'
      PROVE  ~SameKey(input'[p], input'[q])
  <2>1. CASE p # r /\ q # r
    BY <1>3, <1>5, <2>1 DEF Claims
  <2>2. CASE p = r
    BY <1>3, <1>4, <1>5, <2>2
  <2>3. CASE q = r
    BY <1>3, <1>4, <1>5, <2>3 DEF SameKey
  <2> QED BY <2>1, <2>2, <2>3
<1>6. \A q \in Requests : Claimed(q)' => Conflicting(input[q])' = {}
  BY <1>3, <1>4
<1>7. \A p, q \in Requests : p # q /\ Claimed(p)' /\ Claimed(q)' => ~SameKey(input[p], input[q])'
  BY <1>5 DEF SameKey
<1> QED BY <1>2, <1>6, <1>7 DEF Claims

(* What a commit makes public, in terms of what Inv says of its reader.    *)
Published(r) ==
  /\ Frame /\ Others(r) /\ Ended(r)
  /\ input[r] \in Request /\ input[r].quantity > 0
  /\ received[input[r].line] \in Nat /\ Ordered[input[r].line] \in Nat
  /\ received' = [received EXCEPT ![input[r].line] = @ + input[r].quantity]
  /\ Fits(input[r], received[input[r].line])
  /\ receipts' = Append(receipts, input[r])
  /\ status' = [status EXCEPT ![Of(r)] = StatusAfter(Of(r), received')]
  /\ version' = [version EXCEPT ![Of(r)] = @ + 1]
  /\ records' = IF Guided(r) THEN records \cup {input[r]} ELSE records

LEMMA CommitIs ==
  ASSUME Typed, Readers, NEW r \in Requests, Commit(r)
  PROVE  Published(r)
<1>1. pc[r] = "written" /\ Ends(r)
  BY DEF Commit
<1>2. Frame /\ Others(r) /\ Ended(r)
  BY <1>1, EndsIs
<1>3. input[r] \in Request /\ input[r].quantity > 0 /\ input[r].line \in Lines
  BY <1>1 DEF Typed, TypeOK, Shapes, Request
<1>4. received[input[r].line] \in Nat /\ Ordered[input[r].line] \in Nat
  BY <1>3, ReceiptConstants DEF Typed, TypeOK
<1>5. line0[r] = received[input[r].line] /\ Fits(input[r], line0[r])
  BY <1>1 DEF Readers, Reader
<1> QED BY <1>2, <1>3, <1>4, <1>5 DEF Commit, Published

(* The receipts after a commit: those there were, and its own.             *)
LEMMA NewReceipt ==
  ASSUME Typed, NEW r \in Requests, Published(r)
  PROVE  /\ Len(receipts) \in Nat
         /\ DOMAIN receipts = 1 .. Len(receipts)
         /\ DOMAIN receipts' = 1 .. Len(receipts) + 1
         /\ \A n \in DOMAIN receipts : receipts'[n] = receipts[n]
         /\ receipts'[Len(receipts) + 1] = input[r]
BY DEF Published, Typed, TypeOK

LEMMA CommitTyped ==
  ASSUME Typed, NEW r \in Requests, Published(r)
  PROVE  Typed'
<1> USE DEF Published
<1>1. ASSUME NEW q \in Requests
      PROVE  /\ input'[q] \in IF pc'[q] = "idle" THEN {<<>>} ELSE Request
             /\ pc'[q] = "idle" => held'[q] = 0
             /\ pc'[q] # "idle" => input'[q].quantity > 0 /\ held'[q] <= Len(input'[q].serials)
  <2>1. CASE q = r
    BY <2>1 DEF Ended
  <2>2. CASE q # r
    BY <2>2 DEF Others, Typed, TypeOK, Shapes
  <2> QED BY <2>1, <2>2
<1>2. Shapes'
  BY <1>1 DEF Shapes, Frame
<1>3. input[r].line \in Lines /\ input[r].quantity \in Nat /\ Of(r) \in Orders
  BY ReceiptConstants DEF Request, Of
<1>4. received' \in [Lines -> Nat]
  <2>1. received \in [Lines -> Nat] /\ received[input[r].line] + input[r].quantity \in Nat
    BY <1>3 DEF Typed, TypeOK
  <2>2. received' = [received EXCEPT ![input[r].line] = @ + input[r].quantity]
    OBVIOUS
  <2> HIDE DEF Published
  <2> QED BY <2>1, <2>2
<1>5. receipts' \in Seq(Request) /\ records' \subseteq Request
  BY DEF Typed, TypeOK
<1>6. version' \in [Orders -> Nat]
  BY <1>3 DEF Typed, TypeOK
<1>7. StatusAfter(Of(r), received') \in Receivable \cup {"received", "cancelled"}
  BY DEF StatusAfter, Receivable
<1>8. status' \in [Orders -> Receivable \cup {"received", "cancelled"}]
  BY <1>3, <1>7 DEF Typed, TypeOK
<1>9. TypeOK'
  BY <1>1, <1>4, <1>5, <1>6, <1>8 DEF TypeOK, Frame
<1> QED BY <1>2, <1>9 DEF Typed

(* Every other reader is at another order.                                 *)
LEMMA CommitReaders ==
  ASSUME Typed, Readers, NEW r \in Requests, Commit(r)
  PROVE  Readers'
<1>1. Published(r) /\ Reader(r)
  BY CommitIs DEF Commit, Reader
<1>2. ~Reader(r)'
  BY <1>1 DEF Published, Ended, Reader
<1>3. ASSUME NEW q \in Requests, Reader(q)'
      PROVE  /\ Reader(q) /\ Of(q)' = Of(q)
             /\ Open(Of(q))' /\ (Guided(q) => AsSeen(q))'
             /\ (line0[q] = received[input[q].line])' /\ Fits(input[q], line0[q])'
  <2>1. q # r
    BY <1>2, <1>3
  <2>2. /\ Reader(q) /\ input'[q] = input[q] /\ line0'[q] = line0[q]
        /\ Of(q) # Of(r)
    BY <1>1, <1>3, <2>1 DEF Published, Others, Reader, Readers
  <2>3. input[q] \in Request
    BY <2>2 DEF Reader, Typed, TypeOK
  <2>4. Of(q) \in Orders /\ input[q].line \in Lines /\ input[q].line # input[r].line
    BY <2>2, <2>3, ReceiptConstants DEF Of, Request
  <2>5. /\ status'[Of(q)] = status[Of(q)] /\ version'[Of(q)] = version[Of(q)]
        /\ received'[input[q].line] = received[input[q].line]
    BY <1>1, <2>2, <2>4 DEF Published, Typed, TypeOK
  <2> QED BY <2>2, <2>5 DEF Readers, Of, Open, Guided, AsSeen, Fits
<1>4. \A p, q \in Requests : p # q /\ Reader(p)' /\ Reader(q)' => Of(p)' # Of(q)'
  BY <1>3 DEF Readers
<1> QED BY <1>3, <1>4 DEF Readers

(* The devices created are those whose serial numbers r had locked.        *)
LEMMA CommitDevices ==
  ASSUME Typed, Readers, Devices, NEW r \in Requests, Commit(r)
  PROVE  Devices'
<1>1. Published(r)
  BY CommitIs
<1>2. Range(input[r].serials) = Locks(r)
  <2>1. input[r].serials \in Seq(Serials) /\ held[r] = Len(input[r].serials)
    BY <1>1 DEF Published, Request, Commit, Devices
  <2> QED BY <2>1 DEF Locks, Range
<1>3. Booked' = Booked \cup Locks(r)
  BY <1>1, <1>2, NewReceipt DEF Booked
<1>4. \A n \in DOMAIN receipts : Range(receipts[n].serials) \cap Locks(r) = {}
  BY DEF Devices, Booked
<1>5. SerialsUnique'
  <2>1. SUFFICES ASSUME NEW m \in DOMAIN receipts', NEW n \in DOMAIN receipts', m # n
                 PROVE  Range(receipts'[m].serials) \cap Range(receipts'[n].serials) = {}
    BY DEF SerialsUnique
  <2>2. CASE m \in DOMAIN receipts /\ n \in DOMAIN receipts
    BY <1>1, <2>1, <2>2, NewReceipt DEF Devices, SerialsUnique
  <2>3. CASE m \notin DOMAIN receipts
    <3>1. m = Len(receipts) + 1 /\ n \in DOMAIN receipts
      BY <1>1, <2>1, <2>3, NewReceipt
    <3> QED BY <1>1, <1>2, <1>4, <3>1, NewReceipt
  <2>4. CASE n \notin DOMAIN receipts
    <3>1. n = Len(receipts) + 1 /\ m \in DOMAIN receipts
      BY <1>1, <2>1, <2>4, NewReceipt
    <3> QED BY <1>1, <1>2, <1>4, <3>1, NewReceipt
  <2> QED BY <2>2, <2>3, <2>4
<1>6. Locks(r)' = {} /\ pc'[r] # "written"
  BY <1>1 DEF Published, Ended, Locks
<1>7. ASSUME NEW q \in Requests, q # r
      PROVE  /\ Locks(q)' = Locks(q)
             /\ pc'[q] = "written" => held'[q] = Len(input'[q].serials)
  BY <1>1, <1>7 DEF Published, Others, Locks, Devices
<1>8. \A q \in Requests : Locks(q)' \cap Booked' = {}
  BY <1>3, <1>6, <1>7 DEF Devices
<1>9. \A p, q \in Requests : p # q => Locks(p)' \cap Locks(q)' = {}
  BY <1>6, <1>7 DEF Devices
<1>10. \A q \in Requests : pc'[q] = "written" => held'[q] = Len(input'[q].serials)
  BY <1>6, <1>7
<1> QED BY <1>5, <1>8, <1>9, <1>10 DEF Devices

(* The record saved is of a key nobody else has claimed.                   *)
LEMMA CommitClaims ==
  ASSUME Typed, Readers, Claims, NEW r \in Requests, Commit(r)
  PROVE  Claims'
<1>1. Published(r) /\ pc[r] = "written"
  BY CommitIs DEF Commit
<1> DEFINE Keyed == {n \in DOMAIN receipts : receipts[n].key # NoKey}
<1>2. records = {receipts[n] : n \in Keyed}
  BY DEF Claims, OncePerKey
<1>3. Guided(r) => \A n \in Keyed : ~SameKey(input[r], receipts[n])
  <2>1. SUFFICES ASSUME Guided(r) PROVE \A n \in Keyed : ~SameKey(input[r], receipts[n])
    OBVIOUS
  <2>2. Conflicting(input[r]) = {}
    BY <1>1, <2>1 DEF Claims, Claimed
  <2> QED BY <1>2, <2>2 DEF Conflicting
<1>4. ASSUME NEW m \in DOMAIN receipts', NEW n \in DOMAIN receipts',
             receipts'[m].key # NoKey, SameKey(receipts'[m], receipts'[n])
      PROVE  m = n
  <2>1. CASE m \in DOMAIN receipts /\ n \in DOMAIN receipts
    BY <1>1, <1>4, <2>1, NewReceipt DEF Claims, OncePerKey
  <2>2. CASE m \notin DOMAIN receipts /\ n \in DOMAIN receipts
    <3>1. receipts'[m] = input[r] /\ receipts'[n] = receipts[n]
      BY <1>1, <2>2, NewReceipt
    <3> QED BY <1>3, <1>4, <2>2, <3>1 DEF SameKey, Guided
  <2>3. CASE n \notin DOMAIN receipts /\ m \in DOMAIN receipts
    <3>1. receipts'[n] = input[r] /\ receipts'[m] = receipts[m]
      BY <1>1, <2>3, NewReceipt
    <3> QED BY <1>3, <1>4, <2>3, <3>1 DEF SameKey, Guided
  <2>4. CASE m \notin DOMAIN receipts /\ n \notin DOMAIN receipts
    BY <1>1, <2>4, NewReceipt
  <2> QED BY <2>1, <2>2, <2>3, <2>4
<1>5. records' = {receipts'[n] : n \in {m \in DOMAIN receipts' : receipts'[m].key # NoKey}}
  <2>1. CASE Guided(r)
    <3>1. {m \in DOMAIN receipts' : receipts'[m].key # NoKey} = Keyed \cup {Len(receipts) + 1}
      BY <1>1, <2>1, NewReceipt DEF Guided
    <3> QED BY <1>1, <1>2, <2>1, <3>1, NewReceipt DEF Published
  <2>2. CASE ~Guided(r)
    <3>1. {m \in DOMAIN receipts' : receipts'[m].key # NoKey} = Keyed
      BY <1>1, <2>2, NewReceipt DEF Guided
    <3> QED BY <1>1, <1>2, <2>2, <3>1, NewReceipt DEF Published
  <2> QED BY <2>1, <2>2
<1>6. OncePerKey'
  BY <1>4, <1>5 DEF OncePerKey, SameKey
<1>7. ~Claimed(r)'
  BY <1>1 DEF Published, Ended, Claimed
<1>8. ASSUME NEW q \in Requests, Claimed(q)'
      PROVE  Claimed(q) /\ input'[q] = input[q] /\ Conflicting(input[q])' = {}
  <2>1. q # r
    BY <1>7, <1>8
  <2>2. Claimed(q) /\ input'[q] = input[q]
    BY <1>1, <1>8, <2>1 DEF Published, Others, Claimed, Guided
  <2>3. Conflicting(input[q]) = {}
    BY <2>2 DEF Claims
  <2>4. Guided(r) => ~SameKey(input[q], input[r])
    BY <1>1, <2>1, <2>2 DEF Claims, Claimed, SameKey
  <2> QED BY <1>1, <2>2, <2>3, <2>4 DEF Published, Conflicting, SameKey
<1>9. \A p, q \in Requests : p # q /\ Claimed(p)' /\ Claimed(q)' => ~SameKey(input[p], input[q])'
  BY <1>8 DEF Claims, SameKey
<1> QED BY <1>6, <1>8, <1>9 DEF Claims

LEMMA CommitOverdelivery ==
  ASSUME Typed, NoSilentOverdelivery, NEW r \in Requests, Published(r)
  PROVE  NoSilentOverdelivery'
<1>1. SUFFICES ASSUME NEW l \in Lines, received'[l] > Ordered[l]
               PROVE  \E n \in DOMAIN receipts' : receipts'[n].line = l /\ receipts'[n].over
  BY DEF NoSilentOverdelivery
<1>2. CASE l = input[r].line /\ input[r].over
  <2>1. Len(receipts) + 1 \in DOMAIN receipts' /\ receipts'[Len(receipts) + 1] = input[r]
    BY NewReceipt
  <2> QED BY <1>2, <2>1
<1>3. CASE l = input[r].line /\ ~input[r].over
  <2>1. received'[l] = received[l] + input[r].quantity
    BY <1>3 DEF Published, Typed, TypeOK
  <2> QED BY <1>1, <1>3, <2>1 DEF Published, Fits, Request
<1>4. CASE l # input[r].line
  <2>1. received'[l] = received[l]
    BY <1>4 DEF Published, Typed, TypeOK
  <2> QED BY <1>1, <2>1, NewReceipt DEF NoSilentOverdelivery
<1> QED BY <1>2, <1>3, <1>4

(* The sums of the ledger are those of SumTheorems.                        *)
LEMMA ReceivedIsSum ==
  ASSUME NEW l, NEW done
  PROVE  Ledger!Received(l, done)
           = SumFunctionOnSet(Ledger!BookedOn(l, done), DOMAIN Ledger!BookedOn(l, done))
BY DEF Ledger!Received, Ledger!SumFunction, Ledger!SumFunctionOnSet,
       Ledger!FoldFunctionOnSet, Ledger!MapThenFoldSet,
       SumFunctionOnSet, FoldFunctionOnSet, MapThenFoldSet

(* One more receipt adds its quantity to what is booked on its line and    *)
(* nothing to the others.                                                  *)
LEMMA OneMoreBooked ==
  ASSUME NEW done \in Seq(Request), NEW i \in Request, NEW l \in Lines
  PROVE  Ledger!Received(l, Append(done, i))
           = Ledger!Received(l, done) + (IF i.line = l THEN i.quantity ELSE 0)
<1> DEFINE n == Len(done)
           more == Ledger!BookedOn(l, Append(done, i))
           amount == IF i.line = l THEN i.quantity ELSE 0
<1>1. n \in Nat /\ DOMAIN done = 1 .. n /\ DOMAIN Append(done, i) = 1 .. (n + 1)
  OBVIOUS
<1>2. /\ DOMAIN more = 1 .. (n + 1) /\ DOMAIN Ledger!BookedOn(l, done) = 1 .. n
      /\ (1 .. (n + 1)) \ {n + 1} = 1 .. n
  BY <1>1 DEF Ledger!BookedOn
<1>3. \A k \in 1 .. n : more[k] = Ledger!BookedOn(l, done)[k]
  BY <1>1 DEF Ledger!BookedOn
<1>4. more[n + 1] = amount
  BY <1>1 DEF Ledger!BookedOn
<1>5. \A k \in 1 .. n : Ledger!BookedOn(l, done)[k] \in Nat
  <2>1. \A k \in 1 .. n : done[k] \in Request
    BY <1>1
  <2>2. \A k \in 1 .. n : done[k].quantity \in Nat
    BY <2>1 DEF Request
  <2> QED BY <1>1, <2>2 DEF Ledger!BookedOn
<1>6. amount \in Nat
  BY DEF Request
<1> HIDE DEF n, more, amount
<1>7. IsFiniteSet(1 .. n) /\ IsFiniteSet(1 .. (n + 1))
  BY <1>1, FS_Interval
<1>8. \A k \in 1 .. (n + 1) : more[k] \in Nat
  BY <1>1, <1>3, <1>4, <1>5, <1>6
<1>9. SumFunctionOnSet(more, 1 .. (n + 1)) = amount + SumFunctionOnSet(more, 1 .. n)
  <2>1. n + 1 \in 1 .. (n + 1)
    BY <1>1
  <2>2. SumFunctionOnSet(more, 1 .. (n + 1))
          = more[n + 1] + SumFunctionOnSet(more, (1 .. (n + 1)) \ {n + 1})
    BY <1>7, <1>8, <2>1, SumByMember
  <2> QED BY <1>2, <1>4, <2>2
<1>10. SumFunctionOnSet(more, 1 .. n) = SumFunctionOnSet(Ledger!BookedOn(l, done), 1 .. n)
  BY <1>3, <1>7, SumEqual
<1>11. SumFunctionOnSet(Ledger!BookedOn(l, done), 1 .. n) \in Nat
  BY <1>5, <1>7, SumType
<1>12. SumFunctionOnSet(more, 1 .. (n + 1))
         = SumFunctionOnSet(Ledger!BookedOn(l, done), 1 .. n) + amount
  BY <1>6, <1>9, <1>10, <1>11
<1> QED BY <1>2, <1>12, ReceivedIsSum DEF more, amount

LEMMA CommitBooks ==
  ASSUME Typed, ReceivedIsBooked, NEW r \in Requests, Published(r)
  PROVE  ReceivedIsBooked'
<1>1. SUFFICES ASSUME NEW l \in Lines
               PROVE  received'[l] = Ledger!Received(l, receipts')
  BY DEF ReceivedIsBooked, Ledger!Received, Ledger!BookedOn
<1>2. input[r] \in Request /\ receipts \in Seq(Request) /\ receipts' = Append(receipts, input[r])
  BY DEF Published, Typed, TypeOK
<1>3. Ledger!Received(l, receipts')
        = received[l] + (IF input[r].line = l THEN input[r].quantity ELSE 0)
  BY <1>2, OneMoreBooked DEF ReceivedIsBooked
<1>4. received[l] \in Nat
  BY DEF Typed, TypeOK
<1>5. received'[l] = IF input[r].line = l THEN received[l] + input[r].quantity ELSE received[l]
  BY DEF Published, Typed, TypeOK
<1> QED BY <1>3, <1>4, <1>5

LEMMA CommitStatus ==
  ASSUME Typed, Readers, StatusAgrees, NEW r \in Requests, Published(r)
  PROVE  StatusAgrees'
<1> DEFINE of(o) == {l \in Lines : OrderOf[l] = o}
           agrees(o, st, got) ==
             /\ st = "received" <=> \A l \in of(o) : got[l] >= Ordered[l]
             /\ st \in {"sent", "confirmed", "partially_confirmed"} => ~\E l \in of(o) : got[l] > 0
             /\ st = "partially_received" => \E l \in of(o) : got[l] > 0
<1>1. SUFFICES ASSUME NEW o \in Orders PROVE agrees(o, status'[o], received')
  BY DEF StatusAgrees
<1>2. input[r].line \in Lines /\ Of(r) \in Orders /\ input[r].quantity \in Nat \ {0}
  BY ReceiptConstants DEF Published, Request, Of
<1>3. received' \in [Lines -> Nat] /\ received'[input[r].line] = received[input[r].line] + input[r].quantity
  <2>1. received \in [Lines -> Nat]
    BY DEF Typed, TypeOK
  <2>2. received' = [received EXCEPT ![input[r].line] = @ + input[r].quantity]
    BY DEF Published
  <2> QED BY <1>2, <2>1, <2>2
<1>4. \A l \in Lines : Ordered[l] \in Nat
  BY ReceiptConstants
<1>5. CASE o = Of(r)
  <2>1. received'[input[r].line] > 0 /\ input[r].line \in of(o)
    BY <1>2, <1>3, <1>5 DEF Published, Of
  <2>2. status'[o] = StatusAfter(o, received')
    BY <1>2, <1>5 DEF Published, Typed, TypeOK
  <2>3. Remaining(o, received') = {} <=> \A l \in of(o) : received'[l] >= Ordered[l]
    BY <1>3, <1>4 DEF Remaining
  <2> HIDE DEF of
  <2> QED BY <2>1, <2>2, <2>3 DEF StatusAfter
<1>6. CASE o # Of(r)
  <2>1. status'[o] = status[o]
    BY <1>6 DEF Published, Typed, TypeOK
  <2>2. \A l \in of(o) : received'[l] = received[l]
    BY <1>2, <1>6 DEF Published, Typed, TypeOK, Of
  <2>3. agrees(o, status[o], received)
    BY DEF StatusAgrees
  <2> HIDE DEF of
  <2> QED BY <2>1, <2>2, <2>3
<1> QED BY <1>5, <1>6

(* A user changes the status of an order no receipt has locked, and never  *)
(* from or to one that tells of receipts.                                  *)
LEMMA UpdateKeeps ==
  ASSUME Inv, NEW o \in Orders, NEW s \in Statuses, UpdateOrder(o, s)
  PROVE  Inv'
<1>1. /\ status' = [status EXCEPT ![o] = s] /\ version' = [version EXCEPT ![o] = @ + 1]
      /\ UNCHANGED <<received, receipts, records, pc, input, line0, held>>
      /\ TransitionAllowed(status[o], s)
      /\ \A r \in Requests : ~HoldsRow(r, o)
  BY DEF UpdateOrder
<1>2. status[o] \in Receivable \cup {"received", "cancelled"}
  BY DEF Inv, Typed, TypeOK
<1>3. /\ s \in Receivable \cup {"received", "cancelled"}
      /\ s = status[o] \/ (status[o] = "sent" /\ s \in {"confirmed", "partially_confirmed"})
         \/ (status[o] # "received" /\ s = "cancelled")
  BY <1>1, <1>2 DEF TransitionAllowed, Receivable
<1>4. Typed'
  BY <1>1, <1>3 DEF Inv, Typed, TypeOK, Shapes
<1>5. ASSUME NEW q \in Requests, Reader(q)
      PROVE  Of(q) # o /\ status'[Of(q)] = status[Of(q)] /\ version'[Of(q)] = version[Of(q)]
  <2>1. Of(q) # o
    BY <1>1, <1>5 DEF Reader, HoldsRow
  <2>2. Of(q) \in Orders
    BY <1>5, ReceiptConstants DEF Reader, Inv, Typed, TypeOK, Request, Of
  <2> QED BY <1>1, <2>1, <2>2 DEF Inv, Typed, TypeOK
<1>6. Readers'
  BY <1>1, <1>5 DEF Inv, Readers, Reader, Of, Open, Guided, AsSeen, Fits
<1>7. Devices'
  <2>1. Booked' = Booked /\ SerialsUnique' /\ \A q \in Requests : Locks(q)' = Locks(q)
    BY <1>1 DEF Inv, Devices, SerialsUnique, Locks, Booked
  <2> QED BY <1>1, <2>1 DEF Inv, Devices
<1>8. Claims'
  BY <1>1 DEF Inv, Claims, OncePerKey, Claimed, Guided, Conflicting, SameKey
<1>9. NoSilentOverdelivery'
  BY <1>1 DEF Inv, NoSilentOverdelivery
<1>10. StatusAgrees'
  <2> DEFINE of(p) == {l \in Lines : OrderOf[l] = p}
             agrees(p, st) ==
               /\ st = "received" <=> \A l \in of(p) : received[l] >= Ordered[l]
               /\ st \in {"sent", "confirmed", "partially_confirmed"} => ~\E l \in of(p) : received[l] > 0
               /\ st = "partially_received" => \E l \in of(p) : received[l] > 0
  <2>1. \A p \in Orders : agrees(p, status[p])
    BY DEF Inv, StatusAgrees
  <2>2. SUFFICES ASSUME NEW p \in Orders PROVE agrees(p, status'[p])
    BY <1>1 DEF StatusAgrees
  <2>3. CASE p = o
    <3>1. status'[p] = s /\ agrees(p, status[p]) /\ status[p] = status[o]
      BY <1>1, <2>1, <2>3 DEF Inv, Typed, TypeOK
    <3> HIDE DEF of
    <3> QED BY <1>3, <3>1
  <2>4. CASE p # o
    <3>1. status'[p] = status[p]
      BY <1>1, <2>4 DEF Inv, Typed, TypeOK
    <3> QED BY <2>1, <3>1
  <2> QED BY <2>3, <2>4
<1>11. ReceivedIsBooked'
  BY <1>1 DEF Inv, ReceivedIsBooked, Ledger!Received, Ledger!BookedOn
<1> QED BY <1>4, <1>6, <1>7, <1>8, <1>9, <1>10, <1>11 DEF Inv
-----------------------------------------------------------------------------
LEMMA InitInv == Init => Inv
<1> SUFFICES ASSUME Init PROVE Inv
  OBVIOUS
<1> USE DEF Init
<1>1. Typed
  BY DEF Typed, TypeOK, Shapes, Receivable
<1>2. Readers
  BY DEF Readers, Reader
<1>3. Booked = {} /\ \A r \in Requests : Locks(r) = {}
  BY DEF Booked, Locks
<1>4. Devices
  BY <1>3 DEF Devices, SerialsUnique
<1>5. Claims
  BY DEF Claims, OncePerKey, Claimed
<1>6. NoSilentOverdelivery
  BY ReceiptConstants DEF NoSilentOverdelivery
<1>7. StatusAgrees
  <2>1. ASSUME NEW o \in Orders
        PROVE  \E l \in {k \in Lines : OrderOf[k] = o} : received[l] < Ordered[l]
    <3>1. PICK l \in Lines : OrderOf[l] = o
      BY ReceiptConstants
    <3>2. Ordered[l] \in Nat \ {0} /\ received[l] = 0
      BY ReceiptConstants
    <3> QED BY <3>1, <3>2
  <2>2. \A l \in Lines : Ordered[l] \in Nat \ {0} /\ received[l] = 0
    BY ReceiptConstants
  <2> QED BY <2>1, <2>2 DEF StatusAgrees
<1>8. ReceivedIsBooked
  <2>1. ASSUME NEW l \in Lines PROVE Ledger!Received(l, receipts) = 0
    <3>1. DOMAIN Ledger!BookedOn(l, receipts) = {}
      BY DEF Ledger!BookedOn
    <3> QED BY <3>1, SumOfNone, ReceivedIsSum
  <2> QED BY <2>1 DEF ReceivedIsBooked
<1> QED BY <1>1, <1>2, <1>4, <1>5, <1>6, <1>7, <1>8 DEF Inv

LEMMA PrivateKeeps ==
  ASSUME Inv, NEW r \in Requests, Private(r)
  PROVE  Inv'
<1>1. Typed' /\ Readers' /\ Devices' /\ Claims'
  BY PrivateTyped, PrivateReaders, PrivateDevices, PrivateClaims DEF Inv
<1>2. NoSilentOverdelivery' /\ StatusAgrees'
  BY DEF Private, orders, Inv, NoSilentOverdelivery, StatusAgrees
<1>3. ReceivedIsBooked'
  BY DEF Private, orders, Inv, ReceivedIsBooked, Ledger!Received, Ledger!BookedOn
<1> QED BY <1>1, <1>2, <1>3 DEF Inv

LEMMA CommitKeeps ==
  ASSUME Inv, NEW r \in Requests, Commit(r)
  PROVE  Inv'
<1>1. Published(r)
  BY CommitIs DEF Inv
<1>2. Typed' /\ NoSilentOverdelivery' /\ StatusAgrees' /\ ReceivedIsBooked'
  BY <1>1, CommitTyped, CommitOverdelivery, CommitStatus, CommitBooks DEF Inv
<1>3. Readers' /\ Devices' /\ Claims'
  BY CommitReaders, CommitDevices, CommitClaims DEF Inv
<1> QED BY <1>2, <1>3 DEF Inv

LEMMA StepInv == Inv /\ [Next]_vars => Inv'
<1>1. ASSUME Inv, UNCHANGED vars PROVE Inv'
  <2> USE <1>1 DEF vars, orders, Inv
  <2>1. Typed'
    BY DEF Typed, TypeOK, Shapes
  <2>2. Readers'
    BY DEF Readers, Reader, Of, Open, Guided, AsSeen, Fits
  <2>3. Booked' = Booked /\ SerialsUnique' /\ \A q \in Requests : Locks(q)' = Locks(q)
    BY DEF Devices, SerialsUnique, Locks, Booked
  <2>4. Devices'
    BY <2>3 DEF Devices
  <2>5. Claims'
    BY DEF Claims, OncePerKey, Claimed, Guided, Conflicting, SameKey
  <2>6. NoSilentOverdelivery' /\ StatusAgrees'
    BY DEF NoSilentOverdelivery, StatusAgrees
  <2>7. ReceivedIsBooked'
    BY DEF ReceivedIsBooked, Ledger!Received, Ledger!BookedOn
  <2> QED BY <2>1, <2>2, <2>4, <2>5, <2>6, <2>7
<1>2. ASSUME Inv, Next PROVE Inv'
  <2>1. Typed
    BY <1>2 DEF Inv
  <2> QED BY <1>2, <2>1, Steps, PrivateKeeps, CommitKeeps, UpdateKeeps
<1> QED BY <1>1, <1>2

THEOREM Invariance == Spec => []Inv
BY InitInv, StepInv, PTL DEF Spec

-----------------------------------------------------------------------------
(* Every variable keeps its type, for any instance (GoodsReceipt!TypeOK).  *)
THEOREM TypeCorrect == Spec => []TypeOK
<1>1. Inv => TypeOK
  BY DEF Inv, Typed
<1> QED BY Invariance, <1>1, PTL

(* However many receipts run at once, no two devices they create share a   *)
(* serial number: the advisory lock of lockAndValidateReceiptSerial is     *)
(* held until the device it was checked for is there.                      *)
THEOREM SerialsStayUnique == Spec => []SerialsUnique
<1>1. Inv => SerialsUnique
  BY DEF Inv, Devices
<1> QED BY Invariance, <1>1, PTL

(* A key books goods once, however often it is sent                        *)
(* (beginIdempotentMutation): who finds no record under it is the only one *)
(* who can write it.                                                       *)
THEOREM BooksOnce == Spec => []OncePerKey
<1>1. Inv => OncePerKey
  BY DEF Inv, Claims
<1> QED BY Invariance, <1>1, PTL

(* Receipts that meet on a line never book more than was ordered unless    *)
(* one of them says so (the checks of applyGoodsReceipt on the locked      *)
(* line).                                                                  *)
THEOREM NeverSilentlyMore == Spec => []NoSilentOverdelivery
<1>1. Inv => NoSilentOverdelivery
  BY DEF Inv
<1> QED BY Invariance, <1>1, PTL

(* The status of an order agrees with all its lines, whoever booked them   *)
(* and whatever users do to the status meanwhile (receiveOrder,            *)
(* updateOrder).                                                           *)
THEOREM StatusFollowsLines == Spec => []StatusAgrees
<1>1. Inv => StatusAgrees
  BY DEF Inv
<1> QED BY Invariance, <1>1, PTL

(* The lines show exactly the goods that receipts, stock and devices were  *)
(* created for: of the receipts that meet on a line each adds its quantity *)
(* to what the others wrote, none overwrites it (line.ReceivedQuantity +=  *)
(* on the row that applyGoodsReceipt has locked).                          *)
THEOREM ReceiptsAreBooked == Spec => []ReceivedIsBooked
<1>1. Inv => ReceivedIsBooked
  BY DEF Inv
<1> QED BY Invariance, <1>1, PTL

(* A guided receipt is booked on the order its user saw: nobody gets       *)
(* between the check of the version and the commit                         *)
(* (prepareGoodsReceiptOwner and the row lock of applyGoodsReceipt).       *)
THEOREM BooksWhatWasSeen == Spec => BookedAsSeen
<1> DEFINE Seen ==
      \A r \in Requests :
        (pc[r] = "written" /\ Guided(r) /\ receipts' # receipts /\ pc'[r] = "idle")
        => /\ version[Of(r)] = input[r].seen
           /\ version'[Of(r)] = input[r].seen + 1
<1>1. ASSUME Inv, [Next]_vars PROVE [Seen]_vars
  <2>1. SUFFICES ASSUME Next, NEW r \in Requests, pc[r] = "written", Guided(r),
                        receipts' # receipts, pc'[r] = "idle"
                 PROVE  /\ version[Of(r)] = input[r].seen
                        /\ version'[Of(r)] = input[r].seen + 1
    BY <1>1
  <2>2. ASSUME NEW q \in Requests, Private(q) PROVE FALSE
    BY <2>1, <2>2 DEF Private, orders
  <2>3. ASSUME NEW q \in Requests, Commit(q)
        PROVE  /\ version[Of(r)] = input[r].seen
               /\ version'[Of(r)] = input[r].seen + 1
    <3>1. Published(q)
      BY <1>1, <2>3, CommitIs DEF Inv
    <3>2. q = r
      BY <2>1, <3>1 DEF Published, Others
    <3>3. AsSeen(r)
      BY <1>1, <2>1 DEF Inv, Readers, Reader
    <3>4. Of(r) \in Orders
      BY <2>1, <1>1, ReceiptConstants DEF Inv, Typed, TypeOK, Request, Of
    <3> QED BY <1>1, <3>1, <3>2, <3>3, <3>4 DEF Published, AsSeen, Inv, Typed, TypeOK
  <2>4. ASSUME NEW o \in Orders, NEW s \in Statuses, UpdateOrder(o, s) PROVE FALSE
    BY <2>1, <2>4 DEF UpdateOrder
  <2>5. Typed
    BY <1>1 DEF Inv
  <2> QED BY <2>1, <2>2, <2>3, <2>4, <2>5, Steps
<1> QED BY <1>1, Invariance, PTL DEF Spec, BookedAsSeen

-----------------------------------------------------------------------------
(* GoodsReceipt implements ReceiptLedger.                                  *)
LEMMA ServedKept ==
  ASSUME Inv, Served, [Next]_vars
  PROVE  Served'
<1>1. ASSUME NEW r \in Requests, Private(r) PROVE Served'
  <2>1. \A q \in Requests : q # r => pc'[q] = pc[q] /\ input'[q] = input[q]
    BY <1>1 DEF Private, Others
  <2>2. pc'[r] # "idle" => IsInput(input'[r])
    BY <1>1 DEF Private, Asks, Ended, Plain, Inserts, Reads, Grabs, GoesOn, Served
  <2> QED BY <2>1, <2>2 DEF Served
<1>2. ASSUME NEW r \in Requests, Commit(r) PROVE Served'
  <2>1. Others(r) /\ Ended(r)
    BY <1>2, CommitIs DEF Inv, Published
  <2> QED BY <2>1 DEF Others, Ended, Served
<1>3. ASSUME UNCHANGED <<pc, input>> PROVE Served'
  BY <1>3 DEF Served
<1>4. ASSUME NEW o \in Orders, NEW s \in Statuses, UpdateOrder(o, s) PROVE Served'
  BY <1>3, <1>4 DEF UpdateOrder
<1> QED BY <1>1, <1>2, <1>3, <1>4, Steps DEF Inv, vars

LEMMA CommitIsBook ==
  ASSUME Inv, Served, NEW r \in Requests, Commit(r), Inv'
  PROVE  \E i \in Inputs : Ledger!Book(i)
<1>1. Published(r) /\ pc[r] = "written"
  BY CommitIs DEF Inv, Commit
<1>2. PICK i \in Inputs :
        /\ input[r].line = i.line /\ input[r].quantity = i.quantity
        /\ input[r].serials = i.serials
        /\ input[r].over = i.over /\ input[r].key = i.key
        /\ i.key = NoKey => input[r].seen = 0
  BY <1>1 DEF Served, IsInput
<1>3. /\ input[r] \in Request /\ input[r].line \in Lines
      /\ Of(r) = OrderOf[i.line] /\ Of(r) \in Orders
  BY <1>1, <1>2, ReceiptConstants DEF Published, Request, Of
<1>4. status[Of(r)] \in Receivable
  BY <1>1 DEF Inv, Readers, Reader, Open
<1>5. i.over \/ Ledger!Received(i.line, receipts) + i.quantity <= Ordered[i.line]
  BY <1>1, <1>2, <1>3 DEF Inv, ReceivedIsBooked, Published, Fits
<1>6. Ledger!IsNew(i)
  <2>1. SUFFICES ASSUME NEW n \in DOMAIN receipts
                 PROVE  /\ Range(i.serials) \cap Range(receipts[n].serials) = {}
                        /\ i.key = NoKey \/ i.key # receipts[n].key
                           \/ OrderOf[i.line] # OrderOf[receipts[n].line]
    BY DEF Ledger!IsNew, Ledger!Range, Range
  <2>2. Range(i.serials) = Locks(r)
    <3>1. input[r].serials \in Seq(Serials) /\ held[r] = Len(input[r].serials)
      BY <1>1, <1>3 DEF Request, Inv, Devices
    <3> QED BY <1>2, <3>1 DEF Locks, Range
  <2>3. Locks(r) \cap Range(receipts[n].serials) = {}
    BY DEF Inv, Devices, Booked
  <2>4. CASE i.key # NoKey /\ i.key = receipts[n].key
    <3>1. Claimed(r) /\ receipts[n] \in records
      BY <1>1, <1>2, <2>4 DEF Claimed, Guided, Inv, Claims, OncePerKey
    <3>2. ~SameKey(input[r], receipts[n])
      BY <3>1 DEF Inv, Claims, Conflicting
    <3> QED BY <1>2, <2>2, <2>3, <2>4, <3>2 DEF SameKey
  <2> QED BY <2>2, <2>3, <2>4
<1>7. receipts' = Append(receipts, Ledger!Entry(i))
  <2>1. input[r].seen = IF i.key = NoKey THEN 0 ELSE version[OrderOf[i.line]]
    BY <1>1, <1>2, <1>3 DEF Inv, Readers, Reader, Guided, AsSeen
  <2>2. input[r] = Ledger!Entry(i)
    BY <1>2, <1>3, <2>1 DEF Request, Ledger!Entry
  <2> QED BY <1>1, <2>2 DEF Published
<1>8. StatusAfter(Of(r), received')
        = IF Ledger!Complete(Of(r), receipts') THEN "received" ELSE "partially_received"
  <2>1. \A l \in Lines : /\ received'[l] \in Nat /\ Ordered[l] \in Nat
                         /\ received'[l] = Ledger!Received(l, receipts')
    BY ReceiptConstants DEF Inv, Typed, TypeOK, ReceivedIsBooked, Ledger!Received,
       Ledger!BookedOn
  <2>2. Remaining(Of(r), received') = {} <=> Ledger!Complete(Of(r), receipts')
    BY <2>1 DEF Remaining, Ledger!Complete
  <2> QED BY <2>2 DEF StatusAfter
<1>9. Ledger!Book(i)
  BY <1>1, <1>3, <1>4, <1>5, <1>6, <1>7, <1>8 DEF Published, Ledger!Book, Receivable,
     Ledger!Receivable
<1> QED BY <1>9

LEMMA LedgerInit == Init => Ledger!Init
BY DEF Init, Ledger!Init

LEMMA LedgerStep ==
  ASSUME Inv, Served, Inv', [Next]_vars
  PROVE  [Ledger!Next]_(Ledger!ledgerVars)
<1>1. ASSUME NEW r \in Requests, Private(r) PROVE UNCHANGED Ledger!ledgerVars
  BY <1>1 DEF Private, orders, Ledger!ledgerVars
<1>2. ASSUME NEW r \in Requests, Commit(r) PROVE Ledger!Next
  BY <1>2, CommitIsBook DEF Ledger!Next
<1>3. ASSUME NEW o \in Orders, NEW s \in Statuses, UpdateOrder(o, s) PROVE Ledger!Next
  <2>1. Ledger!ChangeStatus(o, s)
    BY <1>3 DEF UpdateOrder, Ledger!ChangeStatus, TransitionAllowed,
       Ledger!TransitionAllowed
  <2> QED BY <2>1 DEF Ledger!Next, Statuses, Ledger!Statuses
<1>4. CASE UNCHANGED vars
  BY <1>4 DEF vars, orders, Ledger!ledgerVars
<1> QED BY <1>1, <1>2, <1>3, <1>4, Steps DEF Inv

(* Whatever locks, waits, retries and rollbacks are between, goods receipts *)
(* behave as if they were booked one at a time, each checked against the   *)
(* order, the devices and the keys as they are when it is booked           *)
(* (applyGoodsReceipt, goodsReceiptMCP).                                   *)
THEOREM ReceiptsAreSerial == Spec => BooksAsIfAlone
<1>1. Init => Served
  BY DEF Init, Served
<1>2. Inv /\ Served /\ [Next]_vars => Served'
  BY ServedKept
<1>3. Inv /\ Inv' /\ Served /\ [Next]_vars => [Ledger!Next]_(Ledger!ledgerVars)
  BY LedgerStep
<1> QED BY <1>1, <1>2, <1>3, LedgerInit, Invariance, PTL DEF Spec, BooksAsIfAlone, Ledger!Spec
=============================================================================
