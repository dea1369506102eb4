---------------------- MODULE SupplierSubmissionProofs ----------------------
(***************************************************************************)
(* Theorems about SupplierSubmission for any number of orders, handlers    *)
(* and keys.                                                               *)
(*                                                                         *)
(* The safety theorems rest on the inductive invariant IInv, which needs   *)
(* no assumption on time.  The theorems about orders that a human closed   *)
(* as "not sent" speak of Amazon orders only.  They add TimedInv, and the  *)
(* hypothesis AttemptBound < Settle: the 15 minutes outlast every attempt  *)
(* at Amazon, whose requests have timeouts.  Nothing bounds an attempt at  *)
(* Adam Hall, and the run submission_adamhall shows what follows.          *)
(***************************************************************************)
EXTENDS SupplierSubmission, TLAPS

USE SubmissionConstants DEF SubmissionConstants

InFlight == {"submitting", "submission_unknown"}

(* A busy handler works on a claimed order, knows what its program counter *)
(* says, and has not called the supplier before it stands at "calling".    *)
HandlerInv ==
  \A r \in Requests : pc[r] # "idle" =>
    LET o == reqOrder[r] IN
    /\ o \in Orders
    /\ claim[o] # "none"
    /\ pc[r] = "recorded" <=> claim[o] # "pending"
    /\ pc[r] = "claimed" => sends[o] = 0
    /\ pc[r] = "answered" => answer[r] \in Outcomes
    /\ pc[r] = "answered" /\ answer[r] = "accepted" => placed[o] = 1

(* No two handlers work on one order: the claim admits the first only. *)
OneHandler ==
  \A r1, r2 \in Requests :
    pc[r1] # "idle" /\ pc[r2] # "idle" /\ reqOrder[r1] = reqOrder[r2]
      => r1 = r2

(* An order without a claim has no trace of a submission, and a claimed    *)
(* order was never, and is never again, a draft.                           *)
ClaimInv ==
  \A o \in Orders :
    /\ claim[o] = "none" =>
         /\ status[o] \notin InFlight
         /\ sends[o] = 0
         /\ reconciled[o] = "none"
         /\ o \notin confirmed
    /\ claim[o] # "none" => status[o] # "draft" /\ o \notin manual
    /\ o \in manual => status[o] # "draft"

(* Each supplier call is under way, booked or lost. *)
SupplierInv ==
  \A o \in Orders :
    /\ sends[o] <= 1
    /\ placed[o] <= sends[o]
    /\ o \in wire => sends[o] = 1 /\ placed[o] = 0

(* Whatever asserts a purchase has one behind it. *)
RealInv ==
  \A o \in Orders :
    claim[o] = "accepted" \/ reconciled[o] = "found_order" \/ o \in confirmed
      => placed[o] = 1

(* An uncertain status means an uncertain outcome, and is over once a      *)
(* human has decided.                                                      *)
StatusInv ==
  \A o \in Orders :
    /\ status[o] = "submission_unknown" => claim[o] = "unknown"
    /\ reconciled[o] # "none" => status[o] \notin InFlight
    /\ reconciled[o] = "confirmed_not_sent" => status[o] = "cancelled"

(* A final receipt says what the immutable outcome says. *)
ReceiptInv ==
  \A o \in Orders, k \in Keys :
    receipt[o][k] \in {"sent", "submission_unknown"} =>
      OutcomeSaved(o) /\ receipt[o][k] = OutcomeStatus(o)

IInv ==
  /\ TypeOK
  /\ HandlerInv
  /\ OneHandler
  /\ ClaimInv
  /\ SupplierInv
  /\ RealInv
  /\ SentIsReal
  /\ StatusInv
  /\ ReceiptInv

(* An Amazon attempt lives no longer than AttemptBound, and an Amazon      *)
(* order closed as never sent is older than any attempt.                   *)
TimedInv ==
  \A o \in AmazonOrders :
    /\ Live(o) \/ o \in wire => age[o] <= AttemptBound
    /\ reconciled[o] = "confirmed_not_sent" =>
         age[o] >= Settle /\ placed[o] = 0

-----------------------------------------------------------------------------
(* Type correctness is not inductive alone: a call made by a handler       *)
(* without an order would put NoOrder on the wire.                         *)

LEMMA InitTypeOK == Init => TypeOK
  BY DEF Init, TypeOK, Statuses, Outcomes, Receipts

LEMMA NextTypeOK ==
  ASSUME TypeOK, HandlerInv, [Next]_vars
  PROVE  TypeOK'
<1> USE DEF TypeOK, Statuses, Outcomes, Receipts, local, handler, supplier,
            history
<1>1. ASSUME NEW r \in Requests, NEW o \in Orders, NEW k \in Keys \cup {NoKey},
             Claim(r, o, k)
      PROVE  TypeOK'
  BY <1>1 DEF Claim, SetReceipt
<1>2. ASSUME NEW r \in Requests, HandlerStep(r)
      PROVE  TypeOK'
  <2>1. CASE CallSupplier(r)
    <3>1. reqOrder[r] \in Orders
      BY <2>1 DEF CallSupplier, HandlerInv
    <3> QED
      BY <2>1, <3>1 DEF CallSupplier
  <2>2. CASE FailBeforeCall(r)
    BY <2>2 DEF FailBeforeCall
  <2>3. CASE ReceiveAnswer(r)
    BY <2>3 DEF ReceiveAnswer
  <2>4. CASE RecordOutcome(r)
    BY <2>4 DEF RecordOutcome
  <2>5. CASE Finalize(r)
    BY <2>5 DEF Finalize, FinalizeOrder, FinalizedStatus, OutcomeStatus,
                SetReceipt, Release
  <2> QED
    BY <1>2, <2>1, <2>2, <2>3, <2>4, <2>5 DEF HandlerStep
<1>3. ASSUME NEW r \in Requests, HandlerFails(r)
      PROVE  TypeOK'
  BY <1>3 DEF HandlerFails, Release
<1>4. ASSUME NEW o \in Orders, NEW k \in Keys, Replay(o, k)
      PROVE  TypeOK'
  <2>1. status' \in [Orders -> Statuses]
    BY <1>4 DEF Replay, FinalizeOrder, FinalizedStatus, OutcomeStatus
  <2>2. receipt' \in [Orders -> [Keys -> Receipts]]
    BY <1>4 DEF Replay, FinalizeOrder, OutcomeStatus, SetReceipt
  <2> QED
    BY <1>4, <2>1, <2>2 DEF Replay, FinalizeOrder
<1>5. ASSUME NEW o \in Orders, SupplierBooks(o) \/ SupplierDrops(o)
      PROVE  TypeOK'
  <2>1. wire' \subseteq Orders
    BY <1>5 DEF SupplierBooks, SupplierDrops
  <2>3. placed' = placed \/ placed' = [placed EXCEPT ![o] = @ + 1]
    BY <1>5 DEF SupplierBooks, SupplierDrops
  <2>4. placed' \in [Orders -> Nat]
    BY <2>3
  <2>2. sends' \in [Orders -> Nat] /\ manual' \subseteq Orders
    BY <1>5 DEF SupplierBooks, SupplierDrops
  <2> QED
    BY <1>5, <2>1, <2>2, <2>4 DEF SupplierBooks, SupplierDrops
<1>6. ASSUME NEW o \in Orders,
             NEW s \in {"sent", "confirmed", "partially_confirmed", "cancelled"},
             Confirm(o, s)
      PROVE  TypeOK'
  BY <1>6 DEF Confirm
<1>7. ASSUME NEW o \in Orders, NEW s \in Statuses,
             UserSetsStatus(o, s) \/ ReceiveGoods(o, s)
      PROVE  TypeOK'
  <2>1. CASE UserSetsStatus(o, s)
    <3>1. /\ status' \in [Orders -> Statuses]
          /\ manual' \subseteq Orders
      BY <2>1 DEF UserSetsStatus
    <3> QED
      BY <2>1, <3>1 DEF UserSetsStatus
  <2>2. CASE ReceiveGoods(o, s)
    BY <2>2 DEF ReceiveGoods, Receivable
  <2> QED
    BY <1>7, <2>1, <2>2
<1>8. ASSUME NEW o \in Orders,
             NEW resolution \in {"found_order", "confirmed_not_sent"},
             Reconcile(o, resolution)
      PROVE  TypeOK'
  BY <1>8 DEF Reconcile
<1>9. CASE Crash
  BY <1>9 DEF Crash
<1>10. CASE Tick
  <2>1. ASSUME NEW o \in Orders
        PROVE  (IF claim[o] = "none" \/ age[o] = Settle THEN age[o]
                                                        ELSE age[o] + 1)
                 \in 0..Settle
    <3>1. age[o] \in Nat /\ age[o] <= Settle /\ Settle \in Nat
      OBVIOUS
    <3> HIDE DEF TypeOK
    <3>2. age[o] # Settle => age[o] + 1 \in 0..Settle
      BY <3>1
    <3> QED
      BY <3>1, <3>2
  <2>2. age' \in [Orders -> 0..Settle]
    BY <1>10, <2>1, Zenon DEF Tick
  <2> QED
    BY <1>10, <2>2 DEF Tick
<1>11. CASE UNCHANGED vars
  BY <1>11 DEF vars
<1> HIDE DEF TypeOK, Statuses
<1> QED
  BY <1>1, <1>2, <1>3, <1>4, <1>5, <1>6, <1>7, <1>8, <1>9, <1>10, <1>11
  DEF Next

-----------------------------------------------------------------------------
(* The inductive invariant, one lemma per group of actions.                *)

LEMMA InitIInv == Init => IInv
  BY InitTypeOK
  DEF Init, IInv, HandlerInv, OneHandler, ClaimInv, SupplierInv, RealInv,
      SentIsReal, StatusInv, ReceiptInv, InFlight

LEMMA BookedAtMostOnce ==
  ASSUME TypeOK, SupplierInv, NEW o \in Orders
  PROVE  placed[o] \in {0, 1}
<1>1. /\ placed[o] \in Nat /\ sends[o] \in Nat
      /\ placed[o] <= sends[o] /\ sends[o] <= 1
  BY DEF TypeOK, SupplierInv
<1> QED
  BY <1>1

LEMMA NextIInv ==
  ASSUME IInv, [Next]_vars
  PROVE  IInv'
<1> DEFINE Parts == /\ HandlerInv /\ OneHandler /\ ClaimInv /\ SupplierInv
                    /\ RealInv /\ SentIsReal /\ StatusInv /\ ReceiptInv
<1>0. TypeOK /\ Parts
  BY DEF IInv
<1> USE <1>0 DEF local, handler, supplier, history
<1>1. ASSUME NEW r \in Requests, NEW o \in Orders, NEW k \in Keys \cup {NoKey},
             Claim(r, o, k)
      PROVE  Parts'
  <2>1. HandlerInv'
    BY <1>1 DEF Claim, TypeOK, HandlerInv, UnsubmittedDraft, ClaimInv
  <2>2. OneHandler'
    BY <1>1 DEF Claim, TypeOK, OneHandler, UnsubmittedDraft, HandlerInv
  <2>3. ClaimInv'
    BY <1>1 DEF Claim, TypeOK, ClaimInv, InFlight, UnsubmittedDraft
  <2>4. RealInv'
    BY <1>1 DEF Claim, TypeOK, RealInv, UnsubmittedDraft, ClaimInv
  <2>5. SentIsReal'
    BY <1>1 DEF Claim, TypeOK, SentIsReal
  <2>6. StatusInv'
    BY <1>1 DEF Claim, TypeOK, StatusInv, InFlight, UnsubmittedDraft, ClaimInv
  <2>7. ReceiptInv'
    BY <1>1
    DEF Claim, TypeOK, ReceiptInv, OutcomeSaved, OutcomeStatus,
        UnsubmittedDraft, SetReceipt, Outcomes
  <2>8. SupplierInv'
    BY <1>1 DEF Claim, TypeOK, SupplierInv
  <2> QED
    BY <2>1, <2>2, <2>3, <2>4, <2>5, <2>6, <2>7, <2>8
<1>2. ASSUME NEW r \in Requests, CallSupplier(r)
      PROVE  Parts'
  <2>1. HandlerInv'
    BY <1>2 DEF CallSupplier, TypeOK, HandlerInv, OneHandler
  <2>2. OneHandler'
    BY <1>2 DEF CallSupplier, TypeOK, OneHandler
  <2>3. ClaimInv'
    BY <1>2 DEF CallSupplier, TypeOK, ClaimInv, InFlight, HandlerInv
  <2>4. SupplierInv'
    BY <1>2 DEF CallSupplier, TypeOK, SupplierInv, HandlerInv
  <2>5. RealInv' /\ SentIsReal' /\ StatusInv' /\ ReceiptInv'
    BY <1>2
    DEF CallSupplier, TypeOK, RealInv, SentIsReal, StatusInv, ReceiptInv,
        InFlight, OutcomeSaved, OutcomeStatus
  <2> QED
    BY <2>1, <2>2, <2>3, <2>4, <2>5
<1>3. ASSUME NEW r \in Requests, FailBeforeCall(r)
      PROVE  Parts'
  <2>1. HandlerInv'
    BY <1>3 DEF FailBeforeCall, TypeOK, HandlerInv, Outcomes
  <2>2. OneHandler'
    BY <1>3 DEF FailBeforeCall, TypeOK, OneHandler
  <2>3. /\ ClaimInv' /\ SupplierInv' /\ RealInv' /\ SentIsReal'
        /\ StatusInv' /\ ReceiptInv'
    BY <1>3
    DEF FailBeforeCall, TypeOK, ClaimInv, SupplierInv, RealInv, SentIsReal,
        StatusInv, ReceiptInv, InFlight, OutcomeSaved, OutcomeStatus
  <2> QED
    BY <2>1, <2>2, <2>3
<1>4. ASSUME NEW r \in Requests, ReceiveAnswer(r)
      PROVE  Parts'
  <2>1. HandlerInv'
    BY <1>4, BookedAtMostOnce DEF ReceiveAnswer, TypeOK, HandlerInv, Outcomes
  <2>2. OneHandler'
    BY <1>4 DEF ReceiveAnswer, TypeOK, OneHandler
  <2>3. /\ ClaimInv' /\ SupplierInv' /\ RealInv' /\ SentIsReal'
        /\ StatusInv' /\ ReceiptInv'
    <3> USE <1>4 DEF ReceiveAnswer
    <3>1. ClaimInv' /\ SupplierInv'
      BY DEF ClaimInv, SupplierInv, TypeOK
    <3>2. RealInv' /\ SentIsReal' /\ StatusInv'
      BY DEF RealInv, SentIsReal, StatusInv, InFlight
    <3>3. ReceiptInv'
      BY DEF ReceiptInv, OutcomeSaved, OutcomeStatus
    <3> QED
      BY <3>1, <3>2, <3>3
  <2> QED
    BY <2>1, <2>2, <2>3
<1>5. ASSUME NEW r \in Requests, RecordOutcome(r)
      PROVE  Parts'
  <2>1. HandlerInv'
    BY <1>5 DEF RecordOutcome, TypeOK, HandlerInv, OneHandler, Outcomes
  <2>2. OneHandler'
    BY <1>5 DEF RecordOutcome, TypeOK, OneHandler
  <2>3. ClaimInv'
    <3>1. /\ reqOrder[r] \in Orders /\ claim[reqOrder[r]] # "none"
          /\ answer[r] # "none"
      BY <1>5 DEF RecordOutcome, HandlerInv, Outcomes
    <3>2. \A o \in Orders : claim'[o] # "none" <=> claim[o] # "none"
      BY <1>5, <3>1 DEF RecordOutcome, TypeOK
    <3>3. UNCHANGED <<status, sends, reconciled, confirmed, manual>>
      BY <1>5 DEF RecordOutcome
    <3>4. ClaimInv
      OBVIOUS
    <3> HIDE <1>0
    <3> QED
      BY <3>2, <3>3, <3>4 DEF ClaimInv, InFlight
  <2>4. RealInv'
    <3>1. \A o \in Orders : claim'[o] = IF o = reqOrder[r] THEN answer[r] ELSE claim[o]
      BY <1>5 DEF RecordOutcome, TypeOK
    <3>2. answer[r] = "accepted" => placed[reqOrder[r]] = 1
      BY <1>5 DEF RecordOutcome, HandlerInv
    <3>3. UNCHANGED <<reconciled, confirmed, placed>>
      BY <1>5 DEF RecordOutcome
    <3>4. RealInv
      OBVIOUS
    <3> HIDE <1>0
    <3> QED
      BY <3>1, <3>2, <3>3, <3>4 DEF RealInv
  <2>5. SentIsReal'
    BY <1>5 DEF RecordOutcome, TypeOK, SentIsReal, HandlerInv
  <2>6. StatusInv'
    BY <1>5 DEF RecordOutcome, TypeOK, StatusInv, InFlight, HandlerInv
  <2>7. ReceiptInv'
    BY <1>5
    DEF RecordOutcome, TypeOK, ReceiptInv, OutcomeSaved, OutcomeStatus,
        HandlerInv, Outcomes
  <2>8. SupplierInv'
    BY <1>5 DEF RecordOutcome, TypeOK, SupplierInv
  <2> QED
    BY <2>1, <2>2, <2>3, <2>4, <2>5, <2>6, <2>7, <2>8
<1>6. ASSUME NEW r \in Requests, Finalize(r)
      PROVE  Parts'
  <2>1. HandlerInv'
    BY <1>6 DEF Finalize, FinalizeOrder, Release, TypeOK, HandlerInv
  <2>2. OneHandler'
    BY <1>6 DEF Finalize, FinalizeOrder, Release, TypeOK, OneHandler
  <2>3. ClaimInv'
    BY <1>6
    DEF Finalize, FinalizeOrder, Release, TypeOK, ClaimInv, InFlight,
        FinalizedStatus, OutcomeStatus, HandlerInv
  <2>4. SentIsReal'
    BY <1>6
    DEF Finalize, FinalizeOrder, Release, TypeOK, SentIsReal, FinalizedStatus,
        OutcomeStatus, RealInv, HandlerInv
  <2>5. StatusInv'
    BY <1>6
    DEF Finalize, FinalizeOrder, Release, TypeOK, StatusInv, InFlight,
        FinalizedStatus, OutcomeStatus, HandlerInv, Outcomes
  <2>6. ReceiptInv'
    BY <1>6
    DEF Finalize, FinalizeOrder, Release, TypeOK, ReceiptInv, OutcomeSaved,
        OutcomeStatus, SetReceipt, HandlerInv, Outcomes
  <2>7. SupplierInv' /\ RealInv'
    BY <1>6 DEF Finalize, FinalizeOrder, Release, TypeOK, SupplierInv, RealInv
  <2> QED
    BY <2>1, <2>2, <2>3, <2>4, <2>5, <2>6, <2>7
<1>7. ASSUME NEW r \in Requests, HandlerFails(r)
      PROVE  Parts'
  <2>1. HandlerInv'
    BY <1>7 DEF HandlerFails, Release, TypeOK, HandlerInv
  <2>2. OneHandler'
    BY <1>7 DEF HandlerFails, Release, TypeOK, OneHandler
  <2>3. /\ ClaimInv' /\ SupplierInv' /\ RealInv' /\ SentIsReal'
        /\ StatusInv' /\ ReceiptInv'
    BY <1>7
    DEF HandlerFails, Release, TypeOK, ClaimInv, SupplierInv, RealInv,
        SentIsReal, StatusInv, ReceiptInv, InFlight, OutcomeSaved,
        OutcomeStatus
  <2> QED
    BY <2>1, <2>2, <2>3
<1>8. ASSUME NEW o \in Orders, NEW k \in Keys, Replay(o, k)
      PROVE  Parts'
  <2>1. ClaimInv'
    BY <1>8
    DEF Replay, FinalizeOrder, TypeOK, ClaimInv, InFlight, FinalizedStatus,
        OutcomeStatus, OutcomeSaved, Outcomes
  <2>2. SentIsReal'
    BY <1>8
    DEF Replay, FinalizeOrder, TypeOK, SentIsReal, FinalizedStatus,
        OutcomeStatus, RealInv
  <2>3. StatusInv'
    BY <1>8
    DEF Replay, FinalizeOrder, TypeOK, StatusInv, InFlight, FinalizedStatus,
        OutcomeStatus, OutcomeSaved, Outcomes
  <2>4. ReceiptInv'
    BY <1>8
    DEF Replay, FinalizeOrder, TypeOK, ReceiptInv, OutcomeSaved, OutcomeStatus,
        SetReceipt
  <2>5. HandlerInv' /\ OneHandler' /\ SupplierInv' /\ RealInv'
    BY <1>8
    DEF Replay, FinalizeOrder, TypeOK, HandlerInv, OneHandler, SupplierInv,
        RealInv
  <2> QED
    BY <2>1, <2>2, <2>3, <2>4, <2>5
<1>9. ASSUME NEW o \in Orders, SupplierBooks(o)
      PROVE  Parts'
  <2>1. HandlerInv'
    BY <1>9 DEF SupplierBooks, TypeOK, HandlerInv, SupplierInv
  <2>2. SupplierInv'
    BY <1>9 DEF SupplierBooks, TypeOK, SupplierInv
  <2>3. RealInv'
    BY <1>9 DEF SupplierBooks, TypeOK, RealInv, SupplierInv
  <2>4. SentIsReal'
    BY <1>9 DEF SupplierBooks, TypeOK, SentIsReal, SupplierInv
  <2>5. OneHandler' /\ ClaimInv' /\ StatusInv' /\ ReceiptInv'
    BY <1>9
    DEF SupplierBooks, TypeOK, OneHandler, ClaimInv, StatusInv, ReceiptInv,
        InFlight, OutcomeSaved, OutcomeStatus
  <2> QED
    BY <2>1, <2>2, <2>3, <2>4, <2>5
<1>10. ASSUME NEW o \in Orders, SupplierDrops(o)
      PROVE  Parts'
  <2>1. SupplierInv'
    BY <1>10 DEF SupplierDrops, TypeOK, SupplierInv
  <2>2. /\ HandlerInv' /\ OneHandler' /\ ClaimInv' /\ RealInv'
        /\ SentIsReal' /\ StatusInv' /\ ReceiptInv'
    BY <1>10
    DEF SupplierDrops, TypeOK, HandlerInv, OneHandler, ClaimInv, RealInv,
        SentIsReal, StatusInv, ReceiptInv, InFlight, OutcomeSaved,
        OutcomeStatus
  <2> QED
    BY <2>1, <2>2
<1>11. ASSUME NEW o \in Orders,
             NEW s \in {"sent", "confirmed", "partially_confirmed", "cancelled"},
             Confirm(o, s)
      PROVE  Parts'
  <2>1. ClaimInv'
    BY <1>11 DEF Confirm, TypeOK, ClaimInv, InFlight
  <2>2. RealInv'
    BY <1>11, BookedAtMostOnce DEF Confirm, TypeOK, RealInv
  <2>3. SentIsReal'
    BY <1>11, BookedAtMostOnce DEF Confirm, TypeOK, SentIsReal
  <2>4. StatusInv'
    BY <1>11 DEF Confirm, TypeOK, StatusInv, InFlight
  <2>5. HandlerInv' /\ OneHandler' /\ SupplierInv' /\ ReceiptInv'
    BY <1>11
    DEF Confirm, TypeOK, HandlerInv, OneHandler, SupplierInv, ReceiptInv,
        OutcomeSaved, OutcomeStatus
  <2> QED
    BY <2>1, <2>2, <2>3, <2>4, <2>5
<1>12. ASSUME NEW o \in Orders, NEW s \in Statuses, UserSetsStatus(o, s)
      PROVE  Parts'
  <2>1. ClaimInv'
    BY <1>12
    DEF UserSetsStatus, TransitionAllowed, TypeOK, ClaimInv, InFlight,
        TriggerAllows
  <2>2. SentIsReal'
    BY <1>12
    DEF UserSetsStatus, TransitionAllowed, TypeOK, SentIsReal, TriggerAllows,
        ClaimInv
  <2>3. StatusInv'
    BY <1>12 DEF UserSetsStatus, TransitionAllowed, TypeOK, StatusInv, InFlight
  <2>4. HandlerInv' /\ OneHandler' /\ SupplierInv' /\ RealInv' /\ ReceiptInv'
    BY <1>12
    DEF UserSetsStatus, TransitionAllowed, TypeOK, HandlerInv, OneHandler,
        SupplierInv, RealInv, ReceiptInv, OutcomeSaved, OutcomeStatus
  <2> QED
    BY <2>1, <2>2, <2>3, <2>4
<1>13. ASSUME NEW o \in Orders, NEW s \in Statuses, ReceiveGoods(o, s)
      PROVE  Parts'
  <2>1. ClaimInv'
    BY <1>13 DEF ReceiveGoods, TypeOK, ClaimInv, InFlight
  <2>2. SentIsReal'
    BY <1>13 DEF ReceiveGoods, Receivable, TypeOK, SentIsReal
  <2>3. StatusInv'
    BY <1>13 DEF ReceiveGoods, Receivable, TypeOK, StatusInv, InFlight
  <2>4. HandlerInv' /\ OneHandler' /\ SupplierInv' /\ RealInv' /\ ReceiptInv'
    BY <1>13
    DEF ReceiveGoods, TypeOK, HandlerInv, OneHandler, SupplierInv, RealInv,
        ReceiptInv, OutcomeSaved, OutcomeStatus
  <2> QED
    BY <2>1, <2>2, <2>3, <2>4
<1>14. ASSUME NEW o \in Orders,
             NEW resolution \in {"found_order", "confirmed_not_sent"},
             Reconcile(o, resolution)
      PROVE  Parts'
  <2>1. ClaimInv'
    BY <1>14 DEF Reconcile, CanReconcile, Uncertain, TypeOK, ClaimInv, InFlight
  <2>2. RealInv'
    BY <1>14, BookedAtMostOnce
    DEF Reconcile, CanReconcile, Uncertain, TypeOK, RealInv
  <2>3. SentIsReal'
    BY <1>14, BookedAtMostOnce
    DEF Reconcile, CanReconcile, Uncertain, TypeOK, SentIsReal
  <2>4. StatusInv'
    BY <1>14
    DEF Reconcile, CanReconcile, Uncertain, TypeOK, StatusInv, InFlight
  <2>5. HandlerInv' /\ OneHandler' /\ SupplierInv' /\ ReceiptInv'
    BY <1>14
    DEF Reconcile, CanReconcile, Uncertain, TypeOK, HandlerInv, OneHandler,
        SupplierInv, ReceiptInv, OutcomeSaved, OutcomeStatus
  <2> QED
    BY <2>1, <2>2, <2>3, <2>4, <2>5
<1>15. ASSUME Crash
      PROVE  Parts'
  <2>1. HandlerInv'
    BY <1>15 DEF Crash, TypeOK, HandlerInv
  <2>2. OneHandler'
    BY <1>15 DEF Crash, TypeOK, OneHandler
  <2>3. /\ ClaimInv' /\ SupplierInv' /\ RealInv' /\ SentIsReal'
        /\ StatusInv' /\ ReceiptInv'
    BY <1>15
    DEF Crash, TypeOK, ClaimInv, SupplierInv, RealInv, SentIsReal, StatusInv,
        ReceiptInv, InFlight, OutcomeSaved, OutcomeStatus
  <2> QED
    BY <2>1, <2>2, <2>3
<1>16. ASSUME Tick
      PROVE  Parts'
  <2>1. /\ HandlerInv' /\ OneHandler' /\ ClaimInv' /\ SupplierInv'
        /\ RealInv' /\ SentIsReal' /\ StatusInv' /\ ReceiptInv'
    BY <1>16
    DEF Tick, TypeOK, HandlerInv, OneHandler, ClaimInv, SupplierInv, RealInv,
        SentIsReal, StatusInv, ReceiptInv, InFlight, OutcomeSaved,
        OutcomeStatus
  <2> QED
    BY <2>1
<1>17. ASSUME UNCHANGED vars
      PROVE  Parts'
  <2>1. /\ HandlerInv' /\ OneHandler' /\ ClaimInv' /\ SupplierInv'
        /\ RealInv' /\ SentIsReal' /\ StatusInv' /\ ReceiptInv'
    BY <1>17
    DEF vars, TypeOK, HandlerInv, OneHandler, ClaimInv, SupplierInv, RealInv,
        SentIsReal, StatusInv, ReceiptInv, InFlight, OutcomeSaved,
        OutcomeStatus
  <2> QED
    BY <2>1
<1>18. TypeOK'
  BY NextTypeOK
<1>19. Parts'
  <2> HIDE <1>0 DEF Parts, Statuses
  <2> QED
    BY <1>1, <1>2, <1>3, <1>4, <1>5, <1>6, <1>7, <1>8, <1>9, <1>10, <1>11,
       <1>12, <1>13, <1>14, <1>15, <1>16, <1>17
    DEF Next, HandlerStep
<1> QED
  BY <1>18, <1>19 DEF IInv

-----------------------------------------------------------------------------
(* What no step takes back.                                                *)

Final == {"sent", "submission_unknown"}

Stands(o) ==
  /\ OutcomeSaved(o) => claim'[o] = claim[o]
  /\ reconciled[o] # "none" => reconciled'[o] = reconciled[o]
  /\ \A k \in Keys : receipt[o][k] \in Final => receipt'[o][k] \in Final

LEMMA NextStands ==
  ASSUME IInv, [Next]_vars
  PROVE  \A o \in Orders : Stands(o)
<1> USE DEF Stands, OutcomeSaved, Outcomes, Final, local, vars
<1>0. TypeOK /\ HandlerInv
  BY DEF IInv
<1>1. ASSUME NEW r \in Requests, NEW p \in Orders, NEW k \in Keys \cup {NoKey},
             Claim(r, p, k)
      PROVE  \A o \in Orders : Stands(o)
  BY <1>0, <1>1 DEF Claim, FreshKey, UnsubmittedDraft, SetReceipt, TypeOK
<1>2. ASSUME NEW r \in Requests, RecordOutcome(r)
      PROVE  \A o \in Orders : Stands(o)
  BY <1>0, <1>2 DEF RecordOutcome, HandlerInv, TypeOK
<1>3. ASSUME NEW p \in Orders, NEW k \in Keys \cup {NoKey}, FinalizeOrder(p, k)
      PROVE  \A o \in Orders : Stands(o)
  BY <1>0, <1>3 DEF FinalizeOrder, OutcomeStatus, SetReceipt, TypeOK
<1>4. ASSUME NEW r \in Requests, Finalize(r)
      PROVE  \A o \in Orders : Stands(o)
  BY <1>0, <1>3, <1>4 DEF Finalize, HandlerInv, TypeOK
<1>5. ASSUME NEW p \in Orders, NEW k \in Keys, Replay(p, k)
      PROVE  \A o \in Orders : Stands(o)
  BY <1>3, <1>5 DEF Replay
<1>6. ASSUME NEW p \in Orders,
             NEW resolution \in {"found_order", "confirmed_not_sent"},
             Reconcile(p, resolution)
      PROVE  \A o \in Orders : Stands(o)
  BY <1>0, <1>6 DEF Reconcile, CanReconcile, Uncertain, TypeOK
<1>7. CASE UNCHANGED <<claim, receipt, reconciled>>
  BY <1>7
<1>8. ASSUME NEW r \in Requests,
             \/ CallSupplier(r) \/ FailBeforeCall(r) \/ ReceiveAnswer(r)
             \/ HandlerFails(r)
      PROVE  UNCHANGED <<claim, receipt, reconciled>>
  BY <1>8 DEF CallSupplier, FailBeforeCall, ReceiveAnswer, HandlerFails
<1>9. ASSUME NEW p \in Orders, SupplierBooks(p) \/ SupplierDrops(p)
      PROVE  UNCHANGED <<claim, receipt, reconciled>>
  BY <1>9 DEF SupplierBooks, SupplierDrops
<1>10. ASSUME NEW p \in Orders,
              NEW s \in Statuses \cup {"sent", "confirmed",
                                       "partially_confirmed", "cancelled"},
              Confirm(p, s) \/ UserSetsStatus(p, s) \/ ReceiveGoods(p, s)
       PROVE  UNCHANGED <<claim, receipt, reconciled>>
  BY <1>10 DEF Confirm, UserSetsStatus, ReceiveGoods
<1>11. ASSUME Crash \/ Tick \/ UNCHANGED vars
       PROVE  UNCHANGED <<claim, receipt, reconciled>>
  BY <1>11 DEF Crash, Tick
<1> HIDE DEF Stands, vars
<1> QED
  BY <1>1, <1>2, <1>4, <1>5, <1>6, <1>7, <1>8, <1>9, <1>10, <1>11
  DEF Next, HandlerStep

LEMMA Invariant == Spec => []IInv
  BY InitIInv, NextIInv, PTL DEF Spec

-----------------------------------------------------------------------------
(* The theorems without an assumption on time.                             *)

(* Every reachable state has the declared types: no status, claim outcome  *)
(* or receipt leaves the values that the schema's CHECK constraints name.  *)
THEOREM TypeCorrect == Spec => []TypeOK
<1>1. IInv => TypeOK
  BY DEF IInv
<1> QED
  BY <1>1, Invariant, PTL

(* The claim is what "permits exactly this process to send once"           *)
(* (amazon_submission_mcp.go 293): whatever crashes, times out or is       *)
(* repeated, no order is sent to its supplier twice.                       *)
THEOREM CalledAtMostOnce == Spec => []AtMostOneCall
<1>1. IInv => AtMostOneCall
  BY DEF IInv, SupplierInv, AtMostOneCall
<1> QED
  BY <1>1, Invariant, PTL

(* An order marked by hand as ordered elsewhere is never sent as well.     *)
THEOREM NeverOrderedTwice == Spec => []NoManualDuplicate
<1>1. IInv => NoManualDuplicate
  BY DEF IInv, TypeOK, ClaimInv, NoManualDuplicate
<1> QED
  BY <1>1, Invariant, PTL

(* A submitted order that reads as placed is booked at the supplier.       *)
THEOREM SentOrdersExist == Spec => []SentIsReal
<1>1. IInv => SentIsReal
  BY DEF IInv
<1> QED
  BY <1>1, Invariant, PTL

(* An acknowledged order never reads as uncertain.                         *)
THEOREM UncertainOnlyIfUnknown == Spec => []UnknownMeansUnknown
<1>1. IInv => UnknownMeansUnknown
  BY DEF IInv, StatusInv, UnknownMeansUnknown
<1> QED
  BY <1>1, Invariant, PTL

(* A human decision is final: it follows from the invariant before and     *)
(* after the step and from what a reconciled order's outcome allows.       *)
THEOREM DecisionsStand == Spec => ReconciliationStands
<1>1. ASSUME IInv, IInv', [Next]_vars
      PROVE  \A o \in Orders :
               /\ reconciled[o] # "none" =>
                    status'[o] \notin {"submitting", "submission_unknown"}
               /\ reconciled[o] = "confirmed_not_sent" =>
                    status'[o] = "cancelled"
  <2>1. \A o \in Orders : reconciled[o] # "none" => reconciled'[o] = reconciled[o]
    BY <1>1, NextStands DEF Stands
  <2>2. StatusInv'
    BY <1>1 DEF IInv
  <2> QED
    BY <2>1, <2>2 DEF StatusInv, InFlight
<1> QED
  BY <1>1, Invariant, PTL DEF Spec, ReconciliationStands

(* The receipt a client sees under its key is final once it is not         *)
(* "pending".                                                              *)
THEOREM ReceiptsStand == Spec => FinalReceiptStands
<1>1. ASSUME IInv, IInv', [Next]_vars
      PROVE  \A o \in Orders, k \in Keys :
               receipt[o][k] \in {"sent", "submission_unknown"} =>
                 receipt'[o][k] = receipt[o][k]
  <2>1. \A o \in Orders : Stands(o)
    BY <1>1, NextStands
  <2>2. ReceiptInv /\ ReceiptInv'
    BY <1>1 DEF IInv
  <2> QED
    BY <2>1, <2>2 DEF Stands, Final, ReceiptInv, OutcomeStatus
<1> QED
  BY <1>1, Invariant, PTL DEF Spec, FinalReceiptStands

-----------------------------------------------------------------------------
(* The theorems that need the 15 minutes to outlast every attempt.         *)

LEMMA InitTimed == Init => TimedInv
  BY DEF Init, TimedInv, Live

LEMMA NextTimed ==
  ASSUME IInv, TimedInv, [Next]_vars, AttemptBound < Settle
  PROVE  TimedInv'
<1>0. /\ TypeOK /\ HandlerInv /\ ClaimInv
      /\ AttemptBound \in Nat /\ Settle \in Nat
  BY DEF IInv
<1> USE <1>0 DEF TypeOK, TimedInv, Live, local, handler, supplier, history
<1>1. ASSUME NEW r \in Requests, NEW p \in Orders, NEW k \in Keys \cup {NoKey},
             Claim(r, p, k)
      PROVE  TimedInv'
  BY <1>1 DEF Claim, UnsubmittedDraft, ClaimInv
<1>2. ASSUME NEW r \in Requests, CallSupplier(r)
      PROVE  TimedInv'
  BY <1>2 DEF CallSupplier, HandlerInv
<1>3. ASSUME NEW r \in Requests,
             \/ FailBeforeCall(r) \/ ReceiveAnswer(r) \/ RecordOutcome(r)
      PROVE  TimedInv'
  BY <1>3 DEF FailBeforeCall, ReceiveAnswer, RecordOutcome
<1>4. ASSUME NEW r \in Requests, Finalize(r) \/ HandlerFails(r)
      PROVE  TimedInv'
  BY <1>4 DEF Finalize, FinalizeOrder, HandlerFails, Release
<1>5. ASSUME NEW p \in Orders, NEW k \in Keys, Replay(p, k)
      PROVE  TimedInv'
  BY <1>5 DEF Replay, FinalizeOrder
<1>6. ASSUME NEW p \in Orders, SupplierBooks(p)
      PROVE  TimedInv'
  (* An order still under way is younger than any order closed by hand, *)
  (* if it is Amazon's.                                                 *)
  <2>1. p \in AmazonOrders => reconciled[p] # "confirmed_not_sent"
    BY <1>6 DEF SupplierBooks
  <2> QED
    BY <1>6, <2>1 DEF SupplierBooks
<1>7. ASSUME NEW p \in Orders, SupplierDrops(p)
      PROVE  TimedInv'
  BY <1>7 DEF SupplierDrops
<1>8. ASSUME NEW p \in Orders, NEW s, Confirm(p, s)
      PROVE  TimedInv'
  BY <1>8 DEF Confirm
<1>9. ASSUME NEW p \in Orders, NEW s,
             UserSetsStatus(p, s) \/ ReceiveGoods(p, s)
      PROVE  TimedInv'
  BY <1>9 DEF UserSetsStatus, ReceiveGoods
<1>10. ASSUME NEW p \in Orders,
              NEW resolution \in {"found_order", "confirmed_not_sent"},
              Reconcile(p, resolution)
       PROVE  TimedInv'
  BY <1>10 DEF Reconcile, CanReconcile, Settled
<1>11. ASSUME Crash
       PROVE  TimedInv'
  BY <1>11 DEF Crash
<1>12. ASSUME Tick
       PROVE  TimedInv'
  <2>1. ASSUME NEW o \in AmazonOrders
        PROVE  /\ age[o] \in Nat
               /\ age'[o] \in {age[o], age[o] + 1}
               /\ Live(o) \/ o \in wire => age[o] < AttemptBound
    BY <1>12 DEF Tick, Queued
  <2>2. UNCHANGED <<pc, reqOrder, wire, reconciled, placed>>
    BY <1>12 DEF Tick
  <2> QED
    BY <2>1, <2>2
<1>13. ASSUME UNCHANGED vars
       PROVE  TimedInv'
  BY <1>13 DEF vars
<1> HIDE <1>0 DEF TimedInv
<1> QED
  BY <1>1, <1>2, <1>3, <1>4, <1>5, <1>6, <1>7, <1>8, <1>9, <1>10, <1>11,
     <1>12, <1>13
  DEF Next, HandlerStep

LEMMA TimedInvariant ==
  ASSUME AttemptBound < Settle
  PROVE  Spec => [](IInv /\ TimedInv)
<1>1. Init => IInv /\ TimedInv
  BY InitIInv, InitTimed
<1>2. IInv /\ TimedInv /\ [Next]_vars => IInv' /\ TimedInv'
  BY NextIInv, NextTimed
<1> QED
  BY <1>1, <1>2, PTL DEF Spec

(* "This order can never be sent again"                                    *)
(* (submission_reconciliation_mcp.go 140) holds for Amazon orders as long  *)
(* as no attempt outlives the 15 minutes that a human has to wait.  The    *)
(* hypothesis is what the timeouts of cxml.go 92 and of the completing     *)
(* transaction give; for Adam Hall the sentence is false                   *)
(* (submission_adamhall).                                                  *)
THEOREM AmazonOrdersStayAbsent ==
  ASSUME AttemptBound < Settle
  PROVE  Spec => []AmazonAbsentStaysAbsent
<1>1. TimedInv => AmazonAbsentStaysAbsent
  BY DEF TimedInv, AmazonAbsentStaysAbsent, NotBought
<1> QED
  BY <1>1, TimedInvariant, PTL

-----------------------------------------------------------------------------
(* SupplierSubmission implements PurchaseOnce.                             *)

PhaseOf(o) == IF claim[o] = "none" THEN "free"
              ELSE IF reconciled[o] = "confirmed_not_sent" THEN "absent"
              ELSE "committed"

Asserted == {o \in Orders : \/ claim[o] = "accepted"
                            \/ reconciled[o] = "found_order"
                            \/ o \in confirmed}

PhaseMap == [o \in Orders |-> PhaseOf(o)]

(* A step of the system that the owner of the money does not see. *)
Unseen == UNCHANGED <<PhaseMap, placed, Asserted>>

LEMMA SeenOrUnseen ==
  ASSUME [Next]_vars
  PROVE  \/ \E r \in Requests, o \in Orders, k \in Keys \cup {NoKey} :
              Claim(r, o, k)
         \/ \E r \in Requests : RecordOutcome(r)
         \/ \E o \in Orders : SupplierBooks(o)
         \/ \E o \in Orders, s \in {"sent", "confirmed", "partially_confirmed",
                                   "cancelled"} : Confirm(o, s)
         \/ \E o \in Orders, v \in {"found_order", "confirmed_not_sent"} :
              Reconcile(o, v)
         \/ Unseen
<1> DEFINE Same == UNCHANGED <<claim, reconciled, confirmed, placed>>
<1>1. ASSUME NEW r \in Requests,
             \/ CallSupplier(r) \/ FailBeforeCall(r) \/ ReceiveAnswer(r)
             \/ Finalize(r) \/ HandlerFails(r)
      PROVE  Same
  BY <1>1 DEF CallSupplier, FailBeforeCall, ReceiveAnswer, Finalize,
              FinalizeOrder, HandlerFails, local, supplier
<1>2. ASSUME NEW o \in Orders,
             \/ SupplierDrops(o)
             \/ \E k \in Keys : Replay(o, k)
             \/ \E s \in Statuses : UserSetsStatus(o, s) \/ ReceiveGoods(o, s)
      PROVE  Same
  BY <1>2 DEF SupplierDrops, Replay, FinalizeOrder, UserSetsStatus,
              ReceiveGoods, local, supplier
<1>3. ASSUME Crash \/ Tick \/ UNCHANGED vars
      PROVE  Same
  BY <1>3 DEF Crash, Tick, vars, local, supplier
<1>4. ASSUME Same
      PROVE  Unseen
  BY <1>4 DEF Unseen, PhaseMap, PhaseOf, Asserted
<1> HIDE DEF Same
<1> QED
  BY <1>1, <1>2, <1>3, <1>4 DEF Next, HandlerStep

LEMMA InitMaps == Init => Purchase!Init
  BY DEF Init, Purchase!Init

LEMMA StepMaps ==
  ASSUME IInv, IInv', TimedInv, TimedInv', [Next]_vars
  PROVE  [Purchase!Next]_(Purchase!purchaseVars)
<1> DEFINE Goal == [Purchase!Next]_(Purchase!purchaseVars)
<1>0. /\ TypeOK /\ HandlerInv /\ ClaimInv /\ SupplierInv /\ RealInv /\ TimedInv
      /\ RealInv' /\ TimedInv'
  BY DEF IInv
<1>1. ASSUME NEW r \in Requests, NEW o \in Orders, NEW k \in Keys \cup {NoKey},
             Claim(r, o, k)
      PROVE  Goal
  <2>1. Purchase!Commit(o)
    BY <1>0, <1>1
    DEF Claim, UnsubmittedDraft, TypeOK, ClaimInv, supplier, Purchase!Commit
  <2> QED
    BY <2>1 DEF Purchase!Next
<1>2. ASSUME NEW r \in Requests, RecordOutcome(r)
      PROVE  Goal
  <2>0. PICK o \in Orders : o = reqOrder[r]
    BY <1>0, <1>2 DEF RecordOutcome, HandlerInv
  <2>1. /\ claim[o] = "pending" /\ answer[r] \in Outcomes
        /\ answer[r] = "accepted" => placed[o] = 1
    BY <1>0, <1>2, <2>0 DEF RecordOutcome, HandlerInv, Outcomes
  <2>2. CASE answer[r] = "accepted"
    <3>1. Purchase!Acknowledge(o)
      BY <1>0, <1>2, <2>0, <2>1, <2>2
      DEF RecordOutcome, TypeOK, TimedInv, supplier, Purchase!Acknowledge,
          Purchase!Open
    <3> QED
      BY <3>1 DEF Purchase!Next
  <2>3. CASE answer[r] = "unknown"
    BY <1>0, <1>2, <2>0, <2>1, <2>3
    DEF RecordOutcome, TypeOK, supplier, Purchase!purchaseVars
  <2> QED
    BY <2>1, <2>2, <2>3 DEF Outcomes
<1>3. ASSUME NEW o \in Orders, SupplierBooks(o)
      PROVE  Goal
  <2>1. claim[o] # "none" /\ placed[o] = 0
    BY <1>0, <1>3 DEF SupplierBooks, SupplierInv, ClaimInv
  <2>2. placed' = [placed EXCEPT ![o] = 1] /\ placed'[o] = 1
    BY <1>0, <1>3, <2>1 DEF SupplierBooks, TypeOK
  <2>3. o \in AmazonOrders => reconciled[o] # "confirmed_not_sent"
    BY <1>0, <1>3, <2>2 DEF SupplierBooks, TimedInv, local
  <2>4. Purchase!Buy(o)
    BY <1>3, <2>1, <2>2, <2>3
    DEF SupplierBooks, local, Purchase!Buy, Purchase!Open
  <2> QED
    BY <2>4 DEF Purchase!Next
<1>4. ASSUME NEW o \in Orders,
             NEW s \in {"sent", "confirmed", "partially_confirmed", "cancelled"},
             Confirm(o, s)
      PROVE  Goal
  <2>1. Purchase!Acknowledge(o)
    BY <1>0, <1>4, BookedAtMostOnce
    DEF Confirm, TypeOK, TimedInv, supplier, Purchase!Acknowledge,
        Purchase!Open
  <2> QED
    BY <2>1 DEF Purchase!Next
<1>5. ASSUME NEW o \in Orders,
             NEW v \in {"found_order", "confirmed_not_sent"}, Reconcile(o, v)
      PROVE  Goal
  <2>1. CASE v = "found_order"
    <3>1. Purchase!Acknowledge(o)
      BY <1>0, <1>5, <2>1, BookedAtMostOnce
      DEF Reconcile, CanReconcile, Uncertain, TypeOK, TimedInv, supplier,
          Purchase!Acknowledge, Purchase!Open
    <3> QED
      BY <3>1 DEF Purchase!Next
  <2>2. CASE v = "confirmed_not_sent"
    <3>1. placed[o] \in Nat /\ ~(placed[o] > 0)
      BY <1>0, <1>5, <2>2 DEF Reconcile, TypeOK
    <3>2. placed[o] = 0
      BY <3>1
    <3>3. Purchase!DeclareAbsent(o)
      BY <1>0, <1>5, <2>2, <3>2
      DEF Reconcile, CanReconcile, Uncertain, TypeOK, supplier,
          Purchase!DeclareAbsent
    <3> QED
      BY <3>3 DEF Purchase!Next
  <2> QED
    BY <2>1, <2>2
<1>6. ASSUME Unseen
      PROVE  Goal
  BY <1>6 DEF Unseen, PhaseMap, PhaseOf, Asserted, Purchase!purchaseVars
<1> HIDE DEF Goal
<1>7. Goal
  BY <1>1, <1>2, <1>3, <1>4, <1>5, <1>6, SeenOrUnseen
<1> QED
  BY <1>7 DEF Goal

(* The whole submission machinery keeps the promise that an order is       *)
(* bought at most once and asserted only when bought, whoever supplies it  *)
(* and however long an attempt takes, and that an Amazon order is never    *)
(* bought after it was closed as "not sent".  An order at Adam Hall closed *)
(* as absent may still be bought, once.                                    *)
THEOREM KeepsPurchasePromise ==
  ASSUME AttemptBound < Settle
  PROVE  Spec => PurchasesOnce
<1>1. IInv /\ TimedInv /\ IInv' /\ TimedInv' /\ [Next]_vars
        => [Purchase!Next]_(Purchase!purchaseVars)
  BY StepMaps
<1> QED
  BY <1>1, InitMaps, TimedInvariant, PTL DEF Spec, PurchasesOnce, Purchase!Spec

-----------------------------------------------------------------------------
(* Without the native Amazon endpoint every claim was made under a key,    *)
(* and the receipt of that key waits as long as the order does.            *)
WaitingInv ==
  \A o \in Orders :
    status[o] = "submitting" => \E k \in Keys : receipt[o][k] = "pending"

LEMMA NextWaiting ==
  ASSUME ~NativeAmazon, IInv, WaitingInv, [Next]_vars
  PROVE  WaitingInv'
<1>0. TypeOK /\ HandlerInv
  BY DEF IInv
<1> USE DEF local, handler, supplier, history
<1>1. ASSUME NEW r \in Requests, NEW p \in Orders, NEW k \in Keys \cup {NoKey},
             Claim(r, p, k)
      PROVE  WaitingInv'
  <2>1. k \in Keys /\ receipt' = [receipt EXCEPT ![p][k] = "pending"]
    BY <1>1 DEF Claim, KeyAccepted, SetReceipt
  <2>2. receipt'[p][k] = "pending"
        /\ \A o \in Orders : o # p => receipt'[o] = receipt[o]
    BY <1>0, <2>1 DEF TypeOK
  <2>3. \A o \in Orders : o # p => status'[o] = status[o]
    BY <1>0, <1>1 DEF Claim, TypeOK
  <2> QED
    BY <2>1, <2>2, <2>3 DEF WaitingInv
(* Whoever stores a final result under a key has ended the waiting. *)
<1>2. ASSUME NEW p \in Orders, NEW k \in Keys \cup {NoKey}, FinalizeOrder(p, k)
      PROVE  WaitingInv'
  <2>1. status'[p] # "submitting"
    BY <1>0, <1>2 DEF FinalizeOrder, FinalizedStatus, OutcomeStatus, TypeOK
  <2>2. \A o \in Orders : o # p =>
          receipt'[o] = receipt[o] /\ status'[o] = status[o]
    BY <1>0, <1>2 DEF FinalizeOrder, SetReceipt, TypeOK
  <2> QED
    BY <2>1, <2>2 DEF WaitingInv
<1>3. ASSUME NEW r \in Requests, Finalize(r)
      PROVE  WaitingInv'
  BY <1>0, <1>2, <1>3 DEF Finalize, HandlerInv, TypeOK
<1>4. ASSUME NEW p \in Orders, NEW k \in Keys, Replay(p, k)
      PROVE  WaitingInv'
  BY <1>2, <1>4 DEF Replay
<1>5. ASSUME receipt' = receipt,
             \A o \in Orders : status'[o] \in {status[o]}
                               \/ status'[o] # "submitting"
      PROVE  WaitingInv'
  BY <1>5 DEF WaitingInv
<1>6. ASSUME NEW p \in Orders, NEW s, s # "submitting",
             receipt' = receipt, status' = [status EXCEPT ![p] = s]
      PROVE  WaitingInv'
  BY <1>0, <1>5, <1>6 DEF TypeOK
<1>7. ASSUME NEW r \in Requests,
             \/ CallSupplier(r) \/ FailBeforeCall(r) \/ ReceiveAnswer(r)
             \/ RecordOutcome(r) \/ HandlerFails(r)
      PROVE  WaitingInv'
  BY <1>5, <1>7 DEF CallSupplier, FailBeforeCall, ReceiveAnswer,
     RecordOutcome, HandlerFails
<1>8. ASSUME NEW p \in Orders, SupplierBooks(p) \/ SupplierDrops(p)
      PROVE  WaitingInv'
  BY <1>5, <1>8 DEF SupplierBooks, SupplierDrops
<1>9. ASSUME NEW p \in Orders,
             NEW s \in {"sent", "confirmed", "partially_confirmed", "cancelled"},
             Confirm(p, s)
      PROVE  WaitingInv'
  BY <1>6, <1>9 DEF Confirm
<1>10. ASSUME NEW p \in Orders, NEW s \in Statuses,
              UserSetsStatus(p, s) \/ ReceiveGoods(p, s)
       PROVE  WaitingInv'
  <2>1. s # "submitting" /\ receipt' = receipt
        /\ status' = [status EXCEPT ![p] = s]
    BY <1>10 DEF UserSetsStatus, ReceiveGoods
  <2> QED
    BY <1>6, <2>1
<1>11. ASSUME NEW p \in Orders,
              NEW resolution \in {"found_order", "confirmed_not_sent"},
              Reconcile(p, resolution)
       PROVE  WaitingInv'
  <2> PICK s \in {"sent", "cancelled"} :
        s = IF resolution = "found_order" THEN "sent" ELSE "cancelled"
    OBVIOUS
  <2>1. receipt' = receipt /\ status' = [status EXCEPT ![p] = s]
    BY <1>11 DEF Reconcile
  <2> QED
    BY <1>6, <2>1
<1>12. ASSUME Crash \/ Tick \/ UNCHANGED vars
       PROVE  WaitingInv'
  BY <1>5, <1>12 DEF Crash, Tick, vars
<1> QED
  BY <1>1, <1>3, <1>4, <1>7, <1>8, <1>9, <1>10, <1>11, <1>12
  DEF Next, HandlerStep

(* An acknowledged order whose handler died can be finished with the key   *)
(* of its request (README.md 119-121), as long as orders are submitted     *)
(* through the guided endpoint only; the native one uses no key, and run   *)
(* submission_native shows the promise broken there.                       *)
THEOREM GuidedOrdersCanBeFinished ==
  ASSUME ~NativeAmazon
  PROVE  Spec => []AcknowledgedCanBeFinished
<1>1. Init => WaitingInv
  BY DEF Init, WaitingInv
<1>2. IInv /\ WaitingInv /\ [Next]_vars => WaitingInv'
  BY NextWaiting
<1>3. WaitingInv => AcknowledgedCanBeFinished
  BY DEF WaitingInv, AcknowledgedCanBeFinished, CanReplay, OutcomeSaved,
     Outcomes
<1> QED
  BY <1>1, <1>2, <1>3, Invariant, PTL DEF Spec
=============================================================================
