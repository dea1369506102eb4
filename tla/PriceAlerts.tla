---------------------------- MODULE PriceAlerts ----------------------------
(***************************************************************************)
(* Price alerts on the offers of one product, in one currency              *)
(* (service/pricing.go and the offer and alert handlers of handler.go).    *)
(*                                                                         *)
(* An offer is saved in a transaction that looks for the alerts its price  *)
(* triggers and saves those rows whole.  An alert is saved outside any     *)
(* transaction: inserted, compared with the offers known, saved again.     *)
(* Nobody locks the rows of the other side, and a statement sees only what *)
(* is committed, so the two can pass each other.                           *)
(***************************************************************************)
EXTENDS Naturals, FiniteSets, TLC

CONSTANTS
    Offers,     \* identities of offers
    Alerts,     \* identities of alerts
    Prices,     \* prices and targets in cents
    Sessions,   \* HTTP requests in progress at once
    NoRow       \* what is not in the database

VARIABLES
    offer,   \* the committed offers
    alert,   \* the committed alerts
    pc,      \* where each session is
    work,    \* the rows a session has read or written and will save
    edited   \* alerts their users changed after they were made

vars == <<offer, alert, pc, work, edited>>

OfferRow == [price : Prices, active : BOOLEAN]
AlertRow == [target : Prices, active : BOOLEAN, triggered : BOOLEAN]

NoWork == << >>
Idle(s) == pc[s] = "idle"

(* Rows written in transactions that are not committed yet.                *)
Written(s) == UNION { DOMAIN work[t] : t \in {u \in Sessions \ {s} : pc[u] = "commit"} }
Locked(s) ==
    Written(s) \cup
    UNION { DOMAIN work[t] \cap Offers :
            t \in {u \in Sessions \ {s} : pc[u] \in {"evaluate", "save"}} }

Init ==
    /\ offer = [o \in Offers |-> NoRow]
    /\ alert = [a \in Alerts |-> NoRow]
    /\ pc = [s \in Sessions |-> "idle"]
    /\ work = [s \in Sessions |-> NoWork]
    /\ edited = {}

Goes(s, to, rows) ==
    /\ pc' = [pc EXCEPT ![s] = to]
    /\ work' = [work EXCEPT ![s] = rows]

-----------------------------------------------------------------------------
(* Offers.  They are created active, and archived or restored apart from   *)
(* other changes (guard_procurement_master_lifecycle).  An update evaluates *)
(* alerts only if it changes the price.                                    *)

CreateOffer(s) ==
    /\ Idle(s)
    /\ \E o \in Offers \ Locked(s), price \in Prices :
          /\ offer[o] = NoRow
          /\ Goes(s, "evaluate", o :> [price |-> price, active |-> TRUE])
    /\ UNCHANGED <<offer, alert, edited>>

LifecycleTrigger(old, new) ==
    \/ old.active /\ new.active
    \/ old.active # new.active /\ old.price = new.price

UpdateOffer(s) ==
    /\ Idle(s)
    /\ \E o \in Offers \ Locked(s), row \in OfferRow :
          /\ offer[o] # NoRow
          /\ LifecycleTrigger(offer[o], row)
          /\ Goes(s, IF row.price # offer[o].price THEN "evaluate" ELSE "commit",
                  o :> row)
    /\ UNCHANGED <<offer, alert, edited>>

Hits(price) ==
    {a \in Alerts : /\ alert[a] # NoRow
                    /\ alert[a].active
                    /\ alert[a].target >= price}

PriceOf(s) == LET o == CHOOSE o \in DOMAIN work[s] \cap Offers : TRUE
              IN work[s][o].price

RecordPriceAndEvaluateAlerts(s) ==
    /\ pc[s] = "evaluate"
    /\ Goes(s, "save", work[s] @@ [a \in Hits(PriceOf(s)) |->
                                      [alert[a] EXCEPT !.triggered = TRUE]])
    /\ UNCHANGED <<offer, alert, edited>>

SaveAlerts(s) ==
    /\ pc[s] = "save"
    /\ DOMAIN work[s] \cap Alerts \cap Written(s) = {}
    /\ Goes(s, "commit", work[s])
    /\ UNCHANGED <<offer, alert, edited>>

Commit(s) ==
    /\ pc[s] = "commit"
    /\ offer' = [o \in Offers |-> IF o \in DOMAIN work[s] THEN work[s][o] ELSE offer[o]]
    /\ alert' = [a \in Alerts |-> IF a \in DOMAIN work[s] THEN work[s][a] ELSE alert[a]]
    /\ Goes(s, "idle", NoWork)
    /\ UNCHANGED edited

-----------------------------------------------------------------------------
(* Alerts.  Saving writes the whole row as it was read, also when it was   *)
(* changed or deleted meanwhile.                                           *)

CreateAlert(s) ==
    /\ Idle(s)
    /\ \E a \in Alerts, target \in Prices :
          LET row == [target |-> target, active |-> TRUE, triggered |-> FALSE]
          IN /\ alert[a] = NoRow /\ a \notin edited
             /\ alert' = [alert EXCEPT ![a] = row]
             /\ Goes(s, "known", a :> row)
    /\ UNCHANGED <<offer, edited>>

KnownPrice(target) ==
    \E o \in Offers : /\ offer[o] # NoRow
                      /\ offer[o].active
                      /\ offer[o].price <= target

EvaluateKnownPrices(s) ==
    /\ pc[s] = "known"
    /\ \E a \in DOMAIN work[s] :
          IF KnownPrice(work[s][a].target)
          THEN Goes(s, "store", a :> [work[s][a] EXCEPT !.triggered = TRUE])
          ELSE Goes(s, "idle", NoWork)
    /\ UNCHANGED <<offer, alert, edited>>

UpdateAlert(s) ==
    /\ Idle(s)
    /\ \E a \in Alerts, target \in Prices, active, triggered \in BOOLEAN :
          /\ alert[a] # NoRow
          /\ Goes(s, "store", a :> [target |-> target, active |-> active,
                                   triggered |-> triggered /\ alert[a].triggered])
          /\ edited' = edited \cup {a}
    /\ UNCHANGED <<offer, alert>>

StoreAlert(s) ==
    /\ pc[s] = "store"
    /\ DOMAIN work[s] \cap Written(s) = {}
    /\ alert' = work[s] @@ alert
    /\ Goes(s, "idle", NoWork)
    /\ UNCHANGED <<offer, edited>>

DeleteAlert(s) ==
    /\ Idle(s)
    /\ \E a \in Alerts \ Written(s) :
          /\ alert[a] # NoRow
          /\ alert' = [alert EXCEPT ![a] = NoRow]
          /\ edited' = edited \cup {a}
    /\ UNCHANGED <<offer, pc, work>>

Next == \E s \in Sessions :
    \/ CreateOffer(s) \/ UpdateOffer(s)
    \/ RecordPriceAndEvaluateAlerts(s) \/ SaveAlerts(s) \/ Commit(s)
    \/ CreateAlert(s) \/ EvaluateKnownPrices(s)
    \/ UpdateAlert(s) \/ DeleteAlert(s) \/ StoreAlert(s)

Spec == Init /\ [][Next]_vars

-----------------------------------------------------------------------------
(* Once every request is done, an alert whose user has left it alone is    *)
(* triggered when an offer that is on sale costs no more than its target:  *)
(* alerts trigger on new and changed offers (README.md:747) and are        *)
(* compared with the prices known when they are made (handler.go:1313).    *)
AlertsFire ==
    (\A s \in Sessions : Idle(s)) =>
        \A a \in Alerts \ edited :
            alert[a] # NoRow /\ KnownPrice(alert[a].target) => alert[a].triggered
=============================================================================
