----------------------------- MODULE CostReport -----------------------------
(***************************************************************************)
(* What a cost centre spends: the report prices active orders, by the      *)
(* seats of a contract where the type has one; a daily task snapshots the  *)
(* totals and another compares them with the centre's threshold and mails. *)
(* The alerter reads totals and threshold, mails, and stamps the threshold *)
(* at its commit; an editor of the threshold reads it before and writes    *)
(* after.  One cost centre, one currency.                                  *)
(***************************************************************************)
EXTENDS Integers, FiniteSets, FiniteSetsExt

CONSTANTS
  CostTypes,      \* asset types of the cost centre
  Prices,         \* monthly_cost values; Unpriced is the null one
  SeatCounts,     \* licensed_seats of the contract, 0 when not licensed by seat
  MonthlyValue,   \* contract_value by month
  MaxActive,      \* bound: active orders of a type
  Limits,         \* monthly_limit values
  QuietDays,      \* cost.threshold_alert_quiet_hours, in days
  Retention,      \* cost.snapshot_retention_days, 0 = keep
  CostDays,       \* bound: the last day
  MaxCostEdits,   \* bound: edits of the threshold and of the price list
  MaxCostCrashes  \* bound: deaths of the alerter

Unpriced == -1
NeverAlerted == -1

ASSUME CostAssumption ==
  /\ IsFiniteSet(CostTypes)
  /\ Prices \subseteq Nat \cup {Unpriced} /\ SeatCounts \subseteq Nat /\ Limits \subseteq Nat
  /\ {MonthlyValue, MaxActive, QuietDays, Retention, CostDays} \subseteq Nat

VARIABLES
  priceOf,        \* asset_types.monthly_cost
  bound,          \* types with a contract_id
  seats,          \* licensed_seats of the contract
  activeOrders,   \* by type: orders in an active status
  threshold,      \* the cost_thresholds row: {} or {[limit, alerted]}
  thresholdEdit,  \* the PUT that has read the row: {} or {alerted as read}
  alerter,        \* the run: {} or {[total, limit, sent]}
  mailedOn,       \* day of the last mail since the clock was cleared
  snapshot,       \* by day: {} or {total}
  costDay, costBudget

costVars == <<priceOf, bound, seats, activeOrders, threshold, thresholdEdit, alerter,
              mailedOn, snapshot, costDay, costBudget>>

CostTypeOK ==
  /\ priceOf \in [CostTypes -> Prices] /\ bound \subseteq CostTypes /\ seats \in SeatCounts
  /\ activeOrders \in [CostTypes -> 0..MaxActive]
  /\ Cardinality(threshold) <= 1 /\ Cardinality(thresholdEdit) <= 1 /\ Cardinality(alerter) <= 1
  /\ \A t \in threshold : t.alerted \in {NeverAlerted} \cup 0..costDay
  /\ mailedOn \in {NeverAlerted} \cup 0..costDay
  /\ \A d \in 0..CostDays : d > costDay => snapshot[d] = {}

CostInit ==
  /\ priceOf \in [CostTypes -> Prices] /\ bound = {} /\ seats \in SeatCounts
  /\ activeOrders = [t \in CostTypes |-> 0]
  /\ threshold = {} /\ thresholdEdit = {} /\ alerter = {}
  /\ mailedOn = NeverAlerted
  /\ snapshot = [d \in 0..CostDays |-> {}]
  /\ costDay = 0
  /\ costBudget = [edits |-> MaxCostEdits, crashes |-> MaxCostCrashes]

SpendCost(what) ==
  /\ costBudget[what] > 0
  /\ costBudget' = [costBudget EXCEPT ![what] = @ - 1]

-----------------------------------------------------------------------------
(* The report: _EFFECTIVE_UNIT_SQL, _PRICED_PREDICATE and _aggregate_by.    *)
BySeat(t) == t \in bound /\ seats > 0
Priced(t) == priceOf[t] # Unpriced \/ BySeat(t)
Unit(t) == IF BySeat(t) THEN MonthlyValue \div seats ELSE priceOf[t]
ReportTotal == FoldSet(LAMBDA t, s : s + activeOrders[t] * Unit(t), 0,
                       {t \in CostTypes : Priced(t)})

(* The alerter and the snapshot: monthly_cost alone.                        *)
FlatTotal == FoldSet(LAMBDA t, s : s + activeOrders[t] * priceOf[t], 0,
                     {t \in CostTypes : priceOf[t] # Unpriced})

(* list_contracts: seats taken by orders of all types bound to a contract.  *)
Consumption == FoldSet(LAMBDA t, s : s + activeOrders[t], 0, bound)
Allocated == IF seats > 0 THEN (MonthlyValue \div seats) * Consumption ELSE 0

Shelfware == IF seats > Consumption THEN (MonthlyValue \div seats) * (seats - Consumption) ELSE 0

-----------------------------------------------------------------------------
OrderCounted(t) ==
  /\ activeOrders' \in {[activeOrders EXCEPT ![t] = @ + 1], [activeOrders EXCEPT ![t] = @ - 1]}
  /\ activeOrders'[t] \in 0..MaxActive
  /\ UNCHANGED <<priceOf, bound, seats, threshold, thresholdEdit, alerter, mailedOn,
                 snapshot, costDay, costBudget>>

BindContract(t) ==
  /\ SpendCost("edits")
  /\ bound' = IF t \in bound THEN bound \ {t} ELSE bound \cup {t}
  /\ UNCHANGED <<priceOf, seats, activeOrders, threshold, thresholdEdit, alerter, mailedOn,
                 snapshot, costDay>>

CreateThreshold(limit) ==
  /\ threshold = {} /\ SpendCost("edits")
  /\ threshold' = {[limit |-> limit, alerted |-> NeverAlerted]}
  /\ mailedOn' = NeverAlerted
  /\ UNCHANGED <<priceOf, bound, seats, activeOrders, thresholdEdit, alerter, snapshot, costDay>>

EditRead ==
  /\ threshold # {} /\ thresholdEdit = {} /\ SpendCost("edits")
  /\ thresholdEdit' = {t.alerted : t \in threshold}
  /\ UNCHANGED <<priceOf, bound, seats, activeOrders, threshold, alerter, mailedOn,
                 snapshot, costDay>>

(* The session writes the columns it has changed: the clock is cleared if   *)
(* it was set when the row was read.                                        *)
EditCommit(limit) ==
  /\ thresholdEdit # {} /\ thresholdEdit' = {}
  /\ \E read \in thresholdEdit :
       threshold' = {[limit |-> limit, alerted |-> IF read # NeverAlerted THEN NeverAlerted ELSE t.alerted]
                       : t \in threshold}
  /\ mailedOn' = NeverAlerted
  /\ UNCHANGED <<priceOf, bound, seats, activeOrders, alerter, snapshot, costDay, costBudget>>

DeleteThreshold ==
  /\ threshold # {} /\ thresholdEdit = {} /\ SpendCost("edits")
  /\ threshold' = {} /\ mailedOn' = NeverAlerted
  /\ UNCHANGED <<priceOf, bound, seats, activeOrders, thresholdEdit, alerter, snapshot, costDay>>

-----------------------------------------------------------------------------
(* scan_and_alert.                                                          *)
Breached(total, limit) == total > limit

(* Mutant of Quiet: the last alert is not looked at.                        *)
NeverQuiet(alerted) == FALSE

Quiet(alerted) == alerted # NeverAlerted /\ costDay - alerted < QuietDays

AlertRead ==
  /\ alerter = {}
  /\ \E t \in threshold :
       /\ Breached(FlatTotal, t.limit) /\ ~Quiet(t.alerted)
       /\ alerter' = {[total |-> FlatTotal, limit |-> t.limit, sent |-> FALSE]}
  /\ UNCHANGED <<priceOf, bound, seats, activeOrders, threshold, thresholdEdit, mailedOn,
                 snapshot, costDay, costBudget>>

(* The mail goes out before the stamp is written.                           *)
AlertSend ==
  /\ \E a \in alerter : ~a.sent /\ alerter' = {[a EXCEPT !.sent = TRUE]}
  /\ mailedOn' = costDay
  /\ UNCHANGED <<priceOf, bound, seats, activeOrders, threshold, thresholdEdit,
                 snapshot, costDay, costBudget>>

AlertCommit ==
  /\ \E a \in alerter : a.sent
  /\ alerter' = {}
  /\ threshold' = {[t EXCEPT !.alerted = costDay] : t \in threshold}
  /\ UNCHANGED <<priceOf, bound, seats, activeOrders, thresholdEdit, mailedOn,
                 snapshot, costDay, costBudget>>

AlerterDies ==
  /\ alerter # {} /\ alerter' = {} /\ SpendCost("crashes")
  /\ mailedOn' = NeverAlerted
  /\ UNCHANGED <<priceOf, bound, seats, activeOrders, threshold, thresholdEdit,
                 snapshot, costDay>>

(* capture_daily_snapshot: the rows of today are replaced, old ones go.     *)
Expired(d) == Retention > 0 /\ d < costDay - Retention

TakeSnapshot ==
  /\ snapshot' = [d \in 0..CostDays |-> IF d = costDay THEN {FlatTotal}
                                        ELSE IF Expired(d) THEN {} ELSE snapshot[d]]
  /\ UNCHANGED <<priceOf, bound, seats, activeOrders, threshold, thresholdEdit, alerter,
                 mailedOn, costDay, costBudget>>

(* A day ends when what started on it has ended.                            *)
NextCostDay ==
  /\ costDay < CostDays /\ alerter = {} /\ costDay' = costDay + 1
  /\ UNCHANGED <<priceOf, bound, seats, activeOrders, threshold, thresholdEdit, alerter,
                 mailedOn, snapshot, costBudget>>

CostNext ==
  \/ \E t \in CostTypes : OrderCounted(t) \/ BindContract(t)
  \/ \E l \in Limits : CreateThreshold(l) \/ EditCommit(l)
  \/ EditRead \/ DeleteThreshold
  \/ AlertRead \/ AlertSend \/ AlertCommit \/ AlerterDies \/ TakeSnapshot \/ NextCostDay

CostSpec == CostInit /\ [][CostNext]_costVars

-----------------------------------------------------------------------------
(* Between two mails about the same threshold lie the quiet days, unless it *)
(* was edited or the run died in between: what the first mail wrote is      *)
(* there when the next run reads, on whatever day that is.                  *)
Mailing == \E a \in alerter, b \in alerter' : ~a.sent /\ b.sent

QuietIsKept ==
  [][Mailing => mailedOn = NeverAlerted \/ costDay - mailedOn >= QuietDays]_costVars

(* A snapshot the retention covers is not lost, and one of a past day never *)
(* changes.                                                                 *)
PastStands ==
  [][\A d \in 0..CostDays :
       snapshot[d] # {} /\ d < costDay =>
         \/ snapshot'[d] = snapshot[d]
         \/ Retention > 0 /\ d < costDay - Retention]_costVars

(* Of a contract that is licensed by seat, what is charged and what is      *)
(* reported as unused make the whole seat price, or more seats are taken    *)
(* than licensed.                                                           *)
SeatsAddUp ==
  /\ Shelfware >= 0
  /\ seats > 0 /\ seats >= Consumption => Allocated + Shelfware = (MonthlyValue \div seats) * seats

(* The report's sums, the alerter's silence and the snapshots' history.     *)
CostKept == []SeatsAddUp /\ QuietIsKept /\ PastStands

=============================================================================
