----------------------------- MODULE Conditions -----------------------------
(***************************************************************************)
(* The pure decisions of one reconcile: what the controller concludes from *)
(* what it has read.  There is no state here; FreezeGate and Reconciler    *)
(* apply these operators inside their actions.                             *)
(*                                                                         *)
(* A condition is modelled by its status and its reason.  Messages and     *)
(* transition times are left out: nothing in the program reads them back.  *)
(*                                                                         *)
(* Floating-point shares of a budget are integers here: a share or a burn  *)
(* rate x stands for x / Scale.                                            *)
(***************************************************************************)
EXTENDS Integers, Sequences

Scale == 1000

(* UnfreezeBudget = 0.05, and the fastest page alert's burn rate, 14.4. *)
UnfreezeBudget == 50
FastBurn == 14400

Statuses == {"True", "False", "Unknown"}

Condition(status, reason) == [status |-> status, reason |-> reason]

(***************************************************************************)
(* What QueryValue returns for a query: a sample, an infinite sample, the  *)
(* error ErrNoData (an empty or NaN result), or any other error (timeout,  *)
(* refused connection, several series).  The value is an error ratio in    *)
(* ten-thousandths and may be slightly negative.                           *)
(***************************************************************************)
Value(v) == [kind |-> "value", v |-> v]
InfValue == [kind |-> "inf", v |-> 0]
NoData == [kind |-> "nodata", v |-> 0]
QueryError == [kind |-> "error", v |-> 0]

QueryResults == [kind : {"value", "inf", "nodata", "error"}, v : Int]

(* The budget of an objective given in hundredths of a percent, in         *)
(* ten-thousandths of all requests: 99.5% leaves 50.  0 is the error.      *)
ErrorBudget(objective) ==
  IF objective >= 9000 /\ objective < 10000 THEN 10000 - objective ELSE 0

(* max(errorRatio, 0) / budget.  Both callers have ruled out an error. *)
BurnRate(ratio, budget) ==
  ((IF ratio > 0 THEN ratio ELSE 0) * Scale) \div budget

(* Mutant: the share left is not clamped at zero. *)
Remaining_unclamped(ratio, budget) == Scale - BurnRate(ratio, budget)

(* The share of the budget left, clamp(1 - consumed, 0, 1). *)
Remaining(ratio, budget) ==
  IF BurnRate(ratio, budget) >= Scale THEN 0 ELSE Scale - BurnRate(ratio, budget)

(***************************************************************************)
(* What one reconcile learned about the SLO: the SLOHealthy condition,     *)
(* whether the budget was measured and, if it was, the share of it left.   *)
(***************************************************************************)
Report(status, reason, measured, remaining) ==
  [status |-> status, reason |-> reason,
   measured |-> measured, remaining |-> remaining]

Unmeasured(reason) == Report("Unknown", reason, FALSE, 0)

Reports ==
  [status : Statuses,
   reason : {"InvalidSpec", "PrometheusUnavailable", "NoTraffic", "UnusableData",
             "BudgetExhausted", "FastBurn", "WithinBudget"},
   measured : BOOLEAN,
   remaining : 0 .. Scale]

(* The report once the window's ratio is known.  An unusable hour ratio    *)
(* makes SLOHealthy Unknown but leaves the budget measured.                *)
measuredReport(remaining, hour, budget) ==
  IF hour.kind = "inf" THEN Report("Unknown", "UnusableData", TRUE, remaining)
  ELSE IF remaining <= 0 THEN Report("False", "BudgetExhausted", TRUE, remaining)
  ELSE IF hour.kind = "value" /\ BurnRate(hour.v, budget) >= FastBurn
       THEN Report("False", "FastBurn", TRUE, remaining)
  ELSE Report("True", "WithinBudget", TRUE, remaining)

(* evaluateSLO's early returns, in order.  The hour query is made only if  *)
(* the window query was answered; a failure of either leaves the budget    *)
(* unmeasured.                                                             *)
evaluateSLO(configured, objective, window, hour) ==
  LET budget == ErrorBudget(objective)
  IN IF ~configured THEN Unmeasured("PrometheusUnavailable")
     ELSE IF budget = 0 THEN Unmeasured("InvalidSpec")
     ELSE IF "error" \in {window.kind, hour.kind}
          THEN Unmeasured("PrometheusUnavailable")
     ELSE IF window.kind = "nodata" THEN Unmeasured("NoTraffic")
     ELSE IF window.kind = "inf" THEN Unmeasured("UnusableData")
     ELSE measuredReport(Remaining(window.v, budget), hour, budget)

(* Mutants: no gap between freezing and unfreezing; an outage opens deploys; *)
(* exactly 5% back is not enough; only an overspent budget freezes; 0.05   *)
(* compared as a percentage.                                               *)
freezeCondition_noGap(wasFrozen, report) ==
  (~report.measured /\ wasFrozen) \/ (report.measured /\ report.remaining <= 0)
freezeCondition_failOpen(wasFrozen, report) ==
  \/ report.measured /\ report.remaining <= 0
  \/ report.measured /\ wasFrozen /\ report.remaining < UnfreezeBudget
freezeCondition_atMost(wasFrozen, report) ==
  \/ ~report.measured /\ wasFrozen
  \/ report.measured /\ report.remaining <= 0
  \/ report.measured /\ wasFrozen /\ report.remaining <= UnfreezeBudget
freezeCondition_overspent(wasFrozen, report) ==
  \/ ~report.measured /\ wasFrozen
  \/ report.measured /\ report.remaining < 0
  \/ report.measured /\ wasFrozen /\ report.remaining < UnfreezeBudget
freezeCondition_percent(wasFrozen, report) ==
  \/ ~report.measured /\ wasFrozen
  \/ report.measured /\ report.remaining <= 0
  \/ report.measured /\ wasFrozen /\ report.remaining < 100 * UnfreezeBudget

(***************************************************************************)
(* Whether deploys are frozen after a reconcile that last saw them frozen  *)
(* or not (wasFrozen) and learned report.                                  *)
(***************************************************************************)
freezeCondition(wasFrozen, report) ==
  \/ ~report.measured /\ wasFrozen
  \/ report.measured /\ report.remaining <= 0
  \/ report.measured /\ wasFrozen /\ report.remaining < UnfreezeBudget

(***************************************************************************)
(* StorageReady, from the ACK objects in the order they were read: the     *)
(* first one that isn't synced decides.  Each is what the read returned:   *)
(* "notfound", "unreadable" (the read or its conditions), "terminal",      *)
(* "syncing" or "synced".                                                  *)
(***************************************************************************)
storageVerdict(ack) ==
  IF ack = "unreadable" THEN Condition("Unknown", "StorageUnreadable")
  ELSE IF ack = "terminal" THEN Condition("False", "StorageFailed")
  ELSE Condition("False", "StorageProvisioning")

(* Mutant: only the object read last is looked at. *)
storageCondition_last(observed) ==
  IF observed[Len(observed)] = "synced"
  THEN Condition("True", "StorageProvisioned")
  ELSE storageVerdict(observed[Len(observed)])

storageCondition(observed) ==
  LET blocking == {i \in DOMAIN observed : observed[i] # "synced"}
  IN IF blocking = {}
     THEN Condition("True", "StorageProvisioned")
     ELSE storageVerdict(observed[CHOOSE i \in blocking : \A j \in blocking : i <= j])

(* StorageReady of a claim with storage; reads are made only if linked. *)
evaluateStorage(linked, observed) ==
  IF linked THEN storageCondition(observed) ELSE Condition("False", "StorageUnavailable")

(* A claim without storage has no such condition. *)
NoStorage == Condition("none", "none")

(***************************************************************************)
(* Ready, from ResourcesSynced, StorageReady and what the read of the      *)
(* Rollout returned: an error, whether Argo Rollouts has observed the      *)
(* Rollout's generation, and its phase.                                    *)
(***************************************************************************)
readyCondition(synced, storage, rollout) ==
  IF synced.status # "True" THEN Condition("False", synced.reason)
  ELSE IF storage.status \notin {"none", "True"} THEN storage
  ELSE IF rollout.err = "notfound" THEN Condition("False", "RolloutNotFound")
  ELSE IF rollout.err = "error" THEN Condition("Unknown", "RolloutUnreadable")
  ELSE IF ~rollout.observed THEN Condition("False", "RolloutProgressing")
  ELSE IF rollout.phase = "Healthy" THEN Condition("True", "RolloutHealthy")
  ELSE IF rollout.phase = "Degraded" THEN Condition("False", "RolloutDegraded")
  ELSE Condition("False", "RolloutProgressing")
=============================================================================
