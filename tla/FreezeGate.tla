----------------------------- MODULE FreezeGate -----------------------------
(***************************************************************************)
(* The deploy freeze of one ServiceClaim.                                  *)
(*                                                                         *)
(* Three parties meet in the stored claim:                                 *)
(*   - the reconciler, which reads the claim from its informer's cache,    *)
(*     queries Prometheus, and writes DeploysFrozen to the status;         *)
(*   - users, whose updates the API server passes to the validating        *)
(*     webhook and then commits with optimistic concurrency;               *)
(*   - Prometheus, whose answers change or fail at any time.               *)
(*                                                                         *)
(* This module is the projection of Reconcile onto the SLO and the freeze: *)
(* the objects the same reconcile applies are the Reconciler module's.     *)
(* freezeCondition depends on nothing else the reconcile does.             *)
(***************************************************************************)
EXTENDS Conditions

CONSTANTS
  Images,       \* values of spec.image
  Reasons,      \* break-glass annotation values with a non-blank reason
  Absent,       \* the annotation is not set
  Blank,        \* the annotation is set to white space only
  Users,        \* users who update the claim
  Objective,    \* spec.slo.objective, in hundredths of a percent
  Samples,      \* what Prometheus can answer: [window, hour] pairs
  StaleReads,   \* whether a reconcile may start before the cache has caught up
  MaxLag        \* bound: status versions the informer has yet to deliver

Annotations == Reasons \cup {Absent, Blank}
Entries == [user : Users, from : Images, to : Images, reason : Reasons]

ASSUME ObjectiveAssumption == Objective \in Int
ASSUME SamplesAssumption == Samples \subseteq [window : QueryResults, hour : QueryResults]
ASSUME StaleAssumption == StaleReads \in BOOLEAN
ASSUME ReasonsAssumption == Absent \notin Reasons /\ Blank \notin Reasons
ASSUME MaxLagAssumption == MaxLag \in Nat

VARIABLES
  image,      \* stored claim: spec.image
  reason,     \* stored claim: the break-glass annotation
  frozen,     \* stored claim: status condition DeploysFrozen is True
  slo,        \* stored claim: the SLO report written with it
  cached,     \* DeploysFrozen in the informer's copy of the claim
  watch,      \* status versions on their way to the informer, oldest first
  pc,         \* reconciler: "idle", "query" or "write"
  seen,       \* reconciler: DeploysFrozen in the claim it read
  found,      \* reconciler: the report evaluateSLO returned
  prom,       \* what Prometheus would answer now
  reqs,       \* each user's update request
  audit,      \* BreakGlassUsed Events recorded
  exhausted   \* history: the last reading to settle the question by itself
              \* found the budget exhausted

stored == <<image, reason, frozen, slo>>
informer == <<cached, watch>>
worker == <<pc, seen, found>>
vars == <<stored, informer, worker, prom, reqs, audit, exhausted>>

NoRequest == [phase |-> "none"]

(* stale: the claim was written since the webhook admitted the request. *)
Requests ==
  {NoRequest} \cup
  [phase : {"sent", "admitted"}, image : Images, reason : Annotations,
   dryRun : BOOLEAN, stale : BOOLEAN]

TypeOK ==
  /\ image \in Images /\ reason \in Annotations
  /\ frozen \in BOOLEAN /\ slo \in Reports
  /\ cached \in BOOLEAN /\ watch \in Seq(BOOLEAN)
  /\ pc \in {"idle", "query", "write"} /\ seen \in BOOLEAN /\ found \in Reports
  /\ prom \in Samples
  /\ reqs \in [Users -> Requests]
  /\ audit \subseteq Entries
  /\ exhausted \in BOOLEAN

Init ==
  /\ image \in Images /\ reason = Absent
  /\ frozen = FALSE /\ slo = Unmeasured("NoTraffic")
  /\ cached = FALSE /\ watch = <<>>
  /\ pc = "idle" /\ seen = FALSE /\ found = Unmeasured("NoTraffic")
  /\ prom \in Samples
  /\ reqs = [u \in Users |-> NoRequest]
  /\ audit = {}
  /\ exhausted = FALSE

(***************************************************************************)
(* A write to the stored claim gives it a new resourceVersion, so every    *)
(* request admitted against the old one will conflict.                     *)
(***************************************************************************)
Outdated(rs) ==
  [u \in Users |-> IF rs[u].phase = "admitted" THEN [rs[u] EXCEPT !.stale = TRUE]
                                               ELSE rs[u]]

-----------------------------------------------------------------------------
(* The reconciler *)

(* Reconcile reads the claim from the cache. *)
ReadClaim ==
  /\ pc = "idle"
  /\ StaleReads \/ watch = <<>>
  /\ seen' = cached
  /\ pc' = "query"
  /\ UNCHANGED <<stored, informer, found, prom, reqs, audit, exhausted>>

(* evaluateSLO: both queries are answered from what Prometheus holds now. *)
QuerySLO ==
  /\ pc = "query"
  /\ found' = evaluateSLO(TRUE, Objective, prom.window, prom.hour)
  /\ pc' = "write"
  /\ UNCHANGED <<stored, informer, seen, prom, reqs, audit, exhausted>>

(* The last reading that settles the question by itself: no budget left,   *)
(* or at least UnfreezeBudget of it.                                       *)
Settled(before, report) ==
  IF report.measured /\ report.remaining <= 0 THEN TRUE
  ELSE IF report.measured /\ report.remaining >= UnfreezeBudget THEN FALSE
  ELSE before

(* applyStatus: the SLO report and the freeze decided from it and from the *)
(* claim as it was read are written in one server-side apply.              *)
WriteStatus ==
  /\ pc = "write"
  /\ Len(watch) < MaxLag
  /\ slo' = found
  /\ frozen' = freezeCondition(seen, found)
  /\ watch' = Append(watch, frozen')
  /\ exhausted' = Settled(exhausted, found)
  /\ reqs' = Outdated(reqs)
  /\ pc' = "idle"
  /\ UNCHANGED <<image, reason, cached, seen, found, prom, audit>>

(* The apply fails: Reconcile returns the error and is retried later. *)
WriteFails ==
  /\ pc = "write"
  /\ pc' = "idle"
  /\ UNCHANGED <<stored, informer, seen, found, prom, reqs, audit, exhausted>>

(* The controller's process restarts: its informer lists the claim anew. *)
Restart ==
  /\ pc' = "idle"
  /\ cached' = frozen
  /\ watch' = <<>>
  /\ UNCHANGED <<stored, seen, found, prom, reqs, audit, exhausted>>

(* The informer receives the next version of the claim. *)
Deliver ==
  /\ watch # <<>>
  /\ cached' = Head(watch)
  /\ watch' = Tail(watch)
  /\ UNCHANGED <<stored, worker, prom, reqs, audit, exhausted>>

PrometheusMoves ==
  /\ prom' \in Samples
  /\ UNCHANGED <<stored, informer, worker, reqs, audit, exhausted>>

-----------------------------------------------------------------------------
(* Users, the API server and the webhook *)

SendUpdate(u) ==
  /\ reqs[u].phase = "none"
  /\ \E i \in Images, r \in Annotations, d \in BOOLEAN :
       reqs' = [reqs EXCEPT ![u] = [phase |-> "sent", image |-> i, reason |-> r,
                                    dryRun |-> d, stale |-> FALSE]]
  /\ UNCHANGED <<stored, informer, worker, prom, audit, exhausted>>

(* Mutant: a reason left on the claim counts again. *)
breakGlassReason_standing(old, new) == new \in Reasons

(* The update sets a reason: not blank, and not the value already stored. *)
breakGlassReason(old, new) == new \in Reasons /\ new # old

(* Mutant: the annotation is read from the stored claim, not the update. *)
Admissible_stored(req) ==
  ~frozen \/ req.image = image \/ reason \in Reasons

(* An image change to a frozen claim needs a break-glass reason. *)
Admissible(req) ==
  \/ ~frozen
  \/ req.image = image
  \/ breakGlassReason(reason, req.reason)

(* ... and one that is let through with a reason is recorded. *)
Recorded(u, req) ==
  IF frozen /\ req.image # image /\ ~req.dryRun
  THEN {[user |-> u, from |-> image, to |-> req.image, reason |-> req.reason]}
  ELSE {}

(* The webhook is asked about the stored claim and the update. *)
ValidateUpdate(u) ==
  /\ reqs[u].phase = "sent"
  /\ Admissible(reqs[u])
  /\ audit' = audit \cup Recorded(u, reqs[u])
  /\ reqs' = [reqs EXCEPT ![u] = [@ EXCEPT !.phase = "admitted", !.stale = FALSE]]
  /\ UNCHANGED <<stored, informer, worker, prom, exhausted>>

(* DeploysFrozenError, or an admission request that carries no user. *)
RejectUpdate(u) ==
  /\ reqs[u].phase = "sent"
  /\ ~Admissible(reqs[u])
  /\ reqs' = [reqs EXCEPT ![u] = NoRequest]
  /\ UNCHANGED <<stored, informer, worker, prom, audit, exhausted>>

(* failurePolicy=fail: an update the webhook can't answer for is refused.  *)
(* So is an admitted one that something later in the request fails.        *)
RefuseUpdate(u) ==
  /\ reqs[u].phase \in {"sent", "admitted"}
  /\ reqs' = [reqs EXCEPT ![u] = NoRequest]
  /\ UNCHANGED <<stored, informer, worker, prom, audit, exhausted>>

(* The API server stores an admitted update if the claim is still the one  *)
(* the webhook was asked about.  A dry run is answered and not stored.     *)
CommitUpdate(u) ==
  /\ reqs[u].phase = "admitted"
  /\ ~reqs[u].stale
  /\ IF reqs[u].dryRun
     THEN /\ reqs' = [reqs EXCEPT ![u] = NoRequest]
          /\ UNCHANGED <<image, reason>>
     ELSE /\ image' = reqs[u].image
          /\ reason' = reqs[u].reason
          /\ reqs' = Outdated([reqs EXCEPT ![u] = NoRequest])
  /\ UNCHANGED <<frozen, slo, informer, worker, prom, audit, exhausted>>

(* The claim changed in between: the API server applies a patch to the new *)
(* version and asks the webhook again.                                     *)
RetryUpdate(u) ==
  /\ reqs[u].phase = "admitted"
  /\ reqs[u].stale
  /\ reqs' = [reqs EXCEPT ![u] = [@ EXCEPT !.phase = "sent", !.stale = FALSE]]
  /\ UNCHANGED <<stored, informer, worker, prom, audit, exhausted>>

-----------------------------------------------------------------------------
UserStep(u) ==
  \/ SendUpdate(u) \/ ValidateUpdate(u) \/ RejectUpdate(u) \/ RefuseUpdate(u)
  \/ CommitUpdate(u) \/ RetryUpdate(u)

Next ==
  \/ ReadClaim \/ QuerySLO \/ WriteStatus \/ WriteFails \/ Restart
  \/ Deliver \/ PrometheusMoves
  \/ \E u \in Users : UserStep(u)

Spec == Init /\ [][Next]_vars

(***************************************************************************)
(* A successful reconcile requeues itself every minute and a failed one is *)
(* retried, so an idle reconciler starts again, and the informer's watch   *)
(* delivers.  Strong fairness on the later steps: the controller is not    *)
(* killed in every reconcile, nor is every status write refused.           *)
(***************************************************************************)
Fairness ==
  /\ WF_vars(ReadClaim) /\ WF_vars(Deliver)
  /\ SF_vars(QuerySLO) /\ SF_vars(WriteStatus)

FairSpec == Spec /\ Fairness

-----------------------------------------------------------------------------
(* Properties *)

(***************************************************************************)
(* No image reaches a frozen claim unaudited.  Whenever spec.image changes *)
(* while DeploysFrozen is True, at the moment the update is stored and not *)
(* only when the webhook looked, a BreakGlassUsed Event names the user of  *)
(* the stored update, both images and a reason the claim did not already   *)
(* carry (ServiceClaimValidator.ValidateUpdate, breakGlassReason).         *)
(***************************************************************************)
Audited ==
  frozen /\ image' # image =>
    \E e \in audit, u \in Users :
      /\ reqs[u].phase = "admitted" /\ e.user = u
      /\ e.from = image /\ e.to = image'
      /\ e.reason = reason' /\ reason' # reason

OverridesAreAudited == [][Audited]_vars

(***************************************************************************)
(* The freeze is the hysteresis of ADR-017 over every reading a status was *)
(* ever written for: deploys are frozen exactly when the last reading that *)
(* settles it (no budget left, or 5% of it back) found none left, whatever *)
(* outages, gaps and readings between 0 and 5% came since (freezeCondition *)
(* through Reconcile's cached read and applyStatus).                       *)
(***************************************************************************)
FreezeTracksBudget == frozen = exhausted

(***************************************************************************)
(* Only a measured budget moves the freeze.  While it can't be measured    *)
(* the last decision stands: a Prometheus outage neither freezes a healthy *)
(* service nor unfreezes an exhausted one (freezeCondition's comment, and  *)
(* DECISIONS.md, ADR-017).                                                 *)
(***************************************************************************)
LastDecisionStands == [][frozen' # frozen => slo'.measured]_vars

(***************************************************************************)
(* However old the claim a reconcile read, a reading that settles the      *)
(* question is obeyed: a status that reports no budget left is frozen and  *)
(* one that reports 5% or more is not, so a stale read can only misdecide  *)
(* in between (evaluateSLO, freezeCondition and applyStatus together).     *)
(***************************************************************************)
SettledReadingsDecide ==
  /\ slo.measured /\ slo.remaining <= 0 => frozen
  /\ slo.measured /\ slo.remaining >= UnfreezeBudget => ~frozen

(* What a reconcile would learn if it queried Prometheus now. *)
Current == evaluateSLO(TRUE, Objective, prom.window, prom.hour)

(***************************************************************************)
(* A budget that stays exhausted freezes deploys for good, and one that    *)
(* stays at 5% or more opens them for good, whatever the cache's lag, lost *)
(* status writes and restarts in between (the requeue after                *)
(* sloRefreshInterval).                                                    *)
(***************************************************************************)
ExhaustionFreezes ==
  <>[](Current.measured /\ Current.remaining <= 0) => <>[]frozen

RecoveryUnfreezes ==
  <>[](Current.measured /\ Current.remaining >= UnfreezeBudget) => <>[]~frozen

(***************************************************************************)
(* With a cache that has caught up before each reconcile, the freeze is    *)
(* the policy of ADR-017 and ADR-018: the cached read, the queries and the *)
(* status write act as one assessment, and admission and commit as one     *)
(* change (Reconcile, ValidateUpdate).                                     *)
(***************************************************************************)
Policy == INSTANCE DeployPolicy WITH
            Images <- Images, Entries <- Entries,
            image <- image, frozen <- frozen, slo <- slo, audit <- audit

ImplementsPolicy == Policy!Spec
=============================================================================
