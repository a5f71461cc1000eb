-------------------------- MODULE FreezeGateProofs --------------------------
(***************************************************************************)
(* Machine-checked proofs about FreezeGate, for every set of users, images *)
(* and reasons, every objective, every set of Prometheus answers and every *)
(* bound on the informer's lag.                                            *)
(***************************************************************************)
EXTENDS FreezeGate, TLAPS

-----------------------------------------------------------------------------
(* Reports *)

(***************************************************************************)
(* SpendBudget's clamp: whatever the error ratio, the share left is        *)
(* between none and all of the budget.                                     *)
(***************************************************************************)
LEMMA RemainingRange ==
  ASSUME NEW ratio \in Int, NEW budget \in Nat, budget > 0
  PROVE  Remaining(ratio, budget) \in 0 .. Scale
<1> DEFINE x == IF ratio > 0 THEN ratio ELSE 0
           n == x * 1000
           q == n \div budget
<1>1. n \in Nat
  OBVIOUS
<1>2. q \in Int /\ q >= 0
  <2> HIDE DEF n
  <2> QED BY <1>1
<1>3. BurnRate(ratio, budget) = q
  BY DEF BurnRate, Scale
<1> HIDE DEF q
<1> QED BY <1>2, <1>3 DEF Remaining, Scale

(* Every answer Prometheus can give becomes a well-formed report. *)
LEMMA ReportType ==
  ASSUME NEW s \in Samples
  PROVE  evaluateSLO(TRUE, Objective, s.window, s.hour) \in Reports
<1> DEFINE budget == ErrorBudget(Objective)
           w == s.window
           h == s.hour
<1>1. w \in QueryResults /\ h \in QueryResults
  BY SamplesAssumption
<1>2. budget \in Nat
  BY ObjectiveAssumption DEF ErrorBudget
<1>3. \A r \in {"InvalidSpec", "PrometheusUnavailable", "NoTraffic", "UnusableData"} :
        Unmeasured(r) \in Reports
  BY DEF Unmeasured, Report, Reports, Statuses, Scale
<1>4. ASSUME NEW rem \in 0 .. Scale PROVE measuredReport(rem, h, budget) \in Reports
  BY DEF measuredReport, Report, Reports, Statuses
<1>5. CASE budget = 0
  BY <1>3, <1>5 DEF evaluateSLO
<1>6. CASE budget # 0
  <2>1. budget > 0
    BY <1>2, <1>6
  <2>2. w.v \in Int
    BY <1>1 DEF QueryResults
  <2>3. Remaining(w.v, budget) \in 0 .. Scale
    BY <1>2, <2>1, <2>2, RemainingRange
  <2>4. measuredReport(Remaining(w.v, budget), h, budget) \in Reports
    BY <2>3, <1>4
  <2> QED BY <1>3, <1>6, <2>4 DEF evaluateSLO
<1> QED BY <1>5, <1>6

(* The fields of a report that freezeCondition looks at. *)
LEMMA ReportFields ==
  ASSUME NEW report \in Reports
  PROVE  report.measured \in BOOLEAN /\ report.remaining \in Int
BY DEF Reports, Scale

(* freezeCondition, and the history it is compared with, are Boolean. *)
LEMMA DecisionType ==
  ASSUME NEW was \in BOOLEAN, NEW report \in Reports
  PROVE  freezeCondition(was, report) \in BOOLEAN /\ Settled(was, report) \in BOOLEAN
BY DEF freezeCondition, Settled

-----------------------------------------------------------------------------
(* Requests *)

Pending ==
  [phase : {"sent", "admitted"}, image : Images, reason : Annotations,
   dryRun : BOOLEAN, stale : BOOLEAN]

(* A request that is not NoRequest has all the fields of one in flight. *)
LEMMA PendingRequest ==
  ASSUME NEW r \in Requests, r.phase # "none"
  PROVE  r \in Pending
BY DEF Requests, NoRequest, Pending

(* What admission, retry and a competing write make of a request is one. *)
LEMMA RequestSteps ==
  /\ NoRequest \in Requests
  /\ \A r \in Pending :
       /\ r \in Requests
       /\ [r EXCEPT !.stale = TRUE] \in Pending
       /\ \A p \in {"sent", "admitted"} :
            [r EXCEPT !.phase = p, !.stale = FALSE] \in Pending
BY DEF Requests, NoRequest, Pending

(* A write of the claim leaves every user with a well-formed request. *)
LEMMA OutdatedType ==
  ASSUME NEW rs \in [Users -> Requests]
  PROVE  Outdated(rs) \in [Users -> Requests]
<1>1. ASSUME NEW u \in Users
      PROVE  (IF rs[u].phase = "admitted" THEN [rs[u] EXCEPT !.stale = TRUE]
                                          ELSE rs[u]) \in Requests
  <2>1. rs[u] \in Requests
    OBVIOUS
  <2>2. CASE rs[u].phase = "admitted"
    BY <2>1, <2>2, PendingRequest, RequestSteps
  <2> QED BY <2>1, <2>2
<1> QED BY <1>1 DEF Outdated

-----------------------------------------------------------------------------
(* A claim starts out well typed. *)
LEMMA InitType == Init => TypeOK
<1>1. Unmeasured("NoTraffic") \in Reports
  BY DEF Unmeasured, Report, Reports, Statuses, Scale
<1>2. NoRequest \in Requests
  BY RequestSteps
<1> SUFFICES ASSUME Init PROVE TypeOK
  OBVIOUS
<1>3. reqs \in [Users -> Requests]
  BY <1>2 DEF Init
<1>4. watch \in Seq(BOOLEAN)
  BY DEF Init
<1> QED BY <1>1, <1>3, <1>4 DEF Init, TypeOK, Annotations

(* Every step of the reconciler, the webhook and the API server keeps TypeOK. *)
LEMMA NextType == TypeOK /\ [Next]_vars => TypeOK'
<1> SUFFICES ASSUME TypeOK, [Next]_vars PROVE TypeOK'
  OBVIOUS
<1> USE DEF TypeOK
<1>1. CASE ReadClaim
  BY <1>1 DEF ReadClaim, stored, informer
<1>2. CASE QuerySLO
  <2>1. found' \in Reports
    BY <1>2, ReportType DEF QuerySLO
  <2> QED BY <1>2, <2>1 DEF QuerySLO, stored, informer
<1>3. CASE WriteStatus
  <2>1. frozen' \in BOOLEAN /\ exhausted' \in BOOLEAN
    BY <1>3, DecisionType DEF WriteStatus
  <2>2. reqs' \in [Users -> Requests]
    BY <1>3, OutdatedType DEF WriteStatus
  <2> QED BY <1>3, <2>1, <2>2 DEF WriteStatus
<1>4. CASE WriteFails
  BY <1>4 DEF WriteFails, stored, informer
<1>5. CASE Restart
  BY <1>5 DEF Restart, stored
<1>6. CASE Deliver
  BY <1>6 DEF Deliver, stored, worker
<1>7. CASE PrometheusMoves
  BY <1>7 DEF PrometheusMoves, stored, informer, worker
<1>8. ASSUME NEW u \in Users, UserStep(u) PROVE TypeOK'
  <2>1. CASE SendUpdate(u)
    <3>1. reqs' \in [Users -> Requests]
      BY <2>1 DEF SendUpdate, Requests
    <3> QED BY <2>1, <3>1 DEF SendUpdate, stored, informer, worker
  <2>2. CASE ValidateUpdate(u)
    <3>1. reqs[u] \in Pending
      BY <2>2, PendingRequest DEF ValidateUpdate
    <3>2. reqs' \in [Users -> Requests]
      BY <2>2, <3>1, RequestSteps DEF ValidateUpdate
    <3>3. Recorded(u, reqs[u]) \subseteq Entries
      BY <2>2, <3>1 DEF ValidateUpdate, Admissible, breakGlassReason, Recorded, Entries, Pending
    <3> QED BY <2>2, <3>2, <3>3 DEF ValidateUpdate, stored, informer, worker
  <2>3. CASE RejectUpdate(u)
    BY <2>3, RequestSteps DEF RejectUpdate, stored, informer, worker
  <2>4. CASE RefuseUpdate(u)
    BY <2>4, RequestSteps DEF RefuseUpdate, stored, informer, worker
  <2>5. CASE CommitUpdate(u)
    <3>1. reqs[u] \in Pending
      BY <2>5, PendingRequest DEF CommitUpdate
    <3>2. [reqs EXCEPT ![u] = NoRequest] \in [Users -> Requests]
      BY RequestSteps
    <3>3. reqs' \in [Users -> Requests]
      BY <2>5, <3>2, OutdatedType DEF CommitUpdate
    <3>4. image' \in Images /\ reason' \in Annotations
      BY <2>5, <3>1 DEF CommitUpdate, Pending
    <3> QED BY <2>5, <3>3, <3>4 DEF CommitUpdate, informer, worker
  <2>6. CASE RetryUpdate(u)
    <3>1. reqs[u] \in Pending
      BY <2>6, PendingRequest DEF RetryUpdate
    <3>2. reqs' \in [Users -> Requests]
      BY <2>6, <3>1, RequestSteps DEF RetryUpdate
    <3> QED BY <2>6, <3>2 DEF RetryUpdate, stored, informer, worker
  <2> QED BY <1>8, <2>1, <2>2, <2>3, <2>4, <2>5, <2>6 DEF UserStep
<1>9. CASE UNCHANGED vars
  BY <1>9 DEF vars, stored, informer, worker
<1> QED BY <1>1, <1>2, <1>3, <1>4, <1>5, <1>6, <1>7, <1>8, <1>9 DEF Next

(***************************************************************************)
(* Type correctness: every variable keeps its type in every behaviour, the *)
(* reports stored in the claim's status included.                          *)
(***************************************************************************)
THEOREM TypeCorrect == Spec => []TypeOK
BY InitType, NextType, PTL DEF Spec

-----------------------------------------------------------------------------
(***************************************************************************)
(* The freeze.  FreezeTracksBudget is not inductive: the decision is taken *)
(* from a copy of a copy of the last one.  The strengthening says that the *)
(* newest version on its way to the cache is the stored one and, when no   *)
(* reconcile starts on a stale cache, that the version a running reconcile *)
(* has read is the stored one too.                                         *)
(***************************************************************************)
NewestIsStored ==
  IF watch = <<>> THEN cached = frozen ELSE watch[Len(watch)] = frozen

SeenIsStored == pc # "idle" => seen = frozen

FreezeInv == NewestIsStored /\ SeenIsStored /\ FreezeTracksBudget

(* The two definitions of hysteresis agree: what the code decides from the *)
(* decision in force is what the last settling reading says.               *)
LEMMA DecisionIsSettled ==
  ASSUME NEW was \in BOOLEAN, NEW report \in Reports
  PROVE  freezeCondition(was, report) = Settled(was, report)
<1>1. report.measured \in BOOLEAN /\ report.remaining \in Int
  BY ReportFields
<1>2. CASE ~report.measured
  BY <1>2 DEF freezeCondition, Settled
<1>3. CASE report.measured /\ report.remaining <= 0
  BY <1>3 DEF freezeCondition, Settled
<1>4. CASE report.measured /\ report.remaining > 0 /\ report.remaining < UnfreezeBudget
  <2>1. ~(report.remaining <= 0) /\ ~(report.remaining >= UnfreezeBudget)
    BY <1>1, <1>4 DEF UnfreezeBudget
  <2> QED BY <1>4, <2>1 DEF freezeCondition, Settled
<1>5. CASE report.measured /\ report.remaining >= UnfreezeBudget
  <2>1. ~(report.remaining <= 0) /\ ~(report.remaining < UnfreezeBudget)
    BY <1>1, <1>5 DEF UnfreezeBudget
  <2> QED BY <1>5, <2>1 DEF freezeCondition, Settled
<1> QED BY <1>1, <1>2, <1>3, <1>4, <1>5 DEF UnfreezeBudget

(* Delivering the oldest version leaves the newest one where it was. *)
LEMMA WatchEnds ==
  ASSUME NEW w \in Seq(BOOLEAN), w # <<>>
  PROVE  /\ Tail(w) = <<>> => Head(w) = w[Len(w)]
         /\ Tail(w) # <<>> => Tail(w)[Len(Tail(w))] = w[Len(w)]
OBVIOUS

(* With up-to-date reads every step keeps FreezeInv. *)
LEMMA FreezeInvStep ==
  ASSUME ~StaleReads, TypeOK, FreezeInv, [Next]_vars
  PROVE  FreezeInv'
<1> USE DEF TypeOK
<1>1. CASE ReadClaim
  BY <1>1 DEF ReadClaim, FreezeInv, NewestIsStored, SeenIsStored, FreezeTracksBudget, stored, informer
<1>2. CASE QuerySLO
  BY <1>2 DEF QuerySLO, FreezeInv, NewestIsStored, SeenIsStored, FreezeTracksBudget, stored, informer
<1>3. CASE WriteStatus
  <2>1. seen = exhausted
    BY <1>3 DEF WriteStatus, FreezeInv, SeenIsStored, FreezeTracksBudget
  <2>2. frozen' = exhausted'
    BY <1>3, <2>1, DecisionIsSettled DEF WriteStatus
  <2>3. frozen' \in BOOLEAN
    BY <1>3, DecisionType DEF WriteStatus
  <2>4. watch' # <<>> /\ watch'[Len(watch')] = frozen'
    BY <1>3, <2>3 DEF WriteStatus
  <2> QED BY <1>3, <2>2, <2>4
       DEF WriteStatus, FreezeInv, NewestIsStored, SeenIsStored, FreezeTracksBudget
<1>4. CASE WriteFails
  BY <1>4 DEF WriteFails, FreezeInv, NewestIsStored, SeenIsStored, FreezeTracksBudget, stored, informer
<1>5. CASE Restart
  BY <1>5 DEF Restart, FreezeInv, NewestIsStored, SeenIsStored, FreezeTracksBudget, stored
<1>6. CASE Deliver
  <2>1. NewestIsStored'
    BY <1>6, WatchEnds DEF Deliver, FreezeInv, NewestIsStored, stored
  <2> QED BY <1>6, <2>1 DEF Deliver, FreezeInv, SeenIsStored, FreezeTracksBudget, stored, worker
<1>7. CASE PrometheusMoves
  BY <1>7 DEF PrometheusMoves, FreezeInv, NewestIsStored, SeenIsStored, FreezeTracksBudget,
              stored, informer, worker
<1>8. ASSUME NEW u \in Users, UserStep(u) PROVE FreezeInv'
  <2>1. UNCHANGED <<frozen, exhausted, informer, worker>>
    BY <1>8 DEF UserStep, SendUpdate, ValidateUpdate, RejectUpdate, RefuseUpdate,
                CommitUpdate, RetryUpdate, stored
  <2> QED BY <2>1 DEF FreezeInv, NewestIsStored, SeenIsStored, FreezeTracksBudget, informer, worker
<1>9. CASE UNCHANGED vars
  BY <1>9 DEF vars, FreezeInv, NewestIsStored, SeenIsStored, FreezeTracksBudget,
              stored, informer, worker
<1> QED BY <1>1, <1>2, <1>3, <1>4, <1>5, <1>6, <1>7, <1>8, <1>9 DEF Next

(* A new claim is not frozen, and nothing has been read yet. *)
LEMMA FreezeInvInit == Init => FreezeInv
BY DEF Init, FreezeInv, NewestIsStored, SeenIsStored, FreezeTracksBudget

(***************************************************************************)
(* The freeze is the hysteresis of ADR-017 (freezeCondition through        *)
(* Reconcile and applyStatus): if no reconcile starts before the cache has *)
(* caught up with the last status write, deploys are frozen exactly when   *)
(* the last settling reading found no budget left, for every sequence of   *)
(* readings, outages, failed writes, restarts and user updates.            *)
(***************************************************************************)
THEOREM FreezeCorrect ==
  ASSUME ~StaleReads
  PROVE  Spec => []FreezeTracksBudget
<1>1. Init => FreezeInv
  BY FreezeInvInit
<1>2. TypeOK /\ FreezeInv /\ [Next]_vars => FreezeInv'
  BY FreezeInvStep
<1>3. FreezeInv => FreezeTracksBudget
  BY DEF FreezeInv
<1> QED BY <1>1, <1>2, <1>3, TypeCorrect, PTL DEF Spec

(***************************************************************************)
(* Only a measured budget moves the freeze, on the same assumption: an     *)
(* outage leaves the last decision standing (freezeCondition's first two   *)
(* cases, read through the cache).                                         *)
(***************************************************************************)
THEOREM OutageKeepsDecision ==
  ASSUME ~StaleReads
  PROVE  Spec => LastDecisionStands
<1>1. Init => FreezeInv
  BY FreezeInvInit
<1>2. TypeOK /\ FreezeInv /\ [Next]_vars => FreezeInv'
  BY FreezeInvStep
<1>3. ASSUME TypeOK, FreezeInv, [Next]_vars
      PROVE  frozen' # frozen => slo'.measured
  <2>1. CASE WriteStatus
    <3>1. slo' = found /\ frozen' = freezeCondition(frozen, found)
      BY <1>3, <2>1 DEF WriteStatus, FreezeInv, SeenIsStored
    <3>2. found.measured \in BOOLEAN
      BY <1>3 DEF TypeOK, Reports
    <3> QED BY <1>3, <3>1, <3>2 DEF freezeCondition, TypeOK
  <2>2. CASE ~WriteStatus
    <3>1. frozen' = frozen
      BY <1>3, <2>2 DEF Next, UserStep, ReadClaim, QuerySLO, WriteFails, Restart, Deliver,
            PrometheusMoves, SendUpdate, ValidateUpdate, RejectUpdate, RefuseUpdate,
            CommitUpdate, RetryUpdate, stored, vars
    <3> QED BY <3>1
  <2> QED BY <2>1, <2>2
<1>4. TypeOK /\ FreezeInv /\ [Next]_vars => [frozen' # frozen => slo'.measured]_vars
  BY <1>3
<1> QED BY <1>1, <1>2, <1>4, TypeCorrect, PTL DEF Spec, LastDecisionStands

-----------------------------------------------------------------------------
(***************************************************************************)
(* The audit trail.  What the webhook concluded when it admitted a request *)
(* still holds for as long as the request can be stored: the claim it was  *)
(* asked about is still the stored one.                                    *)
(***************************************************************************)
EntryOf(u, r) == [user |-> u, from |-> image, to |-> r.image, reason |-> r.reason]

Storable(r) == r.phase = "admitted" /\ ~r.stale /\ ~r.dryRun

AuditInv ==
  \A u \in Users :
    Storable(reqs[u]) /\ frozen /\ reqs[u].image # image =>
      EntryOf(u, reqs[u]) \in audit /\ reqs[u].reason # reason

(* After a write no admitted request can be stored. *)
LEMMA OutdatedNotStorable ==
  ASSUME NEW rs \in [Users -> Requests], NEW u \in Users
  PROVE  ~Storable(Outdated(rs)[u])
<1>1. Outdated(rs)[u] = IF rs[u].phase = "admitted" THEN [rs[u] EXCEPT !.stale = TRUE]
                                                    ELSE rs[u]
  BY DEF Outdated
<1>2. CASE rs[u].phase = "admitted"
  <2>1. rs[u] \in Pending
    BY <1>2, PendingRequest
  <2> QED BY <1>1, <1>2, <2>1 DEF Storable, Pending
<1> QED BY <1>1, <1>2 DEF Storable

(* Every step keeps AuditInv: a write of the claim outdates all admitted   *)
(* requests, and ValidateUpdate records what it admits.                    *)
LEMMA AuditInvStep ==
  ASSUME TypeOK, AuditInv, [Next]_vars
  PROVE  AuditInv'
<1>1. CASE WriteStatus
  <2>1. \A u \in Users : ~Storable(reqs'[u])
    BY <1>1, OutdatedNotStorable DEF WriteStatus, TypeOK
  <2> QED BY <2>1 DEF AuditInv, Storable
<1>2. CASE ReadClaim \/ QuerySLO \/ WriteFails \/ Restart \/ Deliver \/ PrometheusMoves
  <2>1. UNCHANGED <<image, reason, frozen, reqs, audit>>
    BY <1>2 DEF ReadClaim, QuerySLO, WriteFails, Restart, Deliver, PrometheusMoves, stored
  <2> QED BY <2>1 DEF AuditInv, Storable, EntryOf
<1>3. ASSUME NEW u \in Users, UserStep(u) PROVE AuditInv'
  <2>1. CASE SendUpdate(u) \/ RejectUpdate(u) \/ RefuseUpdate(u) \/ RetryUpdate(u)
    <3>1. UNCHANGED <<image, reason, frozen, audit>>
      BY <2>1 DEF SendUpdate, RejectUpdate, RefuseUpdate, RetryUpdate, stored
    <3>2. reqs'[u].phase # "admitted"
      <4>1. CASE SendUpdate(u)
        BY <4>1 DEF SendUpdate, TypeOK
      <4>2. CASE RejectUpdate(u) \/ RefuseUpdate(u)
        BY <4>2 DEF RejectUpdate, RefuseUpdate, TypeOK, NoRequest
      <4>3. CASE RetryUpdate(u)
        <5>1. reqs[u] \in Pending
          BY <4>3, PendingRequest DEF RetryUpdate, TypeOK
        <5> QED BY <4>3, <5>1 DEF RetryUpdate, TypeOK, Pending
      <4> QED BY <2>1, <4>1, <4>2, <4>3
    <3>3. \A v \in Users : v # u => reqs'[v] = reqs[v]
      BY <2>1 DEF SendUpdate, RejectUpdate, RefuseUpdate, RetryUpdate, TypeOK
    <3> QED BY <3>1, <3>2, <3>3 DEF AuditInv, Storable, EntryOf
  <2>2. CASE ValidateUpdate(u)
    <3>1. UNCHANGED <<image, reason, frozen>> /\ audit \subseteq audit'
      BY <2>2 DEF ValidateUpdate, stored
    <3>2. reqs[u] \in Pending
      BY <2>2, PendingRequest DEF ValidateUpdate, TypeOK
    <3>3. /\ reqs'[u].image = reqs[u].image /\ reqs'[u].reason = reqs[u].reason
          /\ reqs'[u].dryRun = reqs[u].dryRun
      BY <2>2, <3>2 DEF ValidateUpdate, TypeOK, Pending
    <3>4. Storable(reqs'[u]) /\ frozen /\ reqs[u].image # image =>
            EntryOf(u, reqs[u]) \in audit' /\ reqs[u].reason # reason
      BY <2>2, <3>3 DEF ValidateUpdate, Admissible, breakGlassReason, Recorded, EntryOf, Storable
    <3>5. \A v \in Users : v # u => reqs'[v] = reqs[v]
      BY <2>2 DEF ValidateUpdate, TypeOK
    <3> QED BY <3>1, <3>3, <3>4, <3>5 DEF AuditInv, Storable, EntryOf
  <2>3. CASE CommitUpdate(u) /\ reqs[u].dryRun
    <3>1. UNCHANGED <<image, reason, frozen, audit>> /\ reqs' = [reqs EXCEPT ![u] = NoRequest]
      BY <2>3 DEF CommitUpdate
    <3> QED BY <3>1 DEF AuditInv, Storable, EntryOf, NoRequest, TypeOK
  <2>4. CASE CommitUpdate(u) /\ ~reqs[u].dryRun
    <3>1. [reqs EXCEPT ![u] = NoRequest] \in [Users -> Requests]
      BY RequestSteps DEF TypeOK
    <3>2. \A v \in Users : ~Storable(reqs'[v])
      BY <2>4, <3>1, OutdatedNotStorable DEF CommitUpdate
    <3> QED BY <3>2 DEF AuditInv, Storable
  <2> QED BY <1>3, <2>1, <2>2, <2>3, <2>4 DEF UserStep
<1>4. CASE UNCHANGED vars
  BY <1>4 DEF vars, stored, AuditInv, Storable, EntryOf
<1> QED BY <1>1, <1>2, <1>3, <1>4 DEF Next

(* Only a committed update changes spec.image. *)
LEMMA ImageChanges ==
  ASSUME TypeOK, [Next]_vars, image' # image
  PROVE  \E u \in Users : CommitUpdate(u) /\ ~reqs[u].dryRun
<1>1. CASE ReadClaim \/ QuerySLO \/ WriteStatus \/ WriteFails \/ Restart \/ Deliver
           \/ PrometheusMoves \/ UNCHANGED vars
  BY <1>1 DEF ReadClaim, QuerySLO, WriteStatus, WriteFails, Restart, Deliver,
              PrometheusMoves, stored, vars
<1>2. ASSUME NEW u \in Users, UserStep(u)
      PROVE  CommitUpdate(u) /\ ~reqs[u].dryRun
  BY <1>2 DEF UserStep, SendUpdate, ValidateUpdate, RejectUpdate, RefuseUpdate,
              CommitUpdate, RetryUpdate, stored
<1> QED BY <1>1, <1>2 DEF Next

(* From AuditInv, a step that changes the image of a frozen claim is audited. *)
LEMMA AuditInvAudits ==
  ASSUME TypeOK, AuditInv, [Next]_vars
  PROVE  Audited
<1> SUFFICES ASSUME frozen, image' # image
             PROVE  \E e \in audit, u \in Users :
                      /\ reqs[u].phase = "admitted" /\ e.user = u
                      /\ e.from = image /\ e.to = image'
                      /\ e.reason = reason' /\ reason' # reason
  BY DEF Audited
<1>1. PICK u \in Users : CommitUpdate(u) /\ ~reqs[u].dryRun
  BY ImageChanges
<1>2. image' = reqs[u].image /\ reason' = reqs[u].reason /\ Storable(reqs[u])
  BY <1>1 DEF CommitUpdate, Storable
<1>3. EntryOf(u, reqs[u]) \in audit /\ reqs[u].reason # reason
  BY <1>2 DEF AuditInv
<1>4. PICK e \in audit : e = EntryOf(u, reqs[u])
  BY <1>3
<1>5. e.user = u /\ e.from = image /\ e.to = image' /\ e.reason = reason'
  BY <1>2, <1>4 DEF EntryOf
<1> QED BY <1>2, <1>3, <1>5 DEF Storable

(***************************************************************************)
(* No image reaches a frozen claim unaudited (ValidateUpdate under the API *)
(* server's optimistic concurrency), for any number of users, whatever the *)
(* order of admissions, commits, conflicts and status writes and however   *)
(* stale the reconciler's cache.                                           *)
(***************************************************************************)
THEOREM OverridesAudited == Spec => OverridesAreAudited
<1>1. Init => AuditInv
  BY DEF Init, AuditInv, Storable
<1>2. TypeOK /\ AuditInv /\ [Next]_vars => AuditInv'
  BY AuditInvStep
<1>3. TypeOK /\ AuditInv /\ [Next]_vars => [Audited]_vars
  BY AuditInvAudits
<1> QED BY <1>1, <1>2, <1>3, TypeCorrect, PTL DEF Spec, OverridesAreAudited

-----------------------------------------------------------------------------
(***************************************************************************)
(* A reading that settles the question is obeyed however old the claim the *)
(* reconcile read (evaluateSLO, freezeCondition and applyStatus): the only *)
(* theorem about the freeze that needs nothing of the cache.               *)
(***************************************************************************)
THEOREM SettledReadingsObeyed == Spec => []SettledReadingsDecide
<1>1. Init => SettledReadingsDecide
  BY DEF Init, SettledReadingsDecide, Unmeasured, Report
<1>2. TypeOK /\ SettledReadingsDecide /\ [Next]_vars => SettledReadingsDecide'
  <2> SUFFICES ASSUME TypeOK, SettledReadingsDecide, [Next]_vars
               PROVE  SettledReadingsDecide'
    OBVIOUS
  <2>1. CASE WriteStatus
    <3>1. found.remaining \in Int
      BY ReportFields DEF TypeOK
    <3>2. slo' = found /\ frozen' = freezeCondition(seen, found)
      BY <2>1 DEF WriteStatus
    <3>3. ASSUME found.measured, found.remaining <= 0 PROVE frozen'
      BY <3>2, <3>3 DEF freezeCondition
    <3>4. ASSUME found.measured, found.remaining >= UnfreezeBudget PROVE ~frozen'
      <4>1. ~(found.remaining <= 0) /\ ~(found.remaining < UnfreezeBudget)
        BY <3>1, <3>4 DEF UnfreezeBudget
      <4> QED BY <3>2, <3>4, <4>1 DEF freezeCondition
    <3> QED BY <3>2, <3>3, <3>4 DEF SettledReadingsDecide
  <2>2. CASE ~WriteStatus
    <3>1. UNCHANGED <<frozen, slo>>
      BY <2>2 DEF Next, UserStep, ReadClaim, QuerySLO, WriteFails, Restart, Deliver,
            PrometheusMoves, SendUpdate, ValidateUpdate, RejectUpdate, RefuseUpdate,
            CommitUpdate, RetryUpdate, stored, vars
    <3> QED BY <3>1 DEF SettledReadingsDecide
  <2> QED BY <2>1, <2>2
<1> QED BY <1>1, <1>2, TypeCorrect, PTL DEF Spec

-----------------------------------------------------------------------------
(***************************************************************************)
(* With a cache that has caught up before each reconcile, FreezeGate       *)
(* implements DeployPolicy: Reconcile's cached read, Prometheus queries    *)
(* and status write are one assessment, and webhook admission and the API  *)
(* server's commit are one change of image.                                *)
(***************************************************************************)
THEOREM PolicyImplemented ==
  ASSUME ~StaleReads
  PROVE  Spec => ImplementsPolicy
<1> DEFINE Inv == TypeOK /\ FreezeInv /\ AuditInv
<1>1. Init => Inv /\ Policy!Init
  <2>1. Init => FreezeInv /\ AuditInv
    BY FreezeInvInit DEF Init, AuditInv, Storable
  <2>2. Init => Policy!Init
    BY DEF Init, Policy!Init, Policy!Unmeasured, Unmeasured, Policy!Report, Report
  <2>3. Init => TypeOK
    <3> QED BY InitType
  <2> QED BY <2>1, <2>2, <2>3
<1>2. Inv /\ [Next]_vars => Inv'
  BY NextType, FreezeInvStep, AuditInvStep
<1>3. Inv /\ [Next]_vars => [Policy!Next]_(Policy!policyVars)
  <2> SUFFICES ASSUME TypeOK, FreezeInv, AuditInv, [Next]_vars
               PROVE  [Policy!Next]_(Policy!policyVars)
    OBVIOUS
  <2>1. CASE WriteStatus
    <3>1. Policy!Assess
      BY <2>1 DEF WriteStatus, FreezeInv, SeenIsStored, TypeOK, Policy!Assess,
            Policy!freezeCondition, freezeCondition, Policy!Reports, Reports,
            Policy!Statuses, Statuses, Policy!Scale, Scale,
            Policy!UnfreezeBudget, UnfreezeBudget
    <3> QED BY <3>1 DEF Policy!Next
  <2>2. CASE ReadClaim \/ QuerySLO \/ WriteFails \/ Restart \/ Deliver \/ PrometheusMoves
             \/ UNCHANGED vars
    BY <2>2 DEF ReadClaim, QuerySLO, WriteFails, Restart, Deliver, PrometheusMoves,
                stored, vars, Policy!policyVars
  <2>3. ASSUME NEW u \in Users, UserStep(u)
        PROVE  [Policy!Next]_(Policy!policyVars)
    <3>1. CASE SendUpdate(u) \/ RejectUpdate(u) \/ RefuseUpdate(u) \/ RetryUpdate(u)
      BY <3>1 DEF SendUpdate, RejectUpdate, RefuseUpdate, RetryUpdate, stored, Policy!policyVars
    <3>2. CASE ValidateUpdate(u)
      <4>1. UNCHANGED <<image, frozen, slo>> /\ audit' = audit \cup Recorded(u, reqs[u])
        BY <3>2 DEF ValidateUpdate, stored
      <4>2. CASE Recorded(u, reqs[u]) = {}
        BY <4>1, <4>2 DEF Policy!policyVars
      <4>3. CASE Recorded(u, reqs[u]) # {}
        <5> DEFINE e == EntryOf(u, reqs[u])
        <5>1. Recorded(u, reqs[u]) = {e}
          BY <4>3 DEF Recorded, EntryOf
        <5>2. e \in Entries
          <6>1. reqs[u] \in Pending
            BY <3>2, PendingRequest DEF ValidateUpdate, TypeOK
          <6> QED BY <3>2, <4>3, <6>1 DEF ValidateUpdate, Admissible, breakGlassReason,
                     Recorded, Entries, EntryOf, Pending, TypeOK
        <5>3. Policy!Record(e)
          BY <4>1, <5>1 DEF Policy!Record
        <5> QED BY <5>2, <5>3 DEF Policy!Next
      <4> QED BY <4>2, <4>3
    <3>3. CASE CommitUpdate(u) /\ image' = image
      BY <3>3 DEF CommitUpdate, Policy!policyVars
    <3>4. CASE CommitUpdate(u) /\ image' # image
      <4>1. frozen => \E e \in audit : e.from = image /\ e.to = image'
        BY <3>4, AuditInvAudits DEF Audited
      <4>2. image' \in Images
        BY NextType DEF TypeOK
      <4>3. Policy!ChangeImage(image')
        BY <3>4, <4>1 DEF CommitUpdate, Policy!ChangeImage
      <4> QED BY <4>2, <4>3 DEF Policy!Next
    <3> QED BY <2>3, <3>1, <3>2, <3>3, <3>4 DEF UserStep
  <2> QED BY <2>1, <2>2, <2>3 DEF Next
<1> QED BY <1>1, <1>2, <1>3, PTL DEF Spec, ImplementsPolicy, Policy!Spec
=============================================================================
