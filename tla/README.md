# Verification of Paved

Paved is a Kubernetes operator. A team writes one `ServiceClaim`; the
controller turns it into a Namespace and everything a service needs in it
(Rollout, Service, Ingress, HPA, NetworkPolicy, monitoring, storage), watches
the service's error budget, and freezes deploys when the budget is spent. This
directory holds TLA+ models of the operator, TLC configurations that check them
on small instances, and TLAPS proofs that most of the safety properties hold
for instances of any size.

Paths below are relative to the repository (`src/`). `PROJECT.json` maps every
definition to the lines it models.

## 1. Inventory

### Components

**Reconciler** (`internal/controller/serviceclaim_controller.go`, `drift.go`,
`apply.go`). No state of its own: one worker takes claim keys from a work queue
and runs `Reconcile`. A reconcile reads the claim from the informer's cache,
adds the finalizer, applies the built objects one server-side apply after the
other, reads the Rollout past the cache, evaluates SLO and storage and applies
the status. A deleted claim goes through `finalize`: its Namespace is deleted,
and the finalizer is released when the Namespace is gone.
*Hard:* every decision is made from a cached claim while users, other
controllers and earlier reconciles write; any call may fail; the process may
stop anywhere.
*Correct when:* claims converge, deletion finishes and orphans nothing, drift
is reported when and only when somebody else changed an object, the status
describes the claim it is on, and claims that share a Namespace don't take it
from one another for good.

**SLO evaluation and deploy freeze** (`freeze.go`, `slo_status.go`,
`internal/slo/budget.go`, `prometheus.go`). State: `DeploysFrozen` and the SLO
report in the claim's status. Two Prometheus queries give the error ratio over
the window and the last hour; the budget that is left freezes deploys at 0 and
unfreezes them at 5 %.
*Hard:* missing, failing and infinite readings; the hysteresis lives in a
status that is read through a cache.
*Correct when:* the freeze is the hysteresis over the readings and an outage
moves nothing.

**Admission webhook** (`internal/webhook/v1alpha1`). Stateless: asked about the
stored claim and an update, it denies an image change on a frozen claim unless
the update sets a break-glass reason, and then records a `BreakGlassUsed`
Event.
*Hard:* it decides before the API server commits; conflicts, retries and dry
runs come in between.
*Correct when:* no image is stored on a frozen claim without its Event.

**Object builders** (`internal/builders`). Pure functions from a claim to
objects: which objects a tier gets and in what order (`set.go`), replicas and
autoscaling (`rollout.go`, `hpa.go`), the path to a pod (`service.go`,
`ingress.go`, `networkpolicy.go`, `servicemonitor.go`, `pdb.go`), storage
(`storage.go`), alerts, dashboard and runbook text.
*Hard:* nothing is pruned, so objects built for different specs meet in the
cluster; the HPA and Argo Rollouts write to, or run pods from, the same
objects.
*Correct when:* any mixture of old and new objects still serves and does not
over-expose.

**Storage** (`internal/controller/storage.go`, `internal/builders/storage.go`,
`cmd/main.go`). ACK creates a role and a bucket in AWS from objects the
controller applies; the reconcile reads both back.
*Hard:* AWS outlives claims and clusters; two reads that are not atomic.
*Correct when:* data outlives the claim, roles don't, and `StorageReady` is
true of something that was there.

**SLO rules, alerts and canary analysis** (`internal/slo/rules.go`,
`alerts.go`, `internal/builders/prometheusrule.go`, `analysistemplate.go`,
`rollout.go`). Generated rules that Prometheus and Argo Rollouts run: error
ratios over seven windows, four alerts that compare two of them, a measurement
that aborts a canary above 5 %.
*Hard:* scrapes, two groups of rules and measurements each have their own
clock; counters start over with every process; a ratio describes the past.
*Correct when:* a bad release is stopped before it serves alone, no budget
burns without an alert, and alerts and aborts end with their cause.

**Manager process** (`cmd/main.go`): wiring, caches limited to managed objects,
the check whether the cluster is linked to AWS. **API types** (`api/v1alpha1`).
**Demo services** (`services/shortlink`, `examples/testsvc`). **Scripts and
infrastructure** (`hack`, `infra`, `deploy`).

### Interactions

```
 users --update--> API server --admission--> webhook --Event--> audit
                      |  ^                      (reads DeploysFrozen)
     watch (lagging)  v  | server-side apply, status
                   reconciler --query--> Prometheus
                      |
        Namespace, Rollout, HPA, Service, ... , ACK Role and Bucket
              |          |         |                    |
       ns controller   Argo       HPA              ACK --> AWS
```

The parties meet only in stored objects: the claim's spec, status and
finalizer, the Namespace's phase, the Rollout's replica count and status, and
the ACK objects' conditions. The models interleave the parties at those
reads and writes.

## 2. Modules

| Module | What it is |
|---|---|
| `Conditions` | the pure decisions of a reconcile: error-budget arithmetic, `evaluateSLO`, `freezeCondition`, `readyCondition`, `storageCondition` |
| `Builders` | what the builders make of a claim, reduced to the fields the properties tell apart |
| `FreezeGate` | the deploy freeze of one claim: reconciler, informer, Prometheus, webhook, API server, users |
| `DeployPolicy` | the abstract freeze: assess the budget, change the image, record an override |
| `FreezeGateProofs` | the TLAPS proofs about `FreezeGate`, and that it implements `DeployPolicy` |
| `Reconciler` | the whole reconcile and finalize of one claim name, one step per API call |
| `ClaimLifecycle` | the abstract life of a claim and its Namespace, which `Reconciler` implements |
| `SharedNamespace` | claims of one name in several namespaces, which share `svc-<name>` and its label-filtered cache |
| `Scaling` | the reconcile projected onto the replica count and the HPA |
| `Exposure` | the reconcile projected onto the objects traffic depends on, with canaries |
| `Storage` | the reconcile projected onto the ACK objects, with AWS and cluster rebuilds |
| `Release` | a service's releases through canary, requests, scrapes, recording rules, alerts and analysis |
| `SharedNamespaceProofs`, `ReconcilerProofs`, `ScalingProofs`, `ExposureProofs`, `StorageProofs`, `ReleaseProofs` | the TLAPS proofs about each of these |
| `InformerLemmas` | what the proofs use of queues: a watch's last version and its delivery, and what the versions of a claim tell of its finalizer |
| `MC...` | the constants TLC needs for each |

`Conditions` and `Builders` hold no state and are shared: the state machines
extend them. Each state machine of the reconcile keeps all of the reconcile's
control that its objects take part in and drops the other objects; all but
`SharedNamespace` read the claim from a cache that lags. What is dropped does
not feed back: `freezeCondition` depends on the previous freeze and the SLO
report only, the builders on the claim's spec and the link to AWS only, and an
apply of one object does not read another.

Units: ratios are integers in ten-thousandths and objectives in hundredths of
a percent, so the arithmetic of `budget.go` is exact here; the floating-point
rounding of the code is represented by readings at, just above and just below
each threshold.

### FreezeGate

| Model | Code |
|---|---|
| `image`, `reason`, `frozen`, `slo` | the stored claim: `spec.image`, the break-glass annotation, `DeploysFrozen`, the SLO report |
| `cached`, `watch` | the informer's copy and the versions on their way to it |
| `ReadClaim`, `QuerySLO`, `WriteStatus`, `WriteFails` | `Reconcile`, cut at its reads and writes |
| `SendUpdate`, `ValidateUpdate`, `RejectUpdate`, `RefuseUpdate` | an update and the webhook (`failurePolicy=fail`) |
| `CommitUpdate`, `RetryUpdate` | the API server's optimistic concurrency |
| `exhausted` | history: what the last settling reading said |

`StaleReads` chooses whether a reconcile may start before the cache has caught
up with the controller's own last write. controller-runtime does not exclude
that: the status write causes no event that queues the claim (`claimChanged`
drops it), but an edit, a managed object's event or an error's retry may queue
the claim at any time.

### Reconciler

`pc` walks through the calls of a reconcile: `Begin` (cached read, validation),
`AddFinalizer`, `ApplyNext` per object or `ApplyFails`, `ReadRollout`,
`WriteStatus`; or `Finalize`. `queued` stands for the key in the work queue, due
now or after `RequeueAfter`. `todo` holds the places of `Build` that are still
to be applied, and the first of them (`First`) is next. The informers of claims
and Namespaces lag behind the API server independently. Users create, edit and
delete the claim; others edit or delete managed objects and the Namespace; the
namespace controller empties a terminating Namespace; Argo Rollouts reports.
`linked` is `r.Storage`: every process reads the cluster's link to AWS when it
starts, and a restart may find it made or cut, which changes what `Build`
returns for a claim with storage. What ACK reports of the storage objects is
left open (`StorageReports`); `Storage` is about that. `tampered` and `innocent`
are history: what is not as it was last applied, because others changed it or
the link did, and what an apply changed that was not among those.

Both `applyFinalizer` and `applyStatus` are server-side applies that name the
claim and carry neither its UID nor a resource version: they land on whatever
claim has the name when they arrive, and are rejected when there is none.

A spec that can't be built is one whose SLI can't be turned into a rule
(`Buildable`): an empty list of good statuses, or a latency threshold that is
not a positive duration. The schema lets both through.

`ClaimLifecycle` is what the finalizer promises with all of that taken away: a
claim is held before its Namespace is built, and let go only once the Namespace
is gone. `ClaimPhase` maps the stored claim to it.

### SharedNamespace

The claims of one name, one per home namespace, and the one worker that
reconciles them in turn. A reconcile is cut at the finalizer and the apply of
the Namespace, whose labels it takes by force; `Finalize` decides from the
cached Namespace. `Visible` is `managedObjectCache`: a Namespace without
managed-by=paved is not in the cache. Others strip labels or delete the
Namespace. A reconcile reads its claim as it is stored: the lag of the claim
cache, and everything inside the Namespace, is `Reconciler`'s. `NsLag` chooses
whether `Finalize` may decide from a Namespace version that is not the newest.

### Release

An interval of 30 s is one `Serve` (the rollout moves on, requests are answered
and counted by the processes) followed by `Scrape`, `Record`, `Alert` and
`Measure` in an order that is fixed per behaviour and different between them.
The two rule groups of `BuildPrometheusRule` are separate steps because
Prometheus evaluates groups at offsets of their own. A process exposes the
series `newHandler` created and those its requests create; Prometheus sees what
a series gains after its first sample. `recorded` and `judged` name the last
scrape the recording rules and the alerts have seen. `calm` is history.
`QueryFails` is a measurement Prometheus does not answer; Argo Rollouts aborts
at the fifth in a row (`consecutiveErrorLimit`, its default).

### Scaling, Exposure, Storage

In all three a reconcile reads `view`, the cached claim, which `watch` brings up
to date an edit at a time, and any apply may fail or be cut off by a restart.
`Scaling` models field ownership of `spec.replicas` under server-side apply:
setting it takes it, leaving it out gives it up. `Exposure` keeps the labels,
selectors, ports and peers the builders compute and defines the paths to a pod
over whatever objects exist; the stable and the canary pods carry the template
they were started from. `settled` is history: everything was applied for the
tier and port that the claim has, that its cached version has, and that every
version in between has, and none of them changed since. Without the latter two a
reconcile could still read, after an edit there and back, the port in between.
`Storage` keeps of a claim its phase (none, without finalizer, held, being
deleted) and StorageReady, reads the claim and the Namespace from caches that
lag independently (`NsLag` as above), and keeps ACK's two annotations (adoption and
deletion policy) as the builders set them, the state ACK reports, what AWS has,
and whether a bucket holds data. In these two, as in `Reconciler`, `todo` holds the
places of `Build` still to be applied, here of the kinds kept; in `Storage` it
then holds the places of `StorageTypes` still to be read.

## 3. Runs

Every run finishes in at most a few minutes with two workers; the largest,
`Release`, has 3.5 million states.

| Run | Expect | Properties | What it shows |
|---|---|---|---|
| `FreezeFresh` | pass | `TypeOK`, `FreezeTracksBudget`, `LastDecisionStands`, `OverridesAreAudited`, `ImplementsPolicy` | with a cache that has caught up, the freeze is exactly the hysteresis, outages move nothing, every override is audited, and the whole implements `DeployPolicy` |
| `FreezeStale` | pass | `SettledReadingsDecide`, `ExhaustionFreezes`, `RecoveryUnfreezes` | what stays true with stale reads: settling readings are obeyed, and lasting exhaustion or recovery is reached |
| `FreezeOutage` | violation | `LastDecisionStands` | finding 1 |
| `ReconcileSafe` | pass | `TypeOK`, `NoFalseDrift`, `TemplateBeforeRollout`, `ReadyMeansRunning`, `ObservedGenerationSound` | drift, order of applies and status under edits, tampering, a fault, or a restart that may find the link to AWS changed |
| `ReconcileLive` | pass | `FinalizerGuardsNamespace`, `ImplementsLifecycle`, `DeletionCompletes`, `EventuallyConverges` | nothing is orphaned, `ClaimLifecycle` is implemented, deletion ends, claims converge, across recreation |
| `ReconcileOrphan` | violation | `FinalizerGuardsNamespace` | finding 2 |
| `Shared` | pass | `TypeOK`, `OwnerHoldsNamespace`, `EachDeletionCompletes`, `LastClaimOwnsNamespace` | two claims of one name: a labelled Namespace is held, deletions end, the last claim gets the Namespace |
| `Scaling` | pass | `HPABoundsValid`, `NeverFight`, `PublicFloor` | the HPA's bounds are valid, applies for a tier with an HPA leave its count alone, public claims reach two replicas |
| `Exposure` | pass | `TypeOK`, `OnlyPublicIsPublic`, `KeepsServing` | leftovers expose nothing, pods on the claim's port stay served, scraped and budgeted |
| `Storage` | pass | `TypeOK`, `BucketOutlivesClaim`, `RoleGoesWithClaim`, `ReadyMeansCreated`, `StorageSettles`, `StorageReleased` | storage across deletion, failure, restart and rebuilt clusters, with a claim cache that lags and a Namespace cache that has caught up |
| `Release` | pass | `TypeOK`, `AnswersAreCounted`, `BadReleaseStopped`, `NoSilentBurn`, `AlertsClear`, `AbortHasCause` | bad releases are stopped in the canary, no budget burns unnoticed, alerts end with their cause and aborts have one, also when Prometheus leaves measurements unanswered |
| `ReleaseFix` | violation | `FixNotTrapped` | finding 3 |

### Bounds, and why they are enough

- *Freeze.* Readings on every side of both thresholds, exactly on them, and
  every way a reading can be missing (`AllSamples`); the four that differ in
  what they do to the freeze (`FewSamples`) where users take part. Two images
  and two reasons suffice for a reused reason and for an image changed back.
  One user has one request in flight; the race between a request and the freeze
  needs no more, and the theorem `OverridesAudited` covers any number of users.
  `MaxLag` of 2 lets a reconcile read a version two writes old.
- *Reconciler.* Two generations (an edit during a reconcile), two claims of one
  name where recreation matters, and one tampering, fault or restart in each
  behaviour (`MaxTroubles`). The claim has storage, and the first process is
  linked to AWS or not. `MaxLag` of 2 undelivered versions in `ReconcileSafe`,
  one in `ReconcileLive`.
  Argo Rollouts reports Healthy in `ReconcileSafe`, where being Ready matters,
  and Degraded in `ReconcileLive`: a claim converges, and can be deleted, though
  its service never gets healthy.
  `Tracked` names the objects whose content is followed: the Rollout always,
  the AnalysisTemplate where their order matters, and the Role, which comes and
  goes with the link. Every other object behaves like one of the last two:
  applied, edited, deleted, read by nothing.
- *Shared.* Two homes, four claims created (each comes back once), two
  tamperings, one restart. `NsLag` is FALSE: with TRUE, `OwnerHoldsNamespace`
  fails for the reason of finding 2.
- *Release.* 14 intervals: a canary takes 8, the 5m window is its real 10, and
  the longer windows are cut to 11 to 13 in their order, so that each both
  remembers and forgets within a run. One image change, to a good or a bad
  release; one interval of total failure or one restart; and five unanswered
  measurements, which may be one row of them that aborts, or gaps anywhere. Several
  releases after one another are left to the theorems, which cover all six
  properties. The claim's objective is 99.5 %, for which the four thresholds lie between 0.5 % and
  7.2 %. Ten requests an interval; one version's pods are one process, whose
  restart loses more than a pod's would. At 14.4 times the budget the fast page
  can never fire for objectives below about 93 %, where the threshold exceeds 1.
- *Scaling.* All tiers, `min` 1 or 3 and `max` 1 or 4: below, at and above each
  other and the public floor. One undelivered edit: with the edit a reconcile
  has read already, that is three specs in play.
- *Exposure.* A public claim with three combinations of owner, image and port
  (the owner is edited alone, the port with the image), and one spec of each
  other tier; one undelivered edit.
- *Storage.* Two claims after one another; a deletion by somebody else (of an
  ACK object or the Namespace), a failed call, a restart or a rebuilt cluster in
  each behaviour (`MaxTroubles`), and one undelivered version of the claim and of
  the Namespace. Environments with nothing set, everything right, one setting
  missing and one wrong.

Deadlock is not checked where a system may come to rest: users and faults are
bounded, so a claim that converged and was deleted leaves nothing to do.

### Fairness

- A reconcile that began takes its next step, and a queued claim is taken up:
  `Reconcile` returns after finitely many calls with timeouts, and the work
  queue hands out every key. Successful reconciles requeue themselves every
  minute, failed ones are retried. `FreezeGate` needs strong fairness of the
  query and the write, since a restart or a failed write may undo progress
  without end: the controller is not killed in *every* reconcile and not
  *every* write is refused.
- `SharedNamespace` needs strong fairness of taking up each claim, since the
  worker is busy with the other one in between: the work queue is first in,
  first out.
- `Scaling` needs strong fairness of its two applies, since either may fail any
  number of times: not *every* try fails.
- Watches deliver (`Deliver`, `DeliverClaim`, `DeliverNamespace`).
- The namespace controller, ACK and the HPA's enforcement of its bounds get to
  their work: they are control loops of the same kind. `AckFails` and Argo
  Rollouts get no fairness, nor do users.
- `StorageSettles` is stated for clusters that stay linked and AWS accounts
  that refuse no creation for good; `StorageReleased` for a controller that
  stays up.

## 4. Findings

1. **An outage can undo a freeze** (`FreezeOutage`). `freezeCondition` takes the
   previous decision from the cached claim. A reconcile that starts before the
   last status write reached the cache, with Prometheus down, writes the older
   decision back. `DECISIONS.md:476` says an outage "never freezes a healthy
   service and never unfreezes an exhausted one". The next measured reading at
   0 or at 5 % and above repairs it (`SettledReadingsDecide`).
2. **A Namespace can outlive its claim** (`ReconcileOrphan`). `finalize` reads
   the Namespace from the cache. When the claim is deleted right after its
   first reconcile created the Namespace, and the Namespace informer lags, the
   read is NotFound and the finalizer is released. With an up-to-date Namespace
   cache (`NsLag = FALSE`) the property holds. For a claim with storage the same
   read leaves the AWS role behind: the Role object lives on in the Namespace
   nobody deletes, while `README.md:131` says "Deleting a claim removes its role".
   `RoleGoesWithClaim` fails in the same way when `NsLag` is TRUE.
3. **A fix can be trapped by the failures it fixes** (`ReleaseFix`). The canary
   analysis reads the error ratio of the whole service, so while the version
   that serves fails, or for 5 minutes after, the canary of a release that
   fails nothing is aborted. `README.md:77` says the ratio "aborts a canary
   that makes it worse". `AbortHasCause` is what does hold: an abort has
   failures in its window, the service's if not the canary's, or five
   measurements in a row that Prometheus did not answer (`DECISIONS.md:636`).

Observed while modelling, with no run of their own; the passing runs state what
holds instead:

- `applyStatus` carries no UID. A claim deleted before it had its finalizer and
  created again gets the status of the first one's reconcile, and its first
  apply may be reported as `DriftCorrected` (`DECISIONS.md:416`). `ReconcileSafe`
  checks `NoFalseDrift` for claims that are not recreated.
- A claim moved to `batch` keeps its HPA and gets `spec.replicas`: the
  controller and the leftover HPA fight (`DECISIONS.md:215`). `NeverFight` is
  about tiers with an HPA.
- `finalize` judges the labels of the *cached* Namespace (`belongsTo`) and deletes
  it by name, without UID or resource version. Another claim of the name may have
  relabelled it since, and loses it and everything in it, although the comment of
  `finalize` says "A namespace that is not labelled as this claim's is never
  deleted" (`serviceclaim_controller.go:245`). It takes two claims and no fault.
  An up-to-date cache narrows the race to the time between the read and the
  deletion; only a precondition on the deletion would close it. No property
  states it: it is false of the code, and with `NsLag` FALSE it would restate the
  guard.
- After a port edit the NetworkPolicy names the new port only
  (`servicePortOnly`), so pods of the earlier version are cut off. When the
  canary that brought the port is aborted these are the stable version, of which
  `DECISIONS.md:624` says that it "keeps serving". `KeepsServing` is about pods on
  the claim's port.
- A restart that finds the link to AWS made or cut builds other objects for a
  claim with storage, and their first apply is reported as `DriftCorrected`
  although nobody else changed anything. `NoFalseDrift` counts it as a cause. A
  controller version with other builders has the same effect, as
  `DECISIONS.md:639` says; the models have one set of builders.
- One unanswered measurement is enough to leave a bad canary unjudged if it is
  the last one before promotion: `BadReleaseStopped` excludes exactly that.
- Series at zero make the first failure after the first *scrape* of a process
  count; what it answers before that scrape is still not seen
  (`DECISIONS.md:566`).
- An alert may outlast "one short window" (`alerts.go:108`) by one evaluation,
  because recording rules and alerts are groups with offsets of their own:
  `AlertsClear` allows it.
- Two live claims of one name relabel their Namespace in turn without end.
  `DECISIONS.md:364` names the missing enforcement.

## 5. Proofs

A theorem holds for every value of the constants its module's `ASSUME`s allow:
any number of users, specs, claims, edits, faults, restarts and intervals, and
any `MaxLag` of the caches the module has: the claim's everywhere but in
`SharedNamespace`, whose reconciles read the claim as stored, and the
Namespace's where `NsLag` allows it. Where a theorem needs more, the table says
so. Each property that the table names after `Spec =>` is also checked on a
small instance by a run of section 3.

| Module, theorem | Statement | Assumption |
|---|---|---|
| `FreezeGateProofs` `TypeCorrect` | `Spec => []TypeOK` | |
| `OverridesAudited` | `Spec => OverridesAreAudited` | |
| `SettledReadingsObeyed` | `Spec => []SettledReadingsDecide` | |
| `FreezeCorrect` | `Spec => []FreezeTracksBudget` | `~StaleReads` |
| `OutageKeepsDecision` | `Spec => LastDecisionStands` | `~StaleReads` |
| `PolicyImplemented` | `Spec => ImplementsPolicy` | `~StaleReads` |
| `ReconcilerProofs` `TypeCorrect` | `Spec => []TypeOK` | |
| `LifecycleImplemented` | `Spec => ImplementsLifecycle` | `~NsLag` |
| `NamespaceGuarded` | `Spec => []FinalizerGuardsNamespace` | `~NsLag` |
| `TemplateFirst` | `Spec => []TemplateBeforeRollout` | the AnalysisTemplate is tracked |
| `ObservedGeneration` | `Spec => ObservedGenerationSound` | `MaxClaims = 1` |
| `ReadyRan` | `Spec => []ReadyMeansRunning` | `MaxClaims = 1` |
| `DriftIsReal` | `Spec => []NoFalseDrift` | `MaxClaims = 1` |
| `SharedNamespaceProofs` `TypeCorrect` | `Spec => []TypeOK` | |
| `NamespaceHeld` | `Spec => []OwnerHoldsNamespace` | `~NsLag` |
| `ScalingProofs` `BoundsAlwaysValid` | `Spec => []HPABoundsValid` | |
| `NeverFights` | `Spec => NeverFight` | |
| `FloorStages` | the steps of `PublicFloor`, one by one | |
| `FloorCalls` | below the floor, the HPA has a step to take | |
| `ReleaseProofs` `TypeCorrect` | `Spec => []TypeOK` | |
| `Counted` | `Spec => []AnswersAreCounted` | |
| `BurnNoticed` | `Spec => []NoSilentBurn` | |
| `AbortsHaveCause` | `Spec => AbortHasCause` | |
| `AlertsStop` | `Spec => []AlertsClear` | |
| `BadStopped` | `Spec => BadReleaseStopped` | a 5m window of 10 scrapes, `Loud` |
| `StorageProofs` `TypeCorrect` | `Spec => []TypeOK` | |
| `BucketStays` | `Spec => BucketOutlivesClaim` | |
| `RoleGoes` | `Spec => []RoleGoesWithClaim` | `~NsLag` |
| `ReadyWasRead` | `Spec => []ReadyMeansCreated` | |
| `ReleaseStages` | the steps of `StorageReleased`, one by one | |
| `DataBlocksNothing` | ACK can see to every object on its way out | |
| `ExposureProofs` `TypeCorrect` | `Spec => []TypeOK` | |
| `PublicOnly` | `Spec => []OnlyPublicIsPublic` | |
| `ServingKept` | `Spec => []KeepsServing` | |

The assumptions are needed. Without `~StaleReads`, `FreezeOutage` is a
counterexample, and without `~NsLag`, `ReconcileOrphan` is: both are findings. The
behaviour of `ReconcileOrphan`, with ACK's creation of the role in it, also refutes
`RoleGoesWithClaim` without `~NsLag`.
`MaxClaims = 1` says that the claim is not deleted and created again under its
name: a status carries no UID, so the second claim can get the first one's (see
the observations in section 4). The runs check the three properties under the
same assumption. `ContentsAssumption` and `NoClaimAssumption` of `Reconciler`,
`MarkersAssumption` of `Storage`, `NoneAssumption` of `Exposure` and
`NoHPAAssumption` of `Scaling` say that the model values that stand for a missing
object or claim are not objects or claims.

### Arguments

*Freeze.* `FreezeTracksBudget` is not inductive: a status write decides from
`seen`, which was read some steps earlier from `cached`. `FreezeInv` adds
`NewestIsStored` (the newest version on its way to the informer, or the cached
one if none is, carries the stored decision) and `SeenIsStored` (during a
reconcile `seen` equals the stored decision; nobody else writes it, and with
fresh reads the read started from it). With them a write computes
`freezeCondition(exhausted, found)`, which `Settled` follows case by case.
`OutageKeepsDecision` and the refinement's `Assess` step rest on the same
invariant. The arithmetic is in lemmas about `Remaining`, `measuredReport` and
`evaluateSLO`: the share that is left is clamped to its range whatever
Prometheus answers.

*Audit.* `OverridesAreAudited` is an action property: when an image is stored
on a frozen claim its Event must exist already. `AuditInv` says of every
request that could be committed now (admitted, not stale, no dry run) that it
keeps the image, or the claim is open, or its Event for exactly this change is
recorded and its reason is new. Every write of the claim marks the admitted
requests stale, which is why the property survives a freeze that starts between
admission and commit.

*`DeployPolicy`.* It has the same `image`, `frozen`, `slo` and `audit`. A status
write maps to `Assess`, an admission that records to `Record`, a commit that
changes the image to `ChangeImage`, and all else to a stutter.

*Finalizer.* A reconcile applies the Namespace on the strength of a claim it
read from a cache, possibly of a claim that has been deleted and created again.
`HoldInv` looks at every version between the cache and the store. Either the
finalizer has not been released since the cached version (`Unreleased`: held
versions are followed by held or deleted ones), or it may have been and no
version is held again (`NotHeldAgain`). A reconcile that is about to add the
finalizer is in the first case, one that finalizes in the second, and one that
applies has a claim with a finalizer. Which of the two holds changes only when
the one worker reads or writes, which is why one worker per claim matters.
What a delivery, a write and a read do to the two descriptions are the lemmas of
`InformerLemmas`, which `StorageProofs` uses as well. `HoldInv` needs no
assumption about the Namespace cache; the refinement does, at the step that
releases the finalizer.

*`ClaimLifecycle`.* `ClaimPhase` of the stored claim and `ns` are its variables.
`FinalizerGuardsNamespace` is proved of the abstract specification's steps and
carried over by the refinement.

*Order of applies.* `TemplateInv`: while a reconcile applies a tier with canary
analysis, the template is there once its place is no longer to be done. `BuildOrder`
is the lemma about `Build` that puts its place before the Rollout's.

*Versions of a claim.* `GenerationInv` puts the versions in the cache, on their
way and in the store in one order: generations only grow, and no status
describes a generation newer than the cached one or than the one the running
reconcile read. So a status is never older than what it replaces, although it is
computed from a cache that lags.

*Ready.* `RunInv` follows what ran: what Argo Rollouts reports of the current
generation is about the Rollout there is, which is the reconcile's own once it
has applied it; what the reconcile read is that or somebody's edit; and each
version's Ready, if it is about the version's generation, came from there.

*Drift.* `DriftInv`: every version whose status says it is in sync at its
generation has all its objects as its spec wants them, unless others touched
them or the link changed since; and so has a reconcile that has been through them
without a failure. A reconcile of such a claim therefore changes nothing but what
others touched and what the link asks for anew. A restart that changes the link
moves what is wanted of the Role, the Bucket and the Rollout, of a claim with
storage, and of nothing else; and it lists the claim anew, so that the stored
version is the only one left.

*Shared Namespace.* `OwnerInv` adds that a reconcile past the finalizer works on
a claim that is held, and that the newest version on its way to the cache is
what the cache will show of the stored Namespace, labels and all.

*Scaling.* `ScalingInv`: bounds in the cluster are a builder's, from some spec;
a count the HPA chose is not 0, which would be taken for one that is not set.
`FloorStages` is the safety half of `PublicFloor`. While a claim stays public it
goes through five stages: the cache has, and has yet to get, nothing but the
public tier (`CaughtUp`), no reconcile works from an earlier one (`ReadPublic`),
the controller does not hold the count (`HandedOver`), the HPA has a public
claim's bounds (`Bounded`), there are two pods (`AtFloor`). No step loses a
stage, whatever edits of min and max come in between and whichever applies fail,
and the deliveries, `Read`, `ApplyRollout`, `ApplyHPA` and `Scale` each lead to
the next. `FloorCalls` says that the HPA's controller, which the last stage
waits for, has a step to take.

*Release.* `ScheduleInv` is the invariant the rest leans on: for each of the
orders of scrape, recording rules and alerts in an interval, how far each is
behind what it reads, before and after its turn. `SeriesInv` (every series
exists from the start) gives `AnswersAreCounted`. `TallyInv` (the counters never
go back, and gain no more failures than requests) and `BurnInv` (whatever was
above a threshold at an earlier evaluation was alerted) give `NoSilentBurn`: at
the first evaluation at which the total is above an alert's threshold, the part
before either window is not, so both windows are, and no evaluation skips a
scrape. That takes windows of at least two intervals. `FreshInv` (uncounted
failures are of this interval) and `QuietInv` (the count of failures has not
moved since the scrape before the calm) show that a window no longer than the
calm has no failures in it, given how far `recorded` and `judged` may be behind:
`AbortHasCause`, whose other cause `QueryFails` counts up, and `AlertsClear`,
the latter with `FiringInv` (an alert fires over failures in its short window).

*A bad release.* `BadStopped` needs to know how much of the window a canary fills
before it is promoted. A canary has eight intervals (`Age`), four at 20% and four
at 50% of the traffic; its first scrape only makes its series known. `Failures(n)`
is what the others should have added by its nth scrape. `CanaryInv`: what was
counted since the scrape before the canary (`Base`), plus one 50% share for every
trouble so far (`Lost`), is at least that; and either the next scrape will count
the interval in full (`Sound`: the series is known and the requests are there) or
the share it may miss is covered already. So a restart between requests and scrape,
or between scrape and requests, costs one share, and a second one in the same
interval costs nothing that was not set aside. On the other side, `LoadInv` and
`GrowthInv` say that a scrape counts no more than an interval's traffic, which
bounds a window of ten scrapes (`WindowTotal`). At the last measurement, wherever
it falls, `ScheduleInv` puts at least six scraped intervals of the canary into the
window that the rule recorded last (`CanaryCaught`), and `Loud` is the inequality
that is left: 3 shares of 20% and 2 of 50%, less a share for each trouble, are
above 5% of nine intervals. So the last measurement, if it is answered, aborts; and
one that is answered sets `errors` to 0, so a promotion with `errors = 0` has had
its last one answered. `LoudEnough` shows that 5 requests in 30s are enough
with one trouble, and 15 with two. Below that the shares round down to nothing;
and with a restart in every interval no failure is ever counted, so a bound on the
troubles is needed too.

*Storage.* `BucketInv`: every Bucket object tells ACK to keep the bucket, as
`BuildStorageBucket` made it and nothing changes; and only ACK takes anything
out of AWS. For the role, `HoldInv` follows the versions of the claim between
the cache and the store as in *Finalizer*: a reconcile that applies, however old
the claim it read, works for one that is held or being deleted. `HomeInv` says
that a Namespace has such a claim; it is here that the Namespace cache must be up
to date, when finalize lets the claim go. `RoleInv` says that a Role object may
adopt, does not retain and lives in the Namespace, and that a role in AWS has an
object ACK has taken on (in the first cluster; a rebuilt one inherits roles
without objects). So while the role is there its object is, hence the Namespace,
hence the claim. For StorageReady, `SyncInv` says that what ACK reports as created
is in AWS unless it is being deleted, and `ReadInv` that the reads come in order,
each at its place, and that what was read as synced was seen; `storageCondition`
then has nothing that blocks only if both were. `ReleaseStages` is the safety half
of `StorageReleased`, for any lag of both caches. While a claim stays deleted: the
cache shows that it is (`CaughtUp`), no reconcile is left that would apply
(`Noticed`), its Namespace is on its way out (`Closing`), is empty (`Emptied`), is
gone (`Closed`). Before `Noticed` a reconcile may still apply the objects of the
claim as it was; once the cache has caught up, none begins on it any more. finalize
moves on where the Namespace cache has caught up, which the deliveries see to.
No fault, restart or tampering loses a stage or
brings back an object, each ACK object has at most two steps left, which
`RemoveContent` and `AckDeletes` use up, and in `Closed` the only thing finalize
can do, unless its call fails, is to let the claim go. `DataBlocksNothing` is
`BucketInv` again: AWS deletes no bucket with data in it, but is never asked to.

*Exposure.* The properties relate pods of several versions to objects of several
specs, half of them applied. `ProgressInv`: at each place a reconcile has been
through, the object is what it read. `AppliedInv`: while every object was last
applied for a spec, the policy is that spec's, also during a later reconcile,
which must have read the same spec. `SettledInv`: while tier and port are
settled, the claim, the cache and every version on its way to it agree on them,
each object that the tier needs is one that some spec with this tier and port
makes, not necessarily the same one, and a reconcile in progress read this tier
and port too. `BuildHas` says which kinds the tier needs, from the parts `Build`
puts together. The rest is about selectors: `SelectorLabels` names nothing a
spec can change, so every Service, monitor and budget matches every pod.

### Only model-checked

- Liveness: `ENABLED` and fairness are beyond the proof system's backends. Of
  `PublicFloor` and `StorageReleased` the stages are proved, and TLC shows that
  fairness leads through them. `ExhaustionFreezes`, `RecoveryUnfreezes`,
  `EventuallyConverges`, `DeletionCompletes`, `EachDeletionCompletes`,
  `LastClaimOwnsNamespace` and `StorageSettles` are TLC's alone.

## 6. Not modelled

- Texts: messages, Events' wording, dashboard and runbook, IAM policy
  documents, rounding for display. Nothing reads them back.
- Names and constants per claim: hosts, probes, resources, security contexts.
- Latency SLIs in `Release`: their rules have the same shape over a histogram.
  The extrapolation of `rate()`, traffic that varies, and a Prometheus that
  stops scraping and evaluating as well, rather than not answering a query.
- Controller upgrades that change the builders, and another AWS account at a
  restart. In `Exposure` the link to AWS: it changes the pods' identity, and
  neither their labels nor their port.
- The Event recorder's aggregation and loss, and schema validation by the API
  server. Leader election: the manifests turn it on, and the models have the
  one active controller it gives.
- Flags, certificates and servers in `main`.
- The shortlink service (an in-memory map behind a mutex), testsvc's shutdown,
  scripts, Terraform and manifests.

## 7. Plan

Done: the freeze with its proofs, the reconcile and its refinement, shared
namespaces, scaling, exposure, storage, releases with their rules and alerts;
proofs of all the safety properties that the runs check, and of the steps of two
of the liveness properties.
