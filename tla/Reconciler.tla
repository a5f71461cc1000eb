----------------------------- MODULE Reconciler -----------------------------
(***************************************************************************)
(* ServiceClaimReconciler for one claim name: Reconcile, applyObjects,     *)
(* finalize and the status write, step by API call, against                *)
(*   - the API server's live objects, which users and other controllers    *)
(*     change between any two of those calls;                              *)
(*   - the informer caches of the claim and of its Namespace, which lag;   *)
(*   - the namespace controller and Argo Rollouts (external).              *)
(*                                                                         *)
(* The work queue runs one reconcile of a key at a time.  Time is left     *)
(* out: a key that will be reconciled again (RequeueAfter, a retry with    *)
(* backoff, a watch event) is queued, and may be taken at any moment.      *)
(* Events of managed objects need no state of their own, for they only     *)
(* bring forward a reconcile that is already due.                          *)
(*                                                                         *)
(* The read of an object's ownership and its apply are one step.  Either   *)
(* way the apply counts as a correction when the object is not what it     *)
(* should be.  The SLO and freeze part of the reconcile is FreezeGate, and *)
(* what ACK makes of the storage objects is Storage: here a linked cluster *)
(* may report anything of them.                                            *)
(*                                                                         *)
(* Every process has the same builders, and the same AWS account if it has *)
(* one: an upgrade that builds other objects is left out.                  *)
(***************************************************************************)
EXTENDS Builders, Conditions, FiniteSets

CONSTANTS
  Specs,        \* claim specs users write
  Tracked,      \* kinds of managed objects whose state is modelled
  NoClaim,      \* there is no claim
  Gone,         \* there is no such object
  Edited,       \* an object somebody else changed
  Phases,       \* Rollout phases Argo Rollouts reports
  NsLag,        \* whether finalize may read a Namespace cache that lags
  MaxGen,       \* bound: generations of a claim
  MaxClaims,    \* bound: claims created with this name, one after the other
  MaxTampers,   \* bound: changes others make to managed objects
  MaxFaults,    \* bound: calls of the controller the API server fails
  MaxRestarts,  \* bound: restarts of the controller
  MaxTroubles,  \* bound: tampers, faults and restarts together
  MaxLag        \* bound: versions an informer has yet to deliver

ASSUME TrackedAssumption == {"Rollout"} \subseteq Tracked /\ "Namespace" \notin Tracked
ASSUME ContentsAssumption ==
  \A s \in Specs, k \in Tracked, l \in BOOLEAN : Render(k, s, l) \notin {Gone, Edited}
ASSUME BoundsAssumption ==
  /\ {MaxGen, MaxClaims, MaxTampers, MaxFaults, MaxRestarts, MaxTroubles, MaxLag}
       \subseteq Nat
  /\ MaxGen # 0

VARIABLES
  (* the API server *)
  claim,     \* the stored ServiceClaim, or NoClaim
  ns,        \* its Namespace: "absent", "active" or "terminating"
  objs,      \* what each tracked object inside it holds, or Gone
  rollout,   \* the Rollout's status: see Unreported
  (* the informers *)
  view,      \* the cached claim
  watch,     \* claim versions on their way to the cache, oldest first
  nsView,    \* the cached Namespace
  nsWatch,   \* Namespace versions on their way to the cache
  (* the controller *)
  linked,    \* the process has an AWS account for storage (r.Storage)
  queued,    \* the claim's key is in the work queue or due to be
  pc,        \* where the reconcile is: see Steps
  cur,       \* the claim it read
  todo,      \* the places in Build it has still to apply
  failed,    \* an apply failed
  read,      \* what its read of the Rollout returned
  innocent,  \* history: corrections of objects nobody else had touched
  (* history and bounds *)
  tampered,  \* kinds not as last applied: others changed them, or linking did
  created,   \* claims created so far
  tampers, faults, restarts

server == <<claim, ns, objs, rollout>>
claimCache == <<view, watch>>
nsCache == <<nsView, nsWatch>>
worker == <<pc, cur, todo, failed, read, innocent>>
counters == <<created, tampers, faults, restarts>>
vars == <<server, claimCache, nsCache, linked, queued, worker, tampered, counters>>

-----------------------------------------------------------------------------
(* The claim *)

(* ran: history, what the Rollout that made the claim Ready was running. *)
NoStatus == [synced |-> "none", gen |-> 0, ready |-> FALSE, ran |-> Gone]

NewClaim(spec) ==
  [uid |-> created + 1, gen |-> 1, spec |-> spec, del |-> FALSE, fin |-> FALSE,
   status |-> NoStatus]

(* Mutant: in sync for whatever generation it was. *)
inSyncAtGeneration_any(c) == c.status.synced = "True"

(* Last applied successfully, and for the generation it has now. *)
inSyncAtGeneration(c) == c.status.synced = "True" /\ c.status.gen = c.gen

(* The objects of a claim the model tracks, by their place in what Build   *)
(* returns to a process that is linked to AWS or not.                      *)
KindAt(c, link, i) == Build(c.spec, link)[i]

Plan(c, link) ==
  LET kinds == Build(c.spec, link)
  IN  { i \in DOMAIN kinds : kinds[i] \in Tracked \cup {"Namespace"} }

Steps == {"idle", "finalizer", "apply", "rollout", "status", "finalize"}

(* What a tracked object may hold. *)
Contents(k) == {Gone, Edited} \cup {Render(k, s, l) : s \in Specs, l \in BOOLEAN}

ClaimStatuses == [synced : {"none", "True", "ApplyFailed", "InvalidSpec"}, gen : 0 .. MaxGen + 1,
              ready : BOOLEAN, ran : Contents("Rollout")]

Claims ==
  [uid : 1 .. MaxClaims, gen : 1 .. MaxGen + 1, spec : Specs, del : BOOLEAN, fin : BOOLEAN,
   status : ClaimStatuses]

ASSUME NoClaimAssumption == NoClaim \notin Claims

(* What Argo Rollouts says of the Rollout: whether it has observed the     *)
(* current generation, the phase, and (history) what it is running.        *)
Unreported == [observed |-> FALSE, phase |-> "none", runs |-> Gone]

NotRead == [err |-> "none", observed |-> FALSE, phase |-> "none", runs |-> Gone]

Reads ==
  [err : {"none", "notfound", "error"}, observed : BOOLEAN,
   phase : Phases \cup {"none"}, runs : Contents("Rollout")]

NamespaceStates == {"absent", "active", "terminating"}

ServerTypes ==
  /\ claim \in Claims \cup {NoClaim}
  /\ claim # NoClaim /\ ~claim.del => claim.gen <= MaxGen
  /\ ns \in NamespaceStates
  /\ objs = [k \in Tracked |-> objs[k]]
  /\ \A k \in Tracked : objs[k] \in Contents(k)
  /\ rollout \in [observed : BOOLEAN, phase : Phases \cup {"none"}, runs : Contents("Rollout")]

CacheTypes ==
  /\ view \in Claims \cup {NoClaim} /\ watch \in Seq(Claims \cup {NoClaim})
  /\ nsView \in NamespaceStates /\ nsWatch \in Seq(NamespaceStates)

WorkerTypes ==
  /\ linked \in BOOLEAN /\ queued \in BOOLEAN /\ pc \in Steps /\ failed \in BOOLEAN
  /\ cur \in Claims \cup {NoClaim} /\ (cur = NoClaim <=> pc = "idle")
  /\ todo \subseteq (IF cur = NoClaim THEN {} ELSE Plan(cur, linked))
  /\ read \in Reads
  /\ innocent \subseteq Tracked \cup {"Namespace"}

HistoryTypes ==
  /\ tampered \subseteq Tracked \cup {"Namespace"}
  /\ created \in 0 .. MaxClaims /\ tampers \in 0 .. MaxTampers
  /\ faults \in 0 .. MaxFaults /\ restarts \in 0 .. MaxRestarts

TypeOK == ServerTypes /\ CacheTypes /\ WorkerTypes /\ HistoryTypes

Init ==
  /\ claim = NoClaim /\ ns = "absent"
  /\ objs = [k \in Tracked |-> Gone] /\ rollout = Unreported
  /\ view = NoClaim /\ watch = <<>> /\ nsView = "absent" /\ nsWatch = <<>>
  /\ linked \in BOOLEAN /\ queued = FALSE /\ pc = "idle" /\ cur = NoClaim /\ todo = {}
  /\ failed = FALSE /\ read = NotRead /\ innocent = {} /\ tampered = {}
  /\ created = 0 /\ tampers = 0 /\ faults = 0 /\ restarts = 0

(* A write that changes the claim, or the Namespace, is a new version for  *)
(* its informer.                                                           *)
StoreClaim(c) ==
  /\ c # claim => Len(watch) < MaxLag
  /\ claim' = c
  /\ watch' = IF c = claim THEN watch ELSE Append(watch, c)

StoreNamespace(n) ==
  /\ n # ns => Len(nsWatch) < MaxLag
  /\ ns' = n
  /\ nsWatch' = IF n = ns THEN nsWatch ELSE Append(nsWatch, n)

Trouble == tampers + faults + restarts < MaxTroubles

(* A call fails: because it must, or for a reason of the API server's own. *)
Fault == Trouble /\ faults < MaxFaults /\ faults' = faults + 1

FailsWhen(rejected) == (rejected /\ UNCHANGED faults) \/ Fault

(* Reconcile returns, and its locals go with it.  An error or RequeueAfter *)
(* puts the key back; a watch event may have done so already.              *)
Return(requeue) ==
  /\ queued' = (queued \/ requeue)
  /\ pc' = "idle" /\ cur' = NoClaim /\ todo' = {}
  /\ failed' = FALSE /\ read' = NotRead /\ innocent' = {}

-----------------------------------------------------------------------------
(* Reconcile *)

(* Once the finalizer is there the spec is built; one that can't be goes   *)
(* straight to the status.                                                 *)
StartApplying(c) ==
  /\ pc' = IF Buildable(c.spec) THEN "apply" ELSE "status"
  /\ todo' = IF Buildable(c.spec) THEN Plan(c, linked) ELSE {}
  /\ failed' = FALSE
  /\ read' = NotRead
  /\ innocent' = {}

(* Mutant: the finalizer is left for later. *)
NeedsFinalizer_never(c) == FALSE

NeedsFinalizer(c) == ~c.fin

(* The key is taken from the queue and the claim read from the cache. *)
Begin ==
  /\ pc = "idle" /\ queued
  /\ queued' = FALSE
  /\ \/ /\ view # NoClaim => view.del /\ ~view.fin
        /\ UNCHANGED worker
     \/ /\ view # NoClaim /\ view.del /\ view.fin
        /\ cur' = view
        /\ pc' = "finalize"
        /\ UNCHANGED <<todo, failed, read, innocent>>
     \/ /\ view # NoClaim /\ ~view.del /\ NeedsFinalizer(view)
        /\ cur' = view
        /\ pc' = "finalizer"
        /\ UNCHANGED <<todo, failed, read, innocent>>
     \/ /\ view # NoClaim /\ ~view.del /\ ~NeedsFinalizer(view)
        /\ cur' = view
        /\ StartApplying(view)
  /\ UNCHANGED <<server, claimCache, nsCache, linked, tampered, counters>>

(* applyFinalizer(present): an apply that carries only metadata, so on a   *)
(* claim that is gone it would create one without a spec and is rejected.  *)
AddFinalizer ==
  /\ pc = "finalizer"
  /\ \/ /\ claim # NoClaim
        /\ StoreClaim([claim EXCEPT !.fin = TRUE])
        /\ StartApplying(cur)
        /\ UNCHANGED <<queued, cur, faults>>
     \/ /\ FailsWhen(claim = NoClaim)
        /\ Return(TRUE)
        /\ UNCHANGED <<claim, watch>>
  /\ UNCHANGED <<ns, objs, rollout, view, nsCache, linked, tampered, created, tampers, restarts>>

(* The API server creates nothing in a Namespace that is absent or         *)
(* terminating, but still patches what a terminating one holds.            *)
Appliable(k) ==
  k # "Namespace" => ns = "active" \/ (ns = "terminating" /\ objs[k] # Gone)

(* Whether the object is not what the apply will make it. *)
Differs(k) ==
  IF k = "Namespace" THEN ns = "absent" ELSE objs[k] # Render(k, cur.spec, linked)

(* The object whose turn it is. *)
First(i) == i \in todo /\ \A j \in todo : i <= j

(* One round of applyObjects: read the object's ownership, apply it, and   *)
(* keep a correction when the apply had something to put back.             *)
ApplyNext ==
  /\ pc = "apply"
  /\ \E i \in todo : LET k == KindAt(cur, linked, i) IN
       /\ First(i)
       /\ Appliable(k)
       /\ IF k = "Namespace"
          THEN /\ StoreNamespace(IF ns = "absent" THEN "active" ELSE ns)
               /\ UNCHANGED <<objs, rollout>>
          ELSE /\ objs' = [objs EXCEPT ![k] = Render(k, cur.spec, linked)]
               /\ rollout' = IF k = "Rollout" /\ Differs(k)
                             THEN [rollout EXCEPT !.observed = FALSE]
                             ELSE rollout
               /\ UNCHANGED <<ns, nsWatch>>
       /\ innocent' = innocent \cup (IF Differs(k) /\ k \notin tampered THEN {k} ELSE {})
       /\ tampered' = tampered \ {k}
       /\ todo' = todo \ {i}
  /\ pc' = IF todo' = {} THEN "rollout" ELSE "apply"
  /\ UNCHANGED <<claim, claimCache, nsView, linked, queued, cur, failed, read, counters>>

(* applyObjects stops at the first failure. *)
ApplyFails ==
  /\ pc = "apply"
  /\ FailsWhen(\E i \in todo : First(i) /\ ~Appliable(KindAt(cur, linked, i)))
  /\ failed' = TRUE
  /\ todo' = {}
  /\ pc' = "status"
  /\ UNCHANGED <<server, claimCache, nsCache, linked, queued, cur, read, innocent, tampered,
                 created, tampers, restarts>>

(* Everything was applied: the Rollout is read past the cache. *)
ReadRollout ==
  /\ pc = "rollout"
  /\ \/ /\ read' = IF objs["Rollout"] = Gone
                    THEN [NotRead EXCEPT !.err = "notfound"]
                    ELSE [err |-> "none", observed |-> rollout.observed,
                          phase |-> rollout.phase, runs |-> rollout.runs]
        /\ UNCHANGED faults
     \/ /\ Fault
        /\ read' = [NotRead EXCEPT !.err = "error"]
  /\ pc' = "status"
  /\ UNCHANGED <<server, claimCache, nsCache, linked, queued, cur, todo, failed, innocent, tampered,
                 created, tampers, restarts>>

(* What ResourcesSynced says at the end of the reconcile. *)
Synced ==
  IF ~Buildable(cur.spec) THEN Condition("False", "InvalidSpec")
  ELSE IF failed THEN Condition("False", "ApplyFailed")
  ELSE Condition("True", "Applied")

(* What evaluateStorage may report, whatever its reads of the Role and the *)
(* Bucket return.                                                          *)
AckReads == [1 .. 2 -> {"notfound", "unreadable", "terminal", "syncing", "synced"}]

StorageReports ==
  IF cur.spec.storage THEN {evaluateStorage(linked, seen) : seen \in AckReads} ELSE {NoStorage}

Ready(storage) == readyCondition(Synced, storage, read).status = "True"

(* Mutants: the reason is lost; the generation stored now is claimed, not  *)
(* the one read; observedGeneration is left out when an apply failed.      *)
NewStatus_noReason(storage) ==
  [synced |-> Synced.status,
   gen |-> cur.gen,
   ready |-> Ready(storage),
   ran |-> IF Ready(storage) THEN read.runs ELSE Gone]
NewStatus_liveGeneration(storage) ==
  [synced |-> IF Synced.status = "True" THEN "True" ELSE Synced.reason,
   gen |-> claim.gen,
   ready |-> Ready(storage),
   ran |-> IF Ready(storage) THEN read.runs ELSE Gone]

NewStatus_unobserved(storage) ==
  [synced |-> IF Synced.status = "True" THEN "True" ELSE Synced.reason,
   gen |-> IF failed THEN 0 ELSE cur.gen,
   ready |-> Ready(storage),
   ran |-> IF Ready(storage) THEN read.runs ELSE Gone]

(* The conditions and observedGeneration a reconcile writes. *)
NewStatus(storage) ==
  [synced |-> IF Synced.status = "True" THEN "True" ELSE Synced.reason,
   gen |-> cur.gen,
   ready |-> Ready(storage),
   ran |-> IF Ready(storage) THEN read.runs ELSE Gone]

(* applyStatus.  It names the claim and carries no UID, so it lands on     *)
(* whatever claim has the name now.  A reconcile of a spec that can't be   *)
(* built is not repeated; any other is, after an error or in a minute.     *)
WriteStatus ==
  /\ pc = "status"
  /\ \/ /\ claim # NoClaim
        /\ \E storage \in StorageReports : StoreClaim([claim EXCEPT !.status = NewStatus(storage)])
        /\ Return(Buildable(cur.spec))
        /\ UNCHANGED faults
     \/ /\ FailsWhen(claim = NoClaim)
        /\ Return(TRUE)
        /\ UNCHANGED <<claim, watch>>
  /\ UNCHANGED <<ns, objs, rollout, view, nsCache, linked, tampered, created, tampers, restarts>>

(* Mutant: a Namespace that is going counts as gone. *)
NamespaceGone_going == nsView # "active"

NamespaceGone == nsView = "absent"

(* finalize: the cached Namespace decides.  Absent: release the finalizer, *)
(* which removes a claim that is being deleted.  Active: delete it and     *)
(* look again later.  Terminating: look again later.                       *)
Finalize ==
  /\ pc = "finalize"
  /\ NsLag \/ nsWatch = <<>>
  /\ \/ /\ NamespaceGone
        /\ claim # NoClaim
        /\ StoreClaim(IF claim.del THEN NoClaim ELSE [claim EXCEPT !.fin = FALSE])
        /\ Return(FALSE)
        /\ UNCHANGED <<ns, nsWatch, faults>>
     \/ /\ nsView = "active"
        /\ StoreNamespace(IF ns = "active" THEN "terminating" ELSE ns)
        /\ Return(TRUE)
        /\ UNCHANGED <<claim, watch, faults>>
     \/ /\ nsView = "terminating"
        /\ Return(TRUE)
        /\ UNCHANGED <<claim, watch, ns, nsWatch, faults>>
     \/ /\ nsView # "terminating"
        /\ FailsWhen(NamespaceGone /\ claim = NoClaim)
        /\ Return(TRUE)
        /\ UNCHANGED <<claim, watch, ns, nsWatch>>
  /\ UNCHANGED <<objs, rollout, view, nsView, linked, tampered, created, tampers, restarts>>

-----------------------------------------------------------------------------
(* The informers and the process *)

(* Mutants: a deletion, or a new generation, doesn't queue the key. *)
claimChanged_specOnly(old, new) ==
  old = NoClaim \/ new = NoClaim \/ new.spec # old.spec
claimChanged_noGeneration(old, new) ==
  old = NoClaim \/ new = NoClaim \/ new.del

(* The claim events that queue the key.  Deletion also bumps a claim's     *)
(* generation.                                                             *)
claimChanged(old, new) ==
  old = NoClaim \/ new = NoClaim \/ new.gen # old.gen \/ new.del

DeliverClaim ==
  /\ watch # <<>>
  /\ view' = Head(watch)
  /\ watch' = Tail(watch)
  /\ queued' = (queued \/ claimChanged(view, Head(watch)))
  /\ UNCHANGED <<server, nsCache, linked, worker, tampered, counters>>

DeliverNamespace ==
  /\ nsWatch # <<>>
  /\ nsView' = Head(nsWatch)
  /\ nsWatch' = Tail(nsWatch)
  /\ queued' = TRUE
  /\ UNCHANGED <<server, claimCache, linked, worker, tampered, counters>>

(* The objects that link the claim to AWS, or would. *)
Relinked ==
  IF claim # NoClaim /\ claim.spec.storage THEN {"Role", "Bucket", "Rollout"} \cap Tracked ELSE {}

(* A new process lists both kinds and queues every claim.  It reads the    *)
(* cluster's link to AWS anew, and may find one, or no longer find it.     *)
Restart ==
  /\ Trouble /\ restarts < MaxRestarts
  /\ restarts' = restarts + 1
  /\ Return(TRUE)
  /\ view' = claim /\ watch' = <<>>
  /\ nsView' = ns /\ nsWatch' = <<>>
  /\ linked' \in BOOLEAN
  /\ tampered' = tampered \cup (IF linked' = linked THEN {} ELSE Relinked)
  /\ UNCHANGED <<server, created, tampers, faults>>

-----------------------------------------------------------------------------
(* Users *)

CreateClaim ==
  /\ claim = NoClaim /\ created < MaxClaims
  /\ \E s \in Specs : StoreClaim(NewClaim(s))
  /\ created' = created + 1
  /\ UNCHANGED <<ns, objs, rollout, view, nsCache, linked, queued, worker, tampered,
                 tampers, faults, restarts>>

(* The schema lets no update change storage. *)
EditClaim ==
  /\ claim # NoClaim /\ ~claim.del /\ claim.gen < MaxGen
  /\ \E s \in Specs \ {claim.spec} :
       /\ s.storage = claim.spec.storage
       /\ StoreClaim([claim EXCEPT !.spec = s, !.gen = @ + 1])
  /\ UNCHANGED <<ns, objs, rollout, view, nsCache, linked, queued, worker, tampered, counters>>

DeleteClaim ==
  /\ claim # NoClaim /\ ~claim.del
  /\ StoreClaim(IF claim.fin THEN [claim EXCEPT !.del = TRUE, !.gen = @ + 1] ELSE NoClaim)
  /\ UNCHANGED <<ns, objs, rollout, view, nsCache, linked, queued, worker, tampered, counters>>

Tamper == Trouble /\ tampers < MaxTampers /\ tampers' = tampers + 1

EditObject(k) ==
  /\ Tamper
  /\ objs[k] \notin {Gone, Edited}
  /\ objs' = [objs EXCEPT ![k] = Edited]
  /\ rollout' = IF k = "Rollout" THEN [rollout EXCEPT !.observed = FALSE] ELSE rollout
  /\ tampered' = tampered \cup {k}
  /\ UNCHANGED <<claim, ns, claimCache, nsCache, linked, queued, worker, created, faults, restarts>>

Remove(k) ==
  /\ objs[k] # Gone
  /\ objs' = [objs EXCEPT ![k] = Gone]
  /\ rollout' = IF k = "Rollout" THEN Unreported ELSE rollout
  /\ tampered' = tampered \cup {k}

DeleteObject(k) ==
  /\ Tamper
  /\ Remove(k)
  /\ UNCHANGED <<claim, ns, claimCache, nsCache, linked, queued, worker, created, faults, restarts>>

DeleteNamespace ==
  /\ Tamper
  /\ ns = "active"
  /\ StoreNamespace("terminating")
  /\ UNCHANGED <<claim, objs, rollout, claimCache, nsView, linked, queued, worker, tampered,
                 created, faults, restarts>>

-----------------------------------------------------------------------------
(* The namespace controller and Argo Rollouts (external) *)

RemoveContent(k) ==
  /\ ns = "terminating"
  /\ Remove(k)
  /\ UNCHANGED <<claim, ns, claimCache, nsCache, linked, queued, worker, counters>>

RemoveNamespace ==
  /\ ns = "terminating"
  /\ \A k \in Tracked : objs[k] = Gone
  /\ StoreNamespace("absent")
  /\ tampered' = tampered \cup {"Namespace"}
  /\ UNCHANGED <<claim, objs, rollout, claimCache, nsView, linked, queued, worker, counters>>

ArgoReports ==
  /\ objs["Rollout"] # Gone
  /\ \E p \in Phases :
       rollout' = [observed |-> TRUE, phase |-> p, runs |-> objs["Rollout"]]
  /\ UNCHANGED <<claim, ns, objs, claimCache, nsCache, linked, queued, worker, tampered, counters>>

-----------------------------------------------------------------------------
Controller ==
  \/ Begin \/ AddFinalizer \/ ApplyNext \/ ApplyFails \/ ReadRollout
  \/ WriteStatus \/ Finalize

Next ==
  \/ Begin \/ AddFinalizer \/ ApplyNext \/ ApplyFails \/ ReadRollout
  \/ WriteStatus \/ Finalize
  \/ DeliverClaim \/ DeliverNamespace \/ Restart
  \/ CreateClaim \/ EditClaim \/ DeleteClaim \/ DeleteNamespace
  \/ \E k \in Tracked : EditObject(k) \/ DeleteObject(k) \/ RemoveContent(k)
  \/ RemoveNamespace \/ ArgoReports

Spec == Init /\ [][Next]_vars

(***************************************************************************)
(* The work queue hands out a key that is due, a reconcile runs to its     *)
(* end, watches deliver, and the namespace controller empties and removes  *)
(* a terminating Namespace.  Nothing is asked of users or Argo Rollouts.   *)
(***************************************************************************)
Fairness ==
  /\ WF_vars(Controller)
  /\ WF_vars(DeliverClaim) /\ WF_vars(DeliverNamespace)
  /\ \A k \in Tracked : WF_vars(RemoveContent(k))
  /\ WF_vars(RemoveNamespace)

FairSpec == Spec /\ Fairness

-----------------------------------------------------------------------------
(* Properties *)

(***************************************************************************)
(* The finalizer guards the Namespace: as long as svc-<name> exists in any *)
(* form there is a claim that holds it, so no deletion, in whatever order  *)
(* with finalizer writes, applies, cache deliveries and restarts, orphans  *)
(* what the claim created (Finalizer's comment, finalize, applyFinalizer). *)
(***************************************************************************)
FinalizerGuardsNamespace == ns # "absent" => claim # NoClaim /\ claim.fin

(* The claim as ClaimLifecycle knows it. *)
ClaimPhase ==
  IF claim = NoClaim THEN "none"
  ELSE IF ~claim.fin THEN "free"
  ELSE IF claim.del THEN "going" ELSE "held"

Lifecycle == INSTANCE ClaimLifecycle WITH claim <- ClaimPhase, namespace <- ns

(***************************************************************************)
(* Through caches, queue, failed calls and restarts, the reconciler        *)
(* implements ClaimLifecycle: it holds a claim before it creates anything, *)
(* never drops a hold on a live claim, also not one created anew under the *)
(* name, and lets go only of a deleted claim whose Namespace is gone       *)
(* (Reconcile, applyFinalizer, finalize).                                  *)
(***************************************************************************)
ImplementsLifecycle == Lifecycle!Spec

(***************************************************************************)
(* Only what changed under the controller is reported as drift: what       *)
(* somebody else changed or, for a claim with storage, what a restart that *)
(* linked the cluster to AWS or cut the link asks for anew.  An object is  *)
(* never put back under a DriftCorrected Event merely because the claim    *)
(* was created or edited, an apply failed half-way, the process restarted  *)
(* or the status written last has not reached the cache (applyObjects,     *)
(* inSyncAtGeneration).                                                    *)
(***************************************************************************)
NoFalseDrift ==
  pc \in {"rollout", "status"} /\ inSyncAtGeneration(cur) => innocent = {}

(***************************************************************************)
(* Ready means the claimed spec ran: when the status says Ready for the    *)
(* generation the claim has, the Rollout Argo Rollouts found healthy was   *)
(* the one built from the claim's spec, with its AWS identity if it asks   *)
(* for storage, or an edit made after the apply (readyCondition,           *)
(* evaluateStorage, Reconcile's uncached read, applyStatus).               *)
(***************************************************************************)
ReadyMeansRunning ==
  claim # NoClaim /\ claim.status.ready /\ claim.status.gen = claim.gen =>
    claim.status.ran \in {Render("Rollout", claim.spec, TRUE), Edited}

(***************************************************************************)
(* A Rollout whose canary is analysed has its AnalysisTemplate, unless     *)
(* somebody took the template away (Build's order, applyObjects).          *)
(***************************************************************************)
TemplateBeforeRollout ==
  objs["Rollout"] \notin {Gone, Edited} /\ objs["Rollout"].analysis =>
    objs["AnalysisTemplate"] # Gone \/ "AnalysisTemplate" \in tampered

(***************************************************************************)
(* observedGeneration never runs ahead of the claim it is on, nor goes     *)
(* back, though every status is written from a cached claim (applyStatus). *)
(***************************************************************************)
ObservedGenerationSound ==
  [][claim # NoClaim /\ claim' # NoClaim =>
       claim'.status.gen <= claim'.gen /\ claim'.status.gen >= claim.status.gen]_vars

(* Everything a live, valid claim asks for is there, and its status says so. *)
Converged ==
  claim # NoClaim /\ ~claim.del /\ Buildable(claim.spec) =>
    /\ inSyncAtGeneration(claim)
    /\ ns = "active"
    /\ \A i \in Plan(claim, linked) :
         LET k == KindAt(claim, linked, i) IN k # "Namespace" => objs[k] = Render(k, claim.spec, linked)

(***************************************************************************)
(* Once users and the API server's faults leave it alone, a claim          *)
(* converges for good: edits are applied, drift is put back, a deleted     *)
(* Namespace is recreated and a spec that was invalid is picked up when it *)
(* is fixed (Reconcile's requeues, claimChanged).                          *)
(***************************************************************************)
EventuallyConverges == <>[]Converged

(***************************************************************************)
(* A deleted claim goes away, whatever state its last reconcile left       *)
(* behind (finalize, namespaceDeletionPoll, claimChanged).                 *)
(***************************************************************************)
DeletionCompletes ==
  (claim # NoClaim /\ claim.del) ~> ~(claim # NoClaim /\ claim.del)
=============================================================================
