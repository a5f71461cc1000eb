------------------------------ MODULE Storage ------------------------------
(***************************************************************************)
(* Storage of a claim that asks for it (DECISIONS.md, ADR-025): the        *)
(* controller applies an ACK Role and Bucket, ACK's controllers create     *)
(* them in AWS, and the reconcile reads both back, one after the other,    *)
(* past the cache, to decide StorageReady.  Deleting the claim deletes the *)
(* namespace and, through ACK's finalizers, the role; the bucket stays.    *)
(*                                                                         *)
(* The projection of the reconcile onto the objects storage depends on.    *)
(* It reads the claim and its Namespace from caches that lag.  Of a claim  *)
(* only its phase (see Phases) and StorageReady matter here, so a write    *)
(* that changes the status alone is no new version for the cache.  ACK,    *)
(* AWS and the namespace controller are external.                          *)
(***************************************************************************)
EXTENDS Builders, Conditions

CONSTANTS
  Absent,       \* there is no such object
  Environments, \* what a process may find its four AWS settings to be
  NsLag,        \* whether finalize may read a Namespace cache that lags
  MaxClaims,    \* bound: claims created with this name, one after the other
  MaxTampers,   \* bound: ACK objects and Namespaces users delete
  MaxFaults,    \* bound: calls of the controller the API server fails
  MaxRestarts,  \* bound: restarts of the controller
  MaxRebuilds,  \* bound: times the cluster is thrown away and built again
  MaxTroubles,  \* bound: tampers, faults, restarts and rebuilds together
  MaxLag        \* bound: versions an informer has yet to deliver

Settings == {"account", "region", "issuer", "boundary"}
AckKinds == {"Role", "Bucket"}

ASSUME EnvironmentsAssumption ==
  Environments \subseteq [Settings -> {"unset", "good", "bad"}]
ASSUME StorageBoundsAssumption ==
  {MaxClaims, MaxTampers, MaxFaults, MaxRestarts, MaxRebuilds,
   MaxTroubles, MaxLag} \subseteq Nat

VARIABLES
  claim,     \* the phase of the stored claim
  status,    \* its StorageReady: see NoStatus
  ns,        \* its Namespace: "absent", "active" or "terminating"
  view,      \* the phase of the cached claim
  watch,     \* phases on their way to the cache, oldest first
  nsView,    \* the cached Namespace
  nsWatch,   \* Namespace versions on their way to the cache
  ack,       \* the ACK objects
  identity,  \* the pods of the Rollout carry the claim's AWS identity
  aws,       \* kinds that exist in AWS under the claim's names
  data,      \* the bucket holds data
  proc,      \* the controller: "down", "linked" or "unlinked"
  pc,        \* its reconcile: "idle", "finalizer", "apply", "read", "status", "finalize"
  todo,      \* the places in Plan, or in StorageTypes, it has still to apply or to read
  observed,  \* what its reads returned so far
  saw,       \* history: kinds that were in AWS, or on their way out, when read
  created, tampers, faults, restarts, rebuilds

server == <<claim, status, ns>>
claimCache == <<view, watch>>
nsCache == <<nsView, nsWatch>>
counters == <<created, tampers, faults, restarts, rebuilds>>
worker == <<pc, todo, observed, saw>>
vars ==
  <<server, claimCache, nsCache, ack, identity, aws, data, proc, worker, counters>>

(* state: "new" until ACK takes the object on and adds its own finalizer. *)
AckObjects ==
  [adopt : BOOLEAN, retain : BOOLEAN, state : {"new", "syncing", "synced", "terminal"},
   del : BOOLEAN]

ASSUME MarkersAssumption == Absent \notin AckObjects

(* No claim; one without, and one with, the controller's finalizer; one    *)
(* that is being deleted, which only a finalizer can keep.                 *)
Phases == {"none", "free", "held", "going"}

NamespaceStates == {"absent", "active", "terminating"}

(* The status of StorageReady; saw: history, see above. *)
NoStatus == [ready |-> "none", saw |-> {}]

NewObject(kind) ==
  LET built == IF kind = "Role" THEN BuildStorageRole ELSE BuildStorageBucket
  IN [adopt |-> built.adopt, retain |-> built.retain, state |-> "new", del |-> FALSE]

Init ==
  /\ claim = "none" /\ status = NoStatus /\ ns = "absent"
  /\ view = "none" /\ watch = <<>> /\ nsView = "absent" /\ nsWatch = <<>> /\ ack = [k \in AckKinds |-> Absent]
  /\ identity = FALSE /\ aws = {} /\ data = FALSE
  /\ proc = "down" /\ pc = "idle" /\ todo = {} /\ observed = <<>> /\ saw = {}
  /\ created = 0 /\ tampers = 0 /\ faults = 0 /\ restarts = 0 /\ rebuilds = 0

Trouble == tampers + faults + restarts + rebuilds < MaxTroubles

(* A write that changes the claim's phase, or the Namespace, is a new      *)
(* version for its informer.                                               *)
StoreClaim(c) ==
  /\ c # claim => Len(watch) < MaxLag
  /\ claim' = c
  /\ watch' = IF c = claim THEN watch ELSE Append(watch, c)

StoreNamespace(n) ==
  /\ n # ns => Len(nsWatch) < MaxLag
  /\ ns' = n
  /\ nsWatch' = IF n = ns THEN nsWatch ELSE Append(nsWatch, n)

DeliverClaim ==
  /\ watch # <<>>
  /\ view' = Head(watch)
  /\ watch' = Tail(watch)
  /\ UNCHANGED <<server, nsCache, ack, identity, aws, data, proc, worker, counters>>

DeliverNamespace ==
  /\ nsWatch # <<>>
  /\ nsView' = Head(nsWatch)
  /\ nsWatch' = Tail(nsWatch)
  /\ UNCHANGED <<server, claimCache, ack, identity, aws, data, proc, worker, counters>>

-----------------------------------------------------------------------------
(* The process *)

Validate(env) == \A s \in Settings : env[s] = "good"

(* None of the settings: not linked.  All of them: linked, if they are     *)
(* right.  Anything else is an error.                                      *)
StorageConfigFromEnv(env) ==
  LET set == {s \in Settings : env[s] # "unset"}
  IN IF set = {} THEN "nil"
     ELSE IF set = Settings /\ Validate(env) THEN "config"
     ELSE "error"

ServesStorageKinds(served) == AckKinds \subseteq served

(* served: the kinds the API server knows.  An error ends the process. *)
storageForCluster(env, served) ==
  IF StorageConfigFromEnv(env) = "error" THEN "down"
  ELSE IF StorageConfigFromEnv(env) = "config" /\ ServesStorageKinds(served) THEN "linked"
  ELSE "unlinked"

Idle == pc' = "idle" /\ todo' = {} /\ observed' = <<>> /\ saw' = {}

(* A new process lists both kinds. *)
Start ==
  /\ proc = "down"
  /\ view' = claim /\ watch' = <<>> /\ nsView' = ns /\ nsWatch' = <<>>
  /\ \E env \in Environments, served \in SUBSET AckKinds : proc' = storageForCluster(env, served)
  /\ UNCHANGED <<server, ack, identity, aws, data, worker, counters>>

Stop ==
  /\ proc # "down" /\ Trouble /\ restarts < MaxRestarts
  /\ restarts' = restarts + 1
  /\ proc' = "down"
  /\ Idle
  /\ UNCHANGED <<server, claimCache, nsCache, ack, identity, aws, data,
                 created, tampers, faults, rebuilds>>

-----------------------------------------------------------------------------
(* The reconcile *)

linked == proc = "linked"

(* What the claim asks for. *)
Claimed == [tier |-> "internal", storage |-> TRUE]

(* The kind that Build puts at a place, and the places of the objects      *)
(* storage depends on.                                                     *)
KindAt(i) == Build(Claimed, linked)[i]

Plan ==
  {i \in DOMAIN Build(Claimed, linked) : KindAt(i) \in AckKinds \cup {"Namespace", "Rollout"}}

(* The ACK kinds, in the order they are read. *)
StorageTypes == <<"Role", "Bucket">>

TypeOK ==
  /\ claim \in Phases /\ status \in [ready : Statuses \cup {"none"}, saw : SUBSET AckKinds]
  /\ ns \in NamespaceStates
  /\ view \in Phases /\ watch \in Seq(Phases)
  /\ nsView \in NamespaceStates /\ nsWatch \in Seq(NamespaceStates)
  /\ ack \in [AckKinds -> AckObjects \cup {Absent}]
  /\ identity \in BOOLEAN /\ aws \subseteq AckKinds /\ data \in BOOLEAN
  /\ proc \in {"down", "linked", "unlinked"}
  /\ pc \in {"idle", "finalizer", "apply", "read", "status", "finalize"}
  /\ todo \subseteq (IF pc = "apply" THEN Plan ELSE DOMAIN StorageTypes)
  /\ observed \in Seq({"notfound", "unreadable", "terminal", "syncing", "synced"})
  /\ saw \subseteq AckKinds
  /\ created \in 0 .. MaxClaims /\ tampers \in 0 .. MaxTampers /\ faults \in 0 .. MaxFaults
  /\ restarts \in 0 .. MaxRestarts /\ rebuilds \in 0 .. MaxRebuilds

(* The claim is read from the cache.  Its deletion is noticed only there. *)
Begin ==
  /\ proc # "down" /\ pc = "idle"
  /\ \/ view = "free" /\ pc' = "finalizer" /\ todo' = {}
     \/ view = "held" /\ pc' = "apply" /\ todo' = Plan
     \/ view = "going" /\ pc' = "finalize" /\ todo' = {}
  /\ UNCHANGED <<server, claimCache, nsCache, ack, identity, aws, data, proc, observed, saw,
                 counters>>

(* A call fails: because it must, or for a reason of the API server's own. *)
Fault == Trouble /\ faults < MaxFaults /\ faults' = faults + 1

FailsWhen(rejected) == (rejected /\ UNCHANGED faults) \/ Fault

(* applyFinalizer(present): it can't create a claim that is gone. *)
AddFinalizer ==
  /\ pc = "finalizer"
  /\ \/ /\ claim # "none"
        /\ StoreClaim(IF claim = "free" THEN "held" ELSE claim)
        /\ pc' = "apply" /\ todo' = Plan
        /\ UNCHANGED <<observed, saw, faults>>
     \/ /\ FailsWhen(claim = "none")
        /\ Idle
        /\ UNCHANGED <<claim, watch>>
  /\ UNCHANGED <<status, ns, view, nsCache, ack, identity, aws, data, proc,
                 created, tampers, restarts, rebuilds>>

(* Storage is evaluated whether or not everything was applied. *)
StartReading ==
  /\ pc' = IF linked THEN "read" ELSE "status"
  /\ todo' = IF linked THEN DOMAIN StorageTypes ELSE {}

(* The pods of a claim with storage can assume its role. *)
withStorageIdentity == HasStorage(Claimed, linked)

(* Applies and reads are made in their order. *)
First(i) == \A j \in todo : i <= j

(* The API server creates nothing in a Namespace that is absent or         *)
(* terminating, but still patches what a terminating one holds.  Whether   *)
(* that is so of the Rollout is left open.                                 *)
Appliable(k) ==
  \/ k = "Namespace" \/ ns = "active"
  \/ ns = "terminating" /\ (k \in AckKinds => ack[k] # Absent)

Rejected(k) == ~Appliable(k) \/ (k = "Rollout" /\ ns = "terminating")

ApplyNext ==
  /\ pc = "apply"
  /\ \E i \in todo : LET k == KindAt(i) IN
       /\ First(i)
       /\ Appliable(k)
       /\ StoreNamespace(IF k = "Namespace" /\ ns = "absent" THEN "active" ELSE ns)
       /\ ack' = IF k \in AckKinds /\ ack[k] = Absent
                 THEN [ack EXCEPT ![k] = NewObject(k)] ELSE ack
       /\ identity' = IF k = "Rollout" THEN withStorageIdentity ELSE identity
       /\ IF todo = {i} THEN StartReading
          ELSE todo' = todo \ {i} /\ UNCHANGED pc
  /\ UNCHANGED <<claim, status, claimCache, nsView, aws, data, proc, observed, saw, counters>>

(* applyObjects stops at the first failure. *)
ApplyFails ==
  /\ pc = "apply"
  /\ FailsWhen(\E i \in todo : First(i) /\ Rejected(KindAt(i)))
  /\ StartReading
  /\ UNCHANGED <<server, claimCache, nsCache, ack, identity, aws, data, proc, observed, saw,
                 created, tampers, restarts, rebuilds>>

(* Mutant: an object ACK has not reported on is taken as it is. *)
ackConditions_raw(object) == IF object = Absent THEN "notfound" ELSE object.state

(* What ackConditions makes of an object: one ACK has not reported on has  *)
(* no conditions, and is not synced.                                       *)
ackConditions(object) ==
  IF object = Absent THEN "notfound"
  ELSE IF object.state = "new" THEN "syncing" ELSE object.state

ReadNext ==
  /\ pc = "read"
  /\ \E i \in todo : LET k == StorageTypes[i] IN
       /\ First(i)
       /\ \/ observed' = Append(observed, ackConditions(ack[k])) /\ UNCHANGED faults
          \/ observed' = Append(observed, "unreadable") /\ Fault
       /\ saw' = saw \cup {j \in {k} : j \in aws \/ (ack[j] # Absent /\ ack[j].del)}
       /\ todo' = todo \ {i}
       /\ pc' = IF todo = {i} THEN "status" ELSE "read"
  /\ UNCHANGED <<server, claimCache, nsCache, ack, identity, aws, data, proc,
                 created, tampers, restarts, rebuilds>>

(* applyStatus: it lands on whatever claim has the name now. *)
WriteStatus ==
  /\ pc = "status"
  /\ \/ /\ claim # "none"
        /\ status' = [ready |-> evaluateStorage(linked, observed).status, saw |-> saw]
        /\ UNCHANGED faults
     \/ FailsWhen(claim = "none") /\ UNCHANGED status
  /\ Idle
  /\ UNCHANGED <<claim, ns, claimCache, nsCache, ack, identity, aws, data, proc,
                 created, tampers, restarts, rebuilds>>

(* finalize: the cached Namespace decides.  Absent: release the finalizer, *)
(* which removes a claim that is being deleted.  Active: delete it and     *)
(* look again later.  Terminating: look again later.                       *)
Finalize ==
  /\ pc = "finalize"
  /\ NsLag \/ nsWatch = <<>>
  /\ \/ /\ nsView = "absent" /\ claim # "none"
        /\ StoreClaim(IF claim = "going" THEN "none" ELSE "free")
        /\ status' = IF claim = "going" THEN NoStatus ELSE status
        /\ UNCHANGED <<ns, nsWatch, faults>>
     \/ /\ nsView = "active"
        /\ StoreNamespace(IF ns = "active" THEN "terminating" ELSE ns)
        /\ UNCHANGED <<claim, status, watch, faults>>
     \/ /\ nsView = "terminating"
        /\ UNCHANGED <<claim, status, watch, ns, nsWatch, faults>>
     \/ /\ nsView # "terminating"
        /\ FailsWhen(nsView = "absent" /\ claim = "none")
        /\ UNCHANGED <<claim, status, watch, ns, nsWatch>>
  /\ Idle
  /\ UNCHANGED <<view, nsView, ack, identity, aws, data, proc,
                 created, tampers, restarts, rebuilds>>

-----------------------------------------------------------------------------
(* Users, pods and the cluster *)

CreateClaim ==
  /\ claim = "none" /\ created < MaxClaims
  /\ StoreClaim("free")
  /\ created' = created + 1
  /\ UNCHANGED <<status, ns, view, nsCache, ack, identity, aws, data, proc, worker,
                 tampers, faults, restarts, rebuilds>>

DeleteClaim ==
  /\ claim \in {"free", "held"}
  /\ StoreClaim(IF claim = "held" THEN "going" ELSE "none")
  /\ status' = IF claim = "held" THEN status ELSE NoStatus
  /\ UNCHANGED <<ns, view, nsCache, ack, identity, aws, data, proc, worker, counters>>

Tamper == Trouble /\ tampers < MaxTampers /\ tampers' = tampers + 1

DeleteNamespace ==
  /\ Tamper
  /\ ns = "active"
  /\ StoreNamespace("terminating")
  /\ UNCHANGED <<claim, status, claimCache, nsView, ack, identity, aws, data, proc, worker,
                 created, faults, restarts, rebuilds>>

(* A deleted object stays until ACK has seen to AWS, if ACK took it on. *)
Deleted(object) ==
  IF object.state \in {"new", "terminal"} THEN Absent ELSE [object EXCEPT !.del = TRUE]

DeleteObject(k) ==
  /\ Tamper
  /\ ack[k] # Absent /\ ~ack[k].del
  /\ ack' = [ack EXCEPT ![k] = Deleted(@)]
  /\ UNCHANGED <<server, claimCache, nsCache, identity, aws, data, proc, worker,
                 created, faults, restarts, rebuilds>>

PodWrites ==
  /\ identity /\ aws = AckKinds /\ ~data
  /\ data' = TRUE
  /\ UNCHANGED <<server, claimCache, nsCache, ack, identity, aws, proc, worker, counters>>

(* The cluster is deleted, and built again: AWS keeps what it has. *)
RebuildCluster ==
  /\ Trouble /\ rebuilds < MaxRebuilds
  /\ rebuilds' = rebuilds + 1
  /\ claim' = "none" /\ status' = NoStatus /\ ns' = "absent"
  /\ view' = "none" /\ watch' = <<>> /\ nsView' = "absent" /\ nsWatch' = <<>>
  /\ ack' = [k \in AckKinds |-> Absent]
  /\ identity' = FALSE /\ proc' = "down"
  /\ Idle
  /\ UNCHANGED <<aws, data, created, tampers, faults, restarts>>

-----------------------------------------------------------------------------
(* ACK and the namespace controller (external) *)

(* ACK creates the resource, or adopts one that is there if it may. *)
AckCreates(k) ==
  /\ ack[k] # Absent /\ ack[k].state = "new"
  /\ LET refused == k \in aws /\ ~ack[k].adopt IN
       /\ ack' = [ack EXCEPT ![k].state = IF refused THEN "terminal" ELSE "syncing"]
       /\ aws' = aws \cup {k}
  /\ UNCHANGED <<server, claimCache, nsCache, identity, data, proc, worker, counters>>

AckSyncs(k) ==
  /\ ack[k] # Absent /\ ack[k].state = "syncing" /\ ~ack[k].del
  /\ ack' = [ack EXCEPT ![k].state = "synced"]
  /\ UNCHANGED <<server, claimCache, nsCache, identity, aws, data, proc, worker, counters>>

AckFails(k) ==
  /\ ack[k] # Absent /\ ack[k].state = "new" /\ k \notin aws
  /\ ack' = [ack EXCEPT ![k].state = "terminal"]
  /\ UNCHANGED <<server, claimCache, nsCache, identity, aws, data, proc, worker, counters>>

(* AWS deletes no bucket that holds data. *)
AckDeletes(k) ==
  /\ ack[k] # Absent /\ ack[k].del
  /\ ack[k].retain \/ k = "Role" \/ ~data
  /\ aws' = IF ack[k].retain THEN aws ELSE aws \ {k}
  /\ ack' = [ack EXCEPT ![k] = Absent]
  /\ UNCHANGED <<server, claimCache, nsCache, identity, data, proc, worker, counters>>

RemoveContent(k) ==
  /\ ns = "terminating"
  /\ ack[k] # Absent /\ ~ack[k].del
  /\ ack' = [ack EXCEPT ![k] = Deleted(@)]
  /\ UNCHANGED <<server, claimCache, nsCache, identity, aws, data, proc, worker, counters>>

RemoveNamespace ==
  /\ ns = "terminating" /\ \A k \in AckKinds : ack[k] = Absent
  /\ StoreNamespace("absent")
  /\ identity' = FALSE
  /\ UNCHANGED <<claim, status, claimCache, nsView, ack, aws, data, proc, worker, counters>>

-----------------------------------------------------------------------------
Controller ==
  \/ Begin \/ AddFinalizer \/ ApplyNext \/ ApplyFails \/ ReadNext \/ WriteStatus \/ Finalize

Next ==
  \/ Start \/ Stop \/ DeliverClaim \/ DeliverNamespace
  \/ Begin \/ AddFinalizer \/ ApplyNext \/ ApplyFails \/ ReadNext \/ WriteStatus \/ Finalize
  \/ CreateClaim \/ DeleteClaim \/ DeleteNamespace \/ PodWrites \/ RebuildCluster
  \/ \E k \in AckKinds :
       \/ DeleteObject(k) \/ AckCreates(k) \/ AckSyncs(k) \/ AckFails(k) \/ AckDeletes(k)
       \/ RemoveContent(k)
  \/ RemoveNamespace

Spec == Init /\ [][Next]_vars

(* A reconcile that started is finished and another one follows within a   *)
(* minute; watches deliver; ACK and the namespace controller get to their  *)
(* work.                                                                   *)
Fairness ==
  /\ WF_vars(Controller) /\ WF_vars(RemoveNamespace)
  /\ WF_vars(DeliverClaim) /\ WF_vars(DeliverNamespace)
  /\ \A k \in AckKinds :
       /\ WF_vars(AckCreates(k)) /\ WF_vars(AckSyncs(k)) /\ WF_vars(AckDeletes(k))
       /\ WF_vars(RemoveContent(k))

FairSpec == Spec /\ Fairness

-----------------------------------------------------------------------------
(* Properties *)

(***************************************************************************)
(* Data outlives YAML: no step of anyone, deleting the claim, its objects  *)
(* or the cluster included, takes away a bucket AWS has                    *)
(* (BuildStorageBucket, finalize).                                         *)
(***************************************************************************)
BucketOutlivesClaim == [][aws \ aws' \subseteq {"Role"}]_vars

(***************************************************************************)
(* A deleted claim leaves no role behind: as long as AWS has the role, a   *)
(* claim holds it with its finalizer, unless the whole cluster went first  *)
(* (finalize, applyFinalizer, BuildStorageRole).                           *)
(***************************************************************************)
RoleGoesWithClaim == "Role" \in aws /\ rebuilds = 0 => claim \in {"held", "going"}

(***************************************************************************)
(* StorageReady is True only if the reconcile that said so found both the  *)
(* role and the bucket created in AWS, each when it was read, or else on   *)
(* its way out with a status ACK had not taken back (evaluateStorage,      *)
(* storageCondition, ackConditions).                                       *)
(***************************************************************************)
ReadyMeansCreated ==
  status.ready = "True" => status.saw = AckKinds

(***************************************************************************)
(* A claim that stays, on a linked cluster whose AWS account refuses       *)
(* nothing new for good, ends up with its storage, also when an earlier    *)
(* claim or an earlier cluster left its role or bucket in AWS              *)
(* (BuildStorageRole, BuildStorageBucket, Reconcile's requeue).            *)
(***************************************************************************)
StorageSettles ==
  <>[](/\ proc = "linked" /\ claim \in {"free", "held"}
       /\ \A k \in AckKinds \ aws : ack[k] = Absent \/ ack[k].state # "terminal")
    => <>[](status.ready = "True")

(***************************************************************************)
(* A deleted claim goes away even though its bucket holds data, as long as *)
(* the controller runs (BuildStorageBucket, finalize).                     *)
(***************************************************************************)
StorageReleased ==
  <>[](proc # "down") =>
    (claim = "going" ~> claim # "going")
=============================================================================
