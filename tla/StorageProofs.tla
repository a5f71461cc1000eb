--------------------------- MODULE StorageProofs ---------------------------
(***************************************************************************)
(* What the storage of a claim promises, for any number of claims, faults, *)
(* restarts and rebuilds and caches that lag by any number of versions:    *)
(* data outlives the claim, StorageReady means that a reconcile saw both   *)
(* role and bucket, and a deleted claim loses no stage on its way out.     *)
(* That its role goes with it asks for a Namespace cache that is up to     *)
(* date when finalize reads it.  ACK, AWS and the namespace controller are *)
(* as Storage says.                                                        *)
(***************************************************************************)
EXTENDS Storage, InformerLemmas, TLAPS

-----------------------------------------------------------------------------
(* Types *)

States == {"notfound", "unreadable", "terminal", "syncing", "synced"}

(* A reconcile has a process. *)
BusyInv == pc # "idle" => proc # "down"

(* The parts of TypeOK. *)
CacheTypes ==
  /\ claim \in Phases /\ view \in Phases /\ watch \in Seq(Phases)
  /\ ns \in NamespaceStates /\ nsView \in NamespaceStates /\ nsWatch \in Seq(NamespaceStates)

WorkTypes ==
  /\ status \in [ready : Statuses \cup {"none"}, saw : SUBSET AckKinds]
  /\ ack \in [AckKinds -> AckObjects \cup {Absent}]
  /\ identity \in BOOLEAN /\ aws \subseteq AckKinds /\ data \in BOOLEAN
  /\ proc \in {"down", "linked", "unlinked"}
  /\ pc \in {"idle", "finalizer", "apply", "read", "status", "finalize"}
  /\ todo \subseteq (IF pc = "apply" THEN Plan ELSE DOMAIN StorageTypes)
  /\ observed \in Seq(States)
  /\ saw \subseteq AckKinds
  /\ created \in 0 .. MaxClaims /\ tampers \in 0 .. MaxTampers /\ faults \in 0 .. MaxFaults
  /\ restarts \in 0 .. MaxRestarts /\ rebuilds \in 0 .. MaxRebuilds

WorkInv == WorkTypes /\ BusyInv

TypeInv == CacheTypes /\ WorkInv

(* The bounds, one by one. *)
LEMMA Bounds ==
  /\ MaxClaims \in Nat /\ MaxTampers \in Nat /\ MaxFaults \in Nat
  /\ MaxRestarts \in Nat /\ MaxRebuilds \in Nat
BY StorageBoundsAssumption

(* A write of the claim, or of the Namespace, is a version of it. *)
LEMMA StoreType ==
  ASSUME CacheTypes
  PROVE  /\ \A c \in Phases : StoreClaim(c) => claim' \in Phases /\ watch' \in Seq(Phases)
         /\ \A n \in NamespaceStates :
              StoreNamespace(n) => ns' \in NamespaceStates /\ nsWatch' \in Seq(NamespaceStates)
<1>1. ASSUME NEW c \in Phases, StoreClaim(c) PROVE claim' \in Phases /\ watch' \in Seq(Phases)
  BY <1>1, AppendProperties DEF CacheTypes, StoreClaim
<1>2. ASSUME NEW n \in NamespaceStates, StoreNamespace(n)
      PROVE  ns' \in NamespaceStates /\ nsWatch' \in Seq(NamespaceStates)
  BY <1>2, AppendProperties DEF CacheTypes, StoreNamespace
<1> QED BY <1>1, <1>2

(* An object the controller applies is as its builder says. *)
LEMMA NewObjectType ==
  ASSUME NEW k \in AckKinds
  PROVE  /\ NewObject(k) \in AckObjects /\ NewObject(k).state = "new" /\ ~NewObject(k).del
         /\ NewObject(k).adopt = TRUE
         /\ k = "Bucket" => NewObject(k).retain = TRUE
         /\ k = "Role" => NewObject(k).retain = FALSE
<1>1. CASE k = "Role"
  BY <1>1 DEF NewObject, BuildStorageRole, AckObjects
<1>2. CASE k = "Bucket"
  BY <1>2 DEF NewObject, BuildStorageBucket, AckObjects
<1> QED BY <1>1, <1>2 DEF AckKinds

(* Deleting an object removes it or marks it, and changes nothing else. *)
LEMMA DeletedType ==
  ASSUME NEW o \in AckObjects
  PROVE  /\ o.state \in {"new", "terminal"} => Deleted(o) = Absent
         /\ o.state \notin {"new", "terminal"} =>
              /\ Deleted(o) \in AckObjects /\ Deleted(o).state = o.state /\ Deleted(o).del = TRUE
              /\ Deleted(o).adopt = o.adopt /\ Deleted(o).retain = o.retain
BY DEF Deleted, AckObjects

(* Nor does what ACK reports. *)
LEMMA ReportedType ==
  ASSUME NEW o \in AckObjects, NEW st \in {"new", "syncing", "synced", "terminal"}, NEW p,
         p = [o EXCEPT !.state = st]
  PROVE  /\ p \in AckObjects /\ p.state = st /\ p.del = o.del
         /\ p.adopt = o.adopt /\ p.retain = o.retain
BY DEF AckObjects

(* What StorageReady can be. *)
LEMMA StorageStatus ==
  ASSUME NEW l, NEW o
  PROVE  evaluateStorage(l, o).status \in Statuses
BY DEF evaluateStorage, storageCondition, storageVerdict, Condition, Statuses

(* Nobody else touches the worker: its part of the invariant holds still. *)
LEMMA WorkerHolds ==
  ASSUME TypeInv, UNCHANGED <<proc, worker>>
  PROVE  /\ pc' \in {"idle", "finalizer", "apply", "read", "status", "finalize"}
         /\ (todo \subseteq (IF pc = "apply" THEN Plan ELSE DOMAIN StorageTypes))'
         /\ observed' \in Seq(States) /\ saw' \subseteq AckKinds
<1>1. pc' = pc /\ todo' = todo /\ observed' = observed /\ saw' = saw /\ proc' = proc
  BY DEF worker
<1>2. Plan' = Plan
  BY <1>1 DEF Plan, KindAt, linked
<1> QED BY <1>1, <1>2 DEF TypeInv, WorkInv, WorkTypes, States

(* A worker that goes idle. *)
LEMMA IdleHolds ==
  ASSUME Idle
  PROVE  /\ pc' = "idle"
         /\ (todo \subseteq (IF pc = "apply" THEN Plan ELSE DOMAIN StorageTypes))'
         /\ observed' \in Seq(States) /\ saw' \subseteq AckKinds
BY EmptySeq DEF Idle, States

LEMMA StartType == ASSUME TypeInv, Start PROVE WorkInv'
<1>1. pc = "idle"
  BY DEF TypeInv, WorkInv, BusyInv, Start
<1>2. proc' \in {"down", "linked", "unlinked"}
  BY DEF Start, storageForCluster
<1>3. pc' = "idle" /\ todo' = todo /\ observed' = observed /\ saw' = saw
  BY <1>1 DEF Start, worker
<1> QED BY <1>1, <1>2, <1>3 DEF TypeInv, WorkInv, WorkTypes, BusyInv, Start, server, counters

LEMMA StopType == ASSUME TypeInv, Stop PROVE WorkInv'
<1>1. restarts' \in 0 .. MaxRestarts
  BY Bounds DEF TypeInv, WorkInv, WorkTypes, Stop
<1> QED BY <1>1, IdleHolds DEF TypeInv, WorkInv, WorkTypes, BusyInv, Stop, server

LEMMA BeginType == ASSUME TypeInv, Begin PROVE WorkInv'
<1>1. Plan' = Plan
  BY DEF Begin, Plan, KindAt, linked
<1>2. (todo \subseteq (IF pc = "apply" THEN Plan ELSE DOMAIN StorageTypes))'
  BY <1>1 DEF Begin
<1>3. BusyInv'
  BY DEF TypeInv, WorkInv, BusyInv, Begin
<1> QED BY <1>2, <1>3 DEF TypeInv, WorkInv, WorkTypes, Begin, server, counters

(* Where a reconcile goes once it has applied what it could. *)
LEMMA ReadingType ==
  ASSUME StartReading
  PROVE  /\ pc' \in {"read", "status"}
         /\ (todo \subseteq (IF pc = "apply" THEN Plan ELSE DOMAIN StorageTypes))'
BY DEF StartReading, StorageTypes

LEMMA ApplyNextType == ASSUME TypeInv, ApplyNext PROVE WorkInv'
<1>1. PICK i \in todo : LET k == KindAt(i) IN
        /\ ack' = IF k \in AckKinds /\ ack[k] = Absent
                  THEN [ack EXCEPT ![k] = NewObject(k)] ELSE ack
        /\ identity' = IF k = "Rollout" THEN withStorageIdentity ELSE identity
        /\ IF todo = {i} THEN StartReading
           ELSE todo' = todo \ {i} /\ UNCHANGED pc
  BY DEF ApplyNext
<1>2. ack' \in [AckKinds -> AckObjects \cup {Absent}]
  BY <1>1, NewObjectType DEF TypeInv, WorkInv, WorkTypes
<1>3. identity' \in BOOLEAN
  BY <1>1 DEF TypeInv, WorkInv, WorkTypes, withStorageIdentity, HasStorage, Claimed
<1>4. Plan' = Plan
  BY DEF ApplyNext, Plan, KindAt, linked
<1>5. /\ pc' \in {"apply", "read", "status"}
      /\ (todo \subseteq (IF pc = "apply" THEN Plan ELSE DOMAIN StorageTypes))'
  <2>1. CASE todo = {i}
    BY <1>1, <2>1, ReadingType
  <2>2. CASE todo # {i}
    BY <1>1, <1>4, <2>2 DEF TypeInv, WorkInv, WorkTypes, ApplyNext
  <2> QED BY <2>1, <2>2
<1>6. BusyInv'
  BY <1>5 DEF TypeInv, WorkInv, BusyInv, ApplyNext
<1> QED BY <1>1, <1>2, <1>3, <1>5, <1>6 DEF TypeInv, WorkInv, WorkTypes, ApplyNext, counters

LEMMA FaultType == ASSUME TypeInv, Fault PROVE faults' \in 0 .. MaxFaults
BY Bounds DEF TypeInv, WorkInv, WorkTypes, Fault

LEMMA ApplyFailsType == ASSUME TypeInv, ApplyFails PROVE WorkInv'
<1>1. faults' \in 0 .. MaxFaults
  BY FaultType DEF ApplyFails, FailsWhen, TypeInv, WorkInv, WorkTypes
<1>2. /\ pc' \in {"read", "status"}
      /\ (todo \subseteq (IF pc = "apply" THEN Plan ELSE DOMAIN StorageTypes))'
  BY ReadingType DEF ApplyFails
<1>3. BusyInv'
  BY DEF TypeInv, WorkInv, BusyInv, ApplyFails
<1> QED BY <1>1, <1>2, <1>3 DEF TypeInv, WorkInv, WorkTypes, ApplyFails, server

LEMMA AddFinalizerType == ASSUME TypeInv, AddFinalizer PROVE WorkInv'
<1>1. faults' \in 0 .. MaxFaults
  BY FaultType DEF AddFinalizer, FailsWhen, TypeInv, WorkInv, WorkTypes
<1>2. BusyInv'
  BY DEF TypeInv, WorkInv, BusyInv, AddFinalizer, Idle
<1>3. CASE Idle
  BY <1>1, <1>2, <1>3, IdleHolds DEF TypeInv, WorkInv, WorkTypes, AddFinalizer
<1>4. CASE pc' = "apply" /\ todo' = Plan /\ UNCHANGED <<observed, saw>>
  <2>1. Plan' = Plan
    BY DEF AddFinalizer, Plan, KindAt, linked
  <2> QED BY <1>1, <1>2, <1>4, <2>1 DEF TypeInv, WorkInv, WorkTypes, AddFinalizer
<1> QED BY <1>3, <1>4 DEF AddFinalizer

(* What a read returns, and what is in AWS or on its way out then. *)
LEMMA ReadType ==
  ASSUME TypeInv, NEW i \in {1, 2}
  PROVE  StorageTypes[i] \in AckKinds /\ ackConditions(ack[StorageTypes[i]]) \in States
<1>1. StorageTypes[i] \in AckKinds
  BY DEF StorageTypes, AckKinds
<1> QED BY <1>1 DEF TypeInv, WorkInv, WorkTypes, ackConditions, AckObjects, States

LEMMA ReadNextType == ASSUME TypeInv, ReadNext PROVE WorkInv'
<1>1. PICK i \in todo : LET k == StorageTypes[i] IN
        /\ \/ observed' = Append(observed, ackConditions(ack[k])) /\ UNCHANGED faults
           \/ observed' = Append(observed, "unreadable") /\ Fault
        /\ saw' = saw \cup {j \in {k} : j \in aws \/ (ack[j] # Absent /\ ack[j].del)}
        /\ todo' = todo \ {i}
        /\ pc' = IF todo = {i} THEN "status" ELSE "read"
  BY DEF ReadNext
<1>2. i \in {1, 2}
  BY <1>1 DEF TypeInv, WorkInv, WorkTypes, ReadNext, StorageTypes
<1>3. observed' \in Seq(States)
  <2>1. observed \in Seq(States) /\ "unreadable" \in States
    BY DEF TypeInv, WorkInv, WorkTypes, States
  <2> QED BY <1>1, <1>2, <2>1, ReadType, AppendProperties
<1>4. saw' \subseteq AckKinds
  BY <1>1, <1>2, ReadType DEF TypeInv, WorkInv, WorkTypes
<1>5. faults' \in 0 .. MaxFaults
  BY <1>1, FaultType DEF TypeInv, WorkInv, WorkTypes
<1>6. (todo \subseteq (IF pc = "apply" THEN Plan ELSE DOMAIN StorageTypes))'
  BY <1>1 DEF TypeInv, WorkInv, WorkTypes, ReadNext, StorageTypes
<1>7. BusyInv'
  BY <1>1 DEF TypeInv, WorkInv, BusyInv, ReadNext
<1>8. pc' \in {"read", "status"}
  BY <1>1
<1> QED BY <1>3, <1>4, <1>5, <1>6, <1>7, <1>8 DEF TypeInv, WorkInv, WorkTypes, ReadNext, server

LEMMA WriteStatusType == ASSUME TypeInv, WriteStatus PROVE WorkInv'
<1>1. status' \in [ready : Statuses \cup {"none"}, saw : SUBSET AckKinds]
  BY StorageStatus DEF TypeInv, WorkInv, WorkTypes, WriteStatus
<1>2. faults' \in 0 .. MaxFaults
  BY FaultType DEF WriteStatus, FailsWhen, TypeInv, WorkInv, WorkTypes
<1> QED BY <1>1, <1>2, IdleHolds DEF TypeInv, WorkInv, WorkTypes, BusyInv, WriteStatus

(* The status of a claim that goes. *)
LEMMA NoStatusType == NoStatus \in [ready : Statuses \cup {"none"}, saw : SUBSET AckKinds]
BY DEF NoStatus

LEMMA FinalizeType == ASSUME TypeInv, Finalize PROVE WorkInv'
<1>1. faults' \in 0 .. MaxFaults
  BY FaultType DEF Finalize, FailsWhen, TypeInv, WorkInv, WorkTypes
<1>2. status' \in [ready : Statuses \cup {"none"}, saw : SUBSET AckKinds]
  BY NoStatusType DEF Finalize, TypeInv, WorkInv, WorkTypes
<1> QED BY <1>1, <1>2, IdleHolds DEF TypeInv, WorkInv, WorkTypes, BusyInv, Finalize

LEMMA CreateClaimType == ASSUME TypeInv, CreateClaim PROVE WorkInv'
<1>1. created' \in 0 .. MaxClaims
  BY Bounds DEF TypeInv, WorkInv, WorkTypes, CreateClaim
<1>2. BusyInv'
  BY DEF TypeInv, WorkInv, BusyInv, CreateClaim, worker
<1> QED BY <1>1, <1>2, WorkerHolds DEF TypeInv, WorkInv, WorkTypes, CreateClaim

LEMMA DeleteClaimType == ASSUME TypeInv, DeleteClaim PROVE WorkInv'
<1>1. status' \in [ready : Statuses \cup {"none"}, saw : SUBSET AckKinds]
  BY NoStatusType DEF DeleteClaim, TypeInv, WorkInv, WorkTypes
<1>2. BusyInv'
  BY DEF TypeInv, WorkInv, BusyInv, DeleteClaim, worker
<1> QED BY <1>1, <1>2, WorkerHolds DEF TypeInv, WorkInv, WorkTypes, DeleteClaim, counters

LEMMA DeleteNamespaceType == ASSUME TypeInv, DeleteNamespace PROVE WorkInv'
<1>1. tampers' \in 0 .. MaxTampers
  BY Bounds DEF TypeInv, WorkInv, WorkTypes, DeleteNamespace, Tamper
<1>2. BusyInv'
  BY DEF TypeInv, WorkInv, BusyInv, DeleteNamespace, worker
<1> QED BY <1>1, <1>2, WorkerHolds DEF TypeInv, WorkInv, WorkTypes, DeleteNamespace

LEMMA RebuildType == ASSUME TypeInv, RebuildCluster PROVE WorkInv'
<1>1. rebuilds' \in 0 .. MaxRebuilds
  BY Bounds DEF TypeInv, WorkInv, WorkTypes, RebuildCluster
<1> QED BY <1>1, IdleHolds, NoStatusType DEF TypeInv, WorkInv, WorkTypes, BusyInv, RebuildCluster

(* The steps on one ACK object. *)
AckStep(k) ==
  \/ DeleteObject(k) \/ AckCreates(k) \/ AckSyncs(k) \/ AckFails(k) \/ AckDeletes(k)
  \/ RemoveContent(k)

(* Each of them changes that object alone, and leaves it one or takes it   *)
(* away.                                                                   *)
LEMMA AckStepObject ==
  ASSUME TypeInv, NEW k \in AckKinds, AckStep(k)
  PROVE  /\ ack[k] \in AckObjects
         /\ \E o \in AckObjects \cup {Absent} :
              /\ ack' = [ack EXCEPT ![k] = o]
              /\ o # Absent => o.retain = ack[k].retain /\ o.adopt = ack[k].adopt
         /\ UNCHANGED <<server, claimCache, nsCache, identity, data, proc, worker>>
         /\ UNCHANGED <<created, faults, restarts, rebuilds>>
<1>1. ack[k] \in AckObjects
  BY DEF AckStep, DeleteObject, AckCreates, AckSyncs, AckFails, AckDeletes, RemoveContent,
         TypeInv, WorkInv, WorkTypes
<1>2. \E o \in AckObjects \cup {Absent} :
        /\ ack' = [ack EXCEPT ![k] = o]
        /\ o # Absent => o.retain = ack[k].retain /\ o.adopt = ack[k].adopt
  <2>1. CASE ack' = [ack EXCEPT ![k] = Absent]
    BY <2>1
  <2>2. CASE ack' = [ack EXCEPT ![k] = Deleted(@)]
    <3>1. PICK o : o = Deleted(ack[k])
      OBVIOUS
    <3>2. ack' = [ack EXCEPT ![k] = o]
      BY <2>2, <3>1
    <3>3. /\ o \in AckObjects \cup {Absent}
          /\ o # Absent => o.retain = ack[k].retain /\ o.adopt = ack[k].adopt
      BY <1>1, <3>1, DeletedType DEF AckObjects
    <3> QED BY <3>2, <3>3
  <2>3. ASSUME NEW st \in {"new", "syncing", "synced", "terminal"},
               ack' = [ack EXCEPT ![k].state = st]
        PROVE  \E o \in AckObjects \cup {Absent} :
                 /\ ack' = [ack EXCEPT ![k] = o]
                 /\ o # Absent => o.retain = ack[k].retain /\ o.adopt = ack[k].adopt
    <3>1. PICK o : o = [ack[k] EXCEPT !.state = st]
      OBVIOUS
    <3>2. ack' = [ack EXCEPT ![k] = o]
      BY <2>3, <3>1
    <3>3. o \in AckObjects /\ o.retain = ack[k].retain /\ o.adopt = ack[k].adopt
      BY <1>1, <3>1, ReportedType
    <3> QED BY <3>2, <3>3
  <2> QED
    BY <2>1, <2>2, <2>3
    DEF AckStep, DeleteObject, AckCreates, AckSyncs, AckFails, AckDeletes, RemoveContent
<1>3. /\ UNCHANGED <<server, claimCache, nsCache, identity, data, proc, worker>>
      /\ UNCHANGED <<created, faults, restarts, rebuilds>>
  BY DEF AckStep, DeleteObject, AckCreates, AckSyncs, AckFails, AckDeletes, RemoveContent,
         counters
<1> QED BY <1>1, <1>2, <1>3

LEMMA AckStepType ==
  ASSUME TypeInv, NEW k \in AckKinds, AckStep(k) PROVE WorkInv'
<1>1. ack' \in [AckKinds -> AckObjects \cup {Absent}]
  BY AckStepObject DEF TypeInv, WorkInv, WorkTypes
<1>2. aws' \subseteq AckKinds
  BY DEF AckStep, DeleteObject, AckCreates, AckSyncs, AckFails, AckDeletes, RemoveContent,
         TypeInv, WorkInv, WorkTypes
<1>3. tampers' \in 0 .. MaxTampers
  BY Bounds
  DEF AckStep, DeleteObject, Tamper, AckCreates, AckSyncs, AckFails, AckDeletes, RemoveContent,
      TypeInv, WorkInv, WorkTypes, counters
<1>4. /\ UNCHANGED <<server, claimCache, nsCache, identity, data, proc, worker>>
      /\ UNCHANGED <<created, faults, restarts, rebuilds>>
  BY AckStepObject
<1>5. BusyInv'
  BY <1>4 DEF TypeInv, WorkInv, BusyInv, worker
<1> QED BY <1>1, <1>2, <1>3, <1>4, <1>5, WorkerHolds DEF TypeInv, WorkInv, WorkTypes, server

(* The informers and the pods leave the worker alone. *)
LEMMA RestType ==
  ASSUME TypeInv,
         DeliverClaim \/ DeliverNamespace \/ PodWrites \/ RemoveNamespace \/ UNCHANGED vars
  PROVE  WorkInv'
<1>1. UNCHANGED <<proc, worker>>
  BY DEF DeliverClaim, DeliverNamespace, PodWrites, RemoveNamespace, vars
<1>2. BusyInv'
  BY <1>1 DEF TypeInv, WorkInv, BusyInv, worker
<1>3. UNCHANGED <<status, ack, aws, counters>> /\ identity' \in BOOLEAN /\ data' \in BOOLEAN
  BY DEF DeliverClaim, DeliverNamespace, PodWrites, RemoveNamespace, vars, server,
         TypeInv, WorkInv, WorkTypes
<1> QED BY <1>1, <1>2, <1>3, WorkerHolds DEF TypeInv, WorkInv, WorkTypes, counters

(* The steps of Next. *)
LEMMA NextSteps ==
  ASSUME [Next]_vars
  PROVE  \/ Start \/ Stop \/ Begin \/ AddFinalizer \/ ApplyNext \/ ApplyFails \/ ReadNext
         \/ WriteStatus \/ Finalize \/ CreateClaim \/ DeleteClaim \/ DeleteNamespace
         \/ RebuildCluster
         \/ \E k \in AckKinds : AckStep(k)
         \/ (DeliverClaim \/ DeliverNamespace \/ PodWrites \/ RemoveNamespace \/ UNCHANGED vars)
BY Zenon DEF Next, AckStep

LEMMA TypeInit == ASSUME Init PROVE TypeInv
<1>1. observed \in Seq(States) /\ watch \in Seq(Phases) /\ nsWatch \in Seq(NamespaceStates)
  BY EmptySeq DEF Init
<1>2. /\ created \in 0 .. MaxClaims /\ tampers \in 0 .. MaxTampers /\ faults \in 0 .. MaxFaults
      /\ restarts \in 0 .. MaxRestarts /\ rebuilds \in 0 .. MaxRebuilds
  BY Bounds DEF Init
<1>3. ack \in [AckKinds -> AckObjects \cup {Absent}]
  BY DEF Init
<1>4. CacheTypes
  BY <1>1 DEF Init, CacheTypes, Phases, NamespaceStates
<1> QED BY <1>1, <1>2, <1>3, <1>4, NoStatusType DEF Init, TypeInv, WorkInv, WorkTypes, BusyInv

(* Only phases and states of a Namespace reach the caches. *)
LEMMA CacheStep == ASSUME TypeInv, [Next]_vars PROVE CacheTypes'
<1> USE DEF server, claimCache, nsCache
<1>1. CacheTypes
  BY DEF TypeInv
<1>2. ASSUME UNCHANGED <<claim, view, watch, ns, nsView, nsWatch>> PROVE CacheTypes'
  BY <1>1, <1>2 DEF CacheTypes
<1>3. CASE Stop \/ Begin \/ ApplyFails \/ ReadNext \/ WriteStatus \/ PodWrites \/ UNCHANGED vars
  BY <1>2, <1>3 DEF Stop, Begin, ApplyFails, ReadNext, WriteStatus, PodWrites, vars
<1>4. ASSUME NEW k \in AckKinds, AckStep(k) PROVE CacheTypes'
  BY <1>2, <1>4, AckStepObject
<1>5. ASSUME NEW c \in Phases, StoreClaim(c), UNCHANGED <<view, ns, nsView, nsWatch>>
      PROVE  CacheTypes'
  BY <1>1, <1>5, StoreType DEF CacheTypes
<1>6. ASSUME NEW n \in NamespaceStates, StoreNamespace(n), UNCHANGED <<claim, view, watch, nsView>>
      PROVE  CacheTypes'
  BY <1>1, <1>6, StoreType DEF CacheTypes
<1>7. CASE Start \/ RebuildCluster
  <2>1. /\ claim' \in Phases /\ view' \in Phases /\ watch' = <<>>
        /\ ns' \in NamespaceStates /\ nsView' \in NamespaceStates /\ nsWatch' = <<>>
    BY <1>1, <1>7 DEF Start, RebuildCluster, CacheTypes, Phases, NamespaceStates
  <2> QED BY <2>1, EmptySeq DEF CacheTypes
<1>8. CASE AddFinalizer
  BY <1>1, <1>2, <1>5, <1>8 DEF AddFinalizer, CacheTypes, Phases
<1>9. CASE ApplyNext
  <2>1. PICK n \in NamespaceStates : StoreNamespace(n)
    BY <1>1, <1>9 DEF ApplyNext, CacheTypes, NamespaceStates
  <2> QED BY <1>6, <1>9, <2>1 DEF ApplyNext
<1>10. CASE Finalize
  <2>1. \/ \E c \in Phases : StoreClaim(c) /\ UNCHANGED <<ns, nsWatch>>
        \/ \E n \in NamespaceStates : StoreNamespace(n) /\ UNCHANGED <<claim, watch>>
        \/ UNCHANGED <<claim, watch, ns, nsWatch>>
    BY <1>1, <1>10 DEF Finalize, CacheTypes, Phases, NamespaceStates
  <2> QED BY <1>2, <1>5, <1>6, <1>10, <2>1 DEF Finalize
<1>11. CASE CreateClaim \/ DeleteClaim
  <2>1. \E c \in Phases : StoreClaim(c)
    BY <1>11 DEF CreateClaim, DeleteClaim, Phases
  <2> QED BY <1>5, <1>11, <2>1 DEF CreateClaim, DeleteClaim
<1>12. CASE DeleteNamespace \/ RemoveNamespace
  <2>1. \E n \in NamespaceStates : StoreNamespace(n)
    BY <1>12 DEF DeleteNamespace, RemoveNamespace, NamespaceStates
  <2> QED BY <1>6, <1>12, <2>1 DEF DeleteNamespace, RemoveNamespace
<1>13. CASE DeliverClaim
  <2>1. Head(watch) \in Phases /\ Tail(watch) \in Seq(Phases)
    BY <1>1, <1>13, HeadTailProperties DEF DeliverClaim, CacheTypes
  <2> QED BY <1>1, <1>13, <2>1 DEF DeliverClaim, CacheTypes
<1>14. CASE DeliverNamespace
  <2>1. Head(nsWatch) \in NamespaceStates /\ Tail(nsWatch) \in Seq(NamespaceStates)
    BY <1>1, <1>14, HeadTailProperties DEF DeliverNamespace, CacheTypes
  <2> QED BY <1>1, <1>14, <2>1 DEF DeliverNamespace, CacheTypes
<1> QED BY <1>3, <1>4, <1>7, <1>8, <1>9, <1>10, <1>11, <1>12, <1>13, <1>14, NextSteps, Zenon

LEMMA TypeStep == ASSUME TypeInv, [Next]_vars PROVE TypeInv'
<1>1. WorkInv'
  BY NextSteps, StartType, StopType, BeginType, AddFinalizerType, ApplyNextType, ApplyFailsType,
     ReadNextType, WriteStatusType, FinalizeType, CreateClaimType, DeleteClaimType,
     DeleteNamespaceType, RebuildType, AckStepType, RestType, Zenon
<1> QED BY <1>1, CacheStep DEF TypeInv

(***************************************************************************)
(* The stored claim, its objects, what AWS has, and the reconcile's        *)
(* progress through Build and the reads keep their types.                  *)
(***************************************************************************)
THEOREM TypeCorrect == Spec => []TypeOK
<1>1. Init => TypeInv
  BY TypeInit
<1>2. TypeInv /\ [Next]_vars => TypeInv'
  BY TypeStep
<1>3. TypeInv => TypeOK
  BY DEF TypeInv, CacheTypes, WorkInv, WorkTypes, TypeOK, States
<1> QED BY <1>1, <1>2, <1>3, PTL DEF Spec

-----------------------------------------------------------------------------
(* The bucket stays *)

(* Every Bucket object tells ACK to leave the bucket in AWS. *)
BucketInv == ack["Bucket"] # Absent => ack["Bucket"].retain

(* The steps in which no ACK object is at hand. *)
OtherStep ==
  \/ Start \/ Stop \/ Begin \/ AddFinalizer \/ ApplyFails \/ ReadNext \/ WriteStatus \/ Finalize
  \/ CreateClaim \/ DeleteClaim \/ DeleteNamespace
  \/ DeliverClaim \/ DeliverNamespace \/ PodWrites \/ RemoveNamespace \/ UNCHANGED vars

LEMMA AckSteps ==
  ASSUME [Next]_vars
  PROVE  OtherStep \/ ApplyNext \/ RebuildCluster \/ \E k \in AckKinds : AckStep(k)
BY NextSteps, Zenon DEF OtherStep

LEMMA AckKeeps ==
  ASSUME OtherStep
  PROVE  ack' = ack /\ aws' = aws /\ rebuilds' = rebuilds
BY DEF OtherStep, Start, Stop, Begin, AddFinalizer, ApplyFails, ReadNext, WriteStatus, Finalize,
       CreateClaim, DeleteClaim, DeleteNamespace, DeliverClaim, DeliverNamespace, PodWrites,
       RemoveNamespace, vars, counters

(* What an apply makes of an ACK object. *)
LEMMA AckApplied ==
  ASSUME TypeInv, ApplyNext, NEW k \in AckKinds
  PROVE  /\ ack'[k] = ack[k] \/ (ack[k] = Absent /\ ack'[k] = NewObject(k))
         /\ aws' = aws /\ rebuilds' = rebuilds
<1>1. PICK j : ack' = IF j \in AckKinds /\ ack[j] = Absent
                      THEN [ack EXCEPT ![j] = NewObject(j)] ELSE ack
  BY DEF ApplyNext
<1>2. ack'[k] = ack[k] \/ (ack[k] = Absent /\ ack'[k] = NewObject(k))
  BY <1>1 DEF TypeInv, WorkInv, WorkTypes
<1> QED BY <1>2 DEF ApplyNext, counters

LEMMA BucketStep ==
  ASSUME TypeInv, BucketInv, [Next]_vars PROVE BucketInv'
<1>1. CASE OtherStep
  BY <1>1, AckKeeps DEF BucketInv
<1>2. CASE ApplyNext
  <2>1. "Bucket" \in AckKinds
    BY DEF AckKinds
  <2> QED BY <1>2, <2>1, AckApplied, NewObjectType DEF BucketInv
<1>3. CASE RebuildCluster
  BY <1>3 DEF RebuildCluster, BucketInv, AckKinds
<1>4. ASSUME NEW k \in AckKinds, AckStep(k) PROVE BucketInv'
  <2>1. PICK o \in AckObjects \cup {Absent} :
          /\ ack' = [ack EXCEPT ![k] = o]
          /\ o # Absent => o.retain = ack[k].retain /\ o.adopt = ack[k].adopt
    BY <1>4, AckStepObject
  <2>2. ack[k] # Absent
    BY <1>4, AckStepObject, MarkersAssumption
  <2>3. ack \in [AckKinds -> AckObjects \cup {Absent}]
    BY DEF TypeInv, WorkInv, WorkTypes
  <2> QED BY <2>1, <2>2, <2>3 DEF BucketInv, AckKinds
<1> QED BY <1>1, <1>2, <1>3, <1>4, AckSteps, Zenon

(* A step that takes a kind out of AWS is ACK's, and it was told to. *)
LEMMA AwsLoses ==
  ASSUME TypeInv, BucketInv, [Next]_vars PROVE aws \ aws' \subseteq {"Role"}
<1>1. CASE OtherStep
  BY <1>1, AckKeeps
<1>2. CASE ApplyNext \/ RebuildCluster
  BY <1>2 DEF ApplyNext, RebuildCluster
<1>3. ASSUME NEW k \in AckKinds, AckStep(k) PROVE aws \ aws' \subseteq {"Role"}
  <2>1. CASE AckDeletes(k)
    BY <2>1 DEF AckDeletes, BucketInv, AckKinds
  <2>2. CASE ~AckDeletes(k)
    BY <1>3, <2>2
    DEF AckStep, DeleteObject, AckCreates, AckSyncs, AckFails, RemoveContent
  <2> QED BY <2>1, <2>2
<1> QED BY <1>1, <1>2, <1>3, AckSteps, Zenon

(***************************************************************************)
(* Data outlives YAML, for any number of claims, deletions, faults and     *)
(* rebuilds: BuildStorageBucket has ACK keep every bucket, nothing changes *)
(* that on an object, and ACK alone takes anything out of AWS.             *)
(***************************************************************************)
THEOREM BucketStays == Spec => BucketOutlivesClaim
<1>1. Init => TypeInv /\ BucketInv
  BY TypeInit DEF Init, BucketInv, AckKinds
<1>2. TypeInv /\ BucketInv /\ [Next]_vars => TypeInv' /\ BucketInv'
  BY TypeStep, BucketStep
<1>3. TypeInv /\ BucketInv /\ [Next]_vars => [aws \ aws' \subseteq {"Role"}]_vars
  BY AwsLoses
<1> QED BY <1>1, <1>2, <1>3, PTL DEF Spec, BucketOutlivesClaim

-----------------------------------------------------------------------------
(* The role goes *)

(* What the informers have yet to deliver ends with what is stored, and    *)
(* what the versions of the claim tell: see InformerLemmas.                *)
Line == [i \in 0 .. Len(watch) |-> IF i = 0 THEN view ELSE watch[i]]

NewestIsClaim == Line[Len(watch)] = claim
NewestIsNamespace == (IF nsWatch = <<>> THEN nsView ELSE nsWatch[Len(nsWatch)]) = ns

Unreleased == UnreleasedIn(Line, Len(watch))
NotHeldAgain == NotHeldAgainIn(Line, Len(watch))

(* A reconcile applies for a claim that is held, also when the cache it    *)
(* read is old, and finalizes one that is not held again.                  *)
HoldInv ==
  /\ NewestIsClaim /\ NewestIsNamespace
  /\ Unreleased \/ NotHeldAgain
  /\ pc = "finalizer" => Unreleased
  /\ pc = "finalize" => NotHeldAgain
  /\ pc = "apply" => claim \in {"held", "going"}

(* The parts of HoldInv that are about the caches. *)
LEMMA HoldFrame ==
  /\ UNCHANGED <<claim, view, watch>> =>
       /\ NewestIsClaim' <=> NewestIsClaim
       /\ Unreleased' <=> Unreleased
       /\ NotHeldAgain' <=> NotHeldAgain
  /\ UNCHANGED <<ns, nsView, nsWatch>> => (NewestIsNamespace' <=> NewestIsNamespace)
BY DEF NewestIsClaim, Unreleased, NotHeldAgain, NewestIsNamespace, Line

(* What a write of the claim must do to keep either description of its     *)
(* versions.                                                               *)
LEMMA HoldStore ==
  ASSUME CacheTypes, NewestIsClaim, NEW c \in Phases, StoreClaim(c), view' = view
  PROVE  /\ NewestIsClaim'
         /\ /\ Unreleased
            /\ claim = "going" => c = "going"
            /\ claim = "held" => c \in {"held", "going"}
            => Unreleased'
         /\ /\ NotHeldAgain
            /\ c # "held"
            /\ claim \in {"none", "free"} => c \in {"none", "free"}
            => NotHeldAgain'
<1>1. CASE c = claim
  BY <1>1, HoldFrame DEF StoreClaim
<1>2. CASE c # claim
  <2>1. PICK n \in Nat : n = Len(watch)
    BY LenProperties DEF CacheTypes
  <2>2. /\ watch' = Append(watch, c) /\ claim' = c
        /\ Len(watch') = n + 1 /\ watch'[n + 1] = c
        /\ \A i \in 1 .. n : watch'[i] = watch[i]
    BY <1>2, <2>1, AppendProperties DEF StoreClaim, CacheTypes
  <2>3. PICK p : p = Line
    OBVIOUS
  <2>4. PICK q : q = Line'
    OBVIOUS
  <2>5. p[n] = claim
    BY <2>1, <2>3 DEF NewestIsClaim
  <2>6. q[n + 1] = c
    BY <2>1, <2>2, <2>4 DEF Line
  <2>7. \A i \in 0 .. n : q[i] = p[i]
    <3>1. \A i \in 0 .. n : p[i] = IF i = 0 THEN view ELSE watch[i]
      BY <2>1, <2>3 DEF Line
    <3>2. \A i \in 0 .. n : q[i] = IF i = 0 THEN view ELSE watch'[i]
      BY <2>1, <2>2, <2>4 DEF Line
    <3>3. \A i \in 0 .. n : i # 0 => i \in 1 .. n
      BY <2>1
    <3> QED BY <2>2, <3>1, <3>2, <3>3
  <2>8. /\ Unreleased <=> UnreleasedIn(p, n)
        /\ NotHeldAgain <=> NotHeldAgainIn(p, n)
        /\ Unreleased' <=> UnreleasedIn(q, n + 1)
        /\ NotHeldAgain' <=> NotHeldAgainIn(q, n + 1)
    BY <2>1, <2>2, <2>3, <2>4 DEF Unreleased, NotHeldAgain
  <2>9. NewestIsClaim'
    BY <2>2, <2>4, <2>6 DEF NewestIsClaim
  <2> QED BY <2>5, <2>6, <2>7, <2>8, <2>9, VersionAdded
<1> QED BY <1>1, <1>2

(* A delivery keeps both. *)
LEMMA HoldDeliver ==
  ASSUME CacheTypes, NewestIsClaim, DeliverClaim
  PROVE  /\ NewestIsClaim'
         /\ Unreleased => Unreleased'
         /\ NotHeldAgain => NotHeldAgain'
<1>1. PICK n \in Nat : n + 1 = Len(watch)
  <2>1. Len(watch) \in Nat /\ Len(watch) # 0
    BY LenProperties, EmptySeq DEF CacheTypes, DeliverClaim
  <2> QED BY <2>1
<1>2. Len(watch') = n /\ \A i \in 1 .. n : watch'[i] = watch[i + 1]
  BY <1>1, HeadTailProperties DEF CacheTypes, DeliverClaim
<1>3. view' = watch[1]
  BY <1>1 DEF CacheTypes, DeliverClaim
<1>4. PICK p : p = Line
  OBVIOUS
<1>5. PICK q : q = Line'
  OBVIOUS
<1>6. \A i \in 0 .. n : q[i] = p[i + 1]
  <2>1. \A i \in 0 .. n : p[i + 1] = watch[i + 1]
    BY <1>1, <1>4 DEF Line
  <2>2. \A i \in 0 .. n : q[i] = IF i = 0 THEN watch[1] ELSE watch'[i]
    BY <1>2, <1>3, <1>5 DEF Line
  <2>3. \A i \in 0 .. n : i # 0 => i \in 1 .. n
    BY <1>1
  <2> QED BY <1>2, <2>1, <2>2, <2>3
<1>7. /\ Unreleased <=> UnreleasedIn(p, n + 1)
      /\ NotHeldAgain <=> NotHeldAgainIn(p, n + 1)
      /\ Unreleased' <=> UnreleasedIn(q, n)
      /\ NotHeldAgain' <=> NotHeldAgainIn(q, n)
  BY <1>1, <1>2, <1>4, <1>5 DEF Unreleased, NotHeldAgain
<1>8. NewestIsClaim'
  <2>1. p[n + 1] = claim /\ claim' = claim
    BY <1>1, <1>4 DEF NewestIsClaim, DeliverClaim, server
  <2>2. q[n] = claim'
    BY <1>1, <1>6, <2>1
  <2> QED BY <1>2, <1>5, <2>2 DEF NewestIsClaim
<1> QED BY <1>6, <1>7, <1>8, VersionDelivered

(* What the cached claim tells Reconcile. *)
LEMMA CachedPhase ==
  ASSUME CacheTypes, NewestIsClaim, Unreleased \/ NotHeldAgain
  PROVE  /\ view = "going" => NotHeldAgain
         /\ view # "going" => Unreleased
         /\ view = "held" => claim \in {"held", "going"}
         /\ watch = <<>> => view = claim
         /\ NotHeldAgain => claim # "held"
<1>1. PICK n \in Nat : n = Len(watch)
  BY LenProperties DEF CacheTypes
<1>2. PICK p : p = Line
  OBVIOUS
<1>3. p[0] = view /\ p[n] = claim /\ p[0] \in {"none", "free", "held", "going"}
  BY <1>1, <1>2 DEF Line, NewestIsClaim, CacheTypes, Phases
<1>4. (Unreleased <=> UnreleasedIn(p, n)) /\ (NotHeldAgain <=> NotHeldAgainIn(p, n))
  BY <1>1, <1>2 DEF Unreleased, NotHeldAgain
<1>5. watch = <<>> => n = 0
  BY <1>1, EmptySeq
<1>6. NotHeldAgainIn(p, n) => p[n] # "held"
  BY <1>1 DEF NotHeldAgainIn
<1> QED BY <1>3, <1>4, <1>5, <1>6, CachedTells

(* A write of the Namespace, and its delivery. *)
LEMMA NamespaceStore ==
  ASSUME CacheTypes, NewestIsNamespace, NEW n, StoreNamespace(n), nsView' = nsView
  PROVE  NewestIsNamespace'
<1>1. CASE n = ns
  BY <1>1 DEF StoreNamespace, NewestIsNamespace
<1>2. CASE n # ns
  <2>1. nsWatch' = Append(nsWatch, n) /\ ns' = n
    BY <1>2 DEF StoreNamespace
  <2>2. nsWatch' # <<>> /\ nsWatch'[Len(nsWatch')] = n
    BY <2>1 DEF CacheTypes
  <2> QED BY <2>1, <2>2 DEF NewestIsNamespace
<1> QED BY <1>1, <1>2

(* A process that lists both kinds is up to date. *)
LEMMA HoldListed ==
  ASSUME view' = claim', watch' = <<>>, nsView' = ns', nsWatch' = <<>>, pc' = "idle"
  PROVE  HoldInv'
<1>1. Len(watch') = 0
  BY EmptySeq
<1>2. NewestIsClaim' /\ NewestIsNamespace'
  BY <1>1 DEF NewestIsClaim, NewestIsNamespace, Line
<1>3. Unreleased'
  BY <1>1, NothingReleased DEF Unreleased
<1> QED BY <1>2, <1>3 DEF HoldInv

LEMMA HoldStep ==
  ASSUME TypeInv, HoldInv, [Next]_vars PROVE HoldInv'
<1> USE DEF HoldInv, server, claimCache, nsCache
<1>1. CacheTypes
  BY DEF TypeInv
<1>2. ASSUME UNCHANGED <<claim, view, watch, ns, nsView, nsWatch>>,
             pc' = pc \/ pc' \in {"idle", "read", "status"}
      PROVE  HoldInv'
  BY <1>2, HoldFrame
<1>3. CASE Stop \/ ApplyFails \/ ReadNext \/ WriteStatus \/ PodWrites \/ UNCHANGED vars
  BY <1>2, <1>3
  DEF Stop, ApplyFails, ReadNext, WriteStatus, PodWrites, vars, Idle, StartReading, worker
<1>4. ASSUME NEW k \in AckKinds, AckStep(k) PROVE HoldInv'
  BY <1>2, <1>4, AckStepObject DEF worker
<1>5. CASE Start
  <2>1. pc' = "idle"
    BY <1>5 DEF Start, worker, TypeInv, WorkInv, BusyInv
  <2> QED BY <1>5, <2>1, HoldListed DEF Start
<1>6. CASE RebuildCluster
  BY <1>6, HoldListed DEF RebuildCluster, Idle
<1>7. CASE Begin
  <2>1. UNCHANGED <<claim, view, watch, ns, nsView, nsWatch>>
    BY <1>7 DEF Begin
  <2>2. \/ pc' = "finalizer" /\ view = "free"
        \/ pc' = "apply" /\ view = "held"
        \/ pc' = "finalize" /\ view = "going"
    BY <1>7 DEF Begin
  <2> QED BY <1>1, <2>1, <2>2, CachedPhase, HoldFrame
<1>8. CASE AddFinalizer
  <2>1. UNCHANGED <<view, ns, nsView, nsWatch>> /\ pc = "finalizer"
    BY <1>8 DEF AddFinalizer
  <2>2. CASE claim # "none" /\ StoreClaim(IF claim = "free" THEN "held" ELSE claim) /\ pc' = "apply"
    <3>1. PICK c \in {"held", "going"} : StoreClaim(c) /\ (claim = "going" => c = "going")
      BY <1>1, <2>2 DEF CacheTypes, Phases
    <3>2. NewestIsClaim' /\ Unreleased' /\ claim' = c
      BY <1>1, <2>1, <3>1, HoldStore DEF Phases, StoreClaim
    <3> QED BY <2>1, <2>2, <3>2, HoldFrame
  <2>3. CASE Idle /\ UNCHANGED <<claim, watch>>
    BY <1>2, <2>1, <2>3 DEF Idle
  <2> QED BY <1>8, <2>2, <2>3 DEF AddFinalizer
<1>9. CASE ApplyNext
  <2>1. /\ UNCHANGED <<claim, view, watch, nsView>>
        /\ pc = "apply" /\ pc' \in {"apply", "read", "status"}
    BY <1>9 DEF ApplyNext, StartReading
  <2>2. PICK n : StoreNamespace(n)
    BY <1>9 DEF ApplyNext
  <2>3. NewestIsNamespace'
    BY <1>1, <2>1, <2>2, NamespaceStore
  <2> QED BY <2>1, <2>3, HoldFrame
<1>10. CASE Finalize
  <2>1. UNCHANGED <<view, nsView>> /\ pc' = "idle" /\ pc = "finalize"
    BY <1>10 DEF Finalize, Idle
  <2>2. ASSUME NEW c \in {"none", "free"}, StoreClaim(c), UNCHANGED <<ns, nsWatch>> PROVE HoldInv'
    <3>1. NewestIsClaim' /\ NotHeldAgain'
      BY <1>1, <2>1, <2>2, HoldStore DEF Phases
    <3> QED BY <2>1, <2>2, <3>1, HoldFrame
  <2>3. ASSUME NEW n, StoreNamespace(n), UNCHANGED <<claim, watch>> PROVE HoldInv'
    <3>1. NewestIsNamespace'
      BY <1>1, <2>1, <2>3, NamespaceStore
    <3> QED BY <2>1, <2>3, <3>1, HoldFrame
  <2>4. CASE UNCHANGED <<claim, watch, ns, nsWatch>>
    BY <1>2, <2>1, <2>4
  <2>5. \/ \E c \in {"none", "free"} : StoreClaim(c) /\ UNCHANGED <<ns, nsWatch>>
        \/ \E n : StoreNamespace(n) /\ UNCHANGED <<claim, watch>>
        \/ UNCHANGED <<claim, watch, ns, nsWatch>>
    BY <1>10 DEF Finalize
  <2> QED BY <2>2, <2>3, <2>4, <2>5
<1>11. CASE CreateClaim \/ DeleteClaim
  <2>1. UNCHANGED <<view, ns, nsView, nsWatch, pc>>
    BY <1>11 DEF CreateClaim, DeleteClaim, worker
  <2>2. PICK c \in Phases :
          /\ StoreClaim(c)
          /\ <<claim, c>> \in {<<"none", "free">>, <<"free", "none">>, <<"held", "going">>}
    BY <1>11 DEF CreateClaim, DeleteClaim, Phases
  <2>3. NotHeldAgain => claim # "held"
    BY <1>1, CachedPhase
  <2>4. /\ NewestIsClaim' /\ claim' = c
        /\ Unreleased => Unreleased'
        /\ NotHeldAgain => NotHeldAgain'
    BY <1>1, <2>1, <2>2, <2>3, HoldStore DEF StoreClaim
  <2> QED BY <2>1, <2>2, <2>4, HoldFrame
<1>12. CASE DeleteNamespace \/ RemoveNamespace
  <2>1. UNCHANGED <<claim, view, watch, nsView, pc>>
    BY <1>12 DEF DeleteNamespace, RemoveNamespace, worker
  <2>2. PICK n : StoreNamespace(n)
    BY <1>12 DEF DeleteNamespace, RemoveNamespace
  <2>3. NewestIsNamespace'
    BY <1>1, <2>1, <2>2, NamespaceStore
  <2> QED BY <2>1, <2>3, HoldFrame
<1>13. CASE DeliverClaim
  <2>1. UNCHANGED <<claim, ns, nsView, nsWatch, pc>>
    BY <1>13 DEF DeliverClaim, worker
  <2> QED BY <1>1, <1>13, <2>1, HoldDeliver, HoldFrame
<1>14. CASE DeliverNamespace
  <2>1. UNCHANGED <<claim, view, watch, ns, pc>>
    BY <1>14 DEF DeliverNamespace, worker
  <2>2. NewestIsNamespace'
    BY <1>1, <1>14, <2>1, WatchEnds DEF DeliverNamespace, NewestIsNamespace, CacheTypes
  <2> QED BY <2>1, <2>2, HoldFrame
<1> QED BY <1>3, <1>4, <1>5, <1>6, <1>7, <1>8, <1>9, <1>10, <1>11, <1>12, <1>13, <1>14,
           NextSteps, Zenon

LEMMA HoldInit == ASSUME Init PROVE HoldInv
<1>1. Len(watch) = 0
  BY EmptySeq DEF Init
<1>2. NewestIsClaim /\ NewestIsNamespace
  BY <1>1 DEF Init, NewestIsClaim, NewestIsNamespace, Line
<1>3. Unreleased
  BY <1>1, NothingReleased DEF Unreleased
<1> QED BY <1>2, <1>3 DEF HoldInv, Init

(* The Namespace has a claim that holds it. *)
HomeInv == ns # "absent" => claim \in {"held", "going"}

LEMMA HomeStep ==
  ASSUME NsLag = FALSE, TypeInv, HoldInv, HomeInv, [Next]_vars PROVE HomeInv'
<1> USE DEF HomeInv, server
<1>1. CASE Finalize
  <2>1. nsView = ns
    BY <1>1 DEF Finalize, HoldInv, NewestIsNamespace
  <2>2. claim' # claim => ns = "absent" /\ ns' = ns
    BY <1>1, <2>1 DEF Finalize
  <2>3. ns' # "absent" => ns # "absent"
    BY <1>1, <2>1 DEF Finalize, StoreNamespace
  <2> QED BY <2>2, <2>3
<1>2. CASE ApplyNext
  BY <1>2 DEF ApplyNext, HoldInv
<1>3. CASE AddFinalizer
  BY <1>3 DEF AddFinalizer, StoreClaim
<1>4. CASE CreateClaim \/ DeleteClaim
  BY <1>4 DEF CreateClaim, DeleteClaim, StoreClaim
<1>5. CASE DeleteNamespace \/ RemoveNamespace \/ RebuildCluster
  BY <1>5 DEF DeleteNamespace, RemoveNamespace, RebuildCluster, StoreNamespace
<1>6. CASE Start \/ Stop \/ Begin \/ ApplyFails \/ ReadNext \/ WriteStatus
           \/ DeliverClaim \/ DeliverNamespace \/ PodWrites \/ UNCHANGED vars
  BY <1>6 DEF Start, Stop, Begin, ApplyFails, ReadNext, WriteStatus, DeliverClaim,
              DeliverNamespace, PodWrites, vars
<1>7. ASSUME NEW k \in AckKinds, AckStep(k) PROVE HomeInv'
  BY <1>7, AckStepObject
<1> QED BY <1>1, <1>2, <1>3, <1>4, <1>5, <1>6, <1>7, NextSteps, Zenon

(* A Role object lets ACK adopt a role that is there and has it take the   *)
(* role away again; it lives in the claim's namespace.  As long as the     *)
(* cluster is the first one, a role in AWS has an object ACK has taken on. *)
RoleInv ==
  /\ ack["Role"] # Absent => ack["Role"].adopt /\ ~ack["Role"].retain /\ ns # "absent"
  /\ rebuilds = 0 /\ "Role" \in aws =>
       ack["Role"] # Absent /\ ack["Role"].state \in {"syncing", "synced"}

(* Steps that leave the ACK objects, AWS and the namespace alone. *)
LEMMA RoleKeeps ==
  ASSUME RoleInv, UNCHANGED <<ack, aws, rebuilds>>, ns # "absent" => ns' # "absent"
  PROVE  RoleInv'
BY DEF RoleInv

LEMMA RoleStep ==
  ASSUME TypeInv, RoleInv, [Next]_vars PROVE RoleInv'
<1>1. CASE OtherStep /\ ~RemoveNamespace
  <2>1. UNCHANGED <<ack, aws, rebuilds>>
    BY <1>1, AckKeeps
  <2>2. ns # "absent" => ns' # "absent"
    BY <1>1
    DEF OtherStep, Start, Stop, Begin, AddFinalizer, ApplyFails, ReadNext, WriteStatus, Finalize,
        CreateClaim, DeleteClaim, DeleteNamespace, DeliverClaim, DeliverNamespace, PodWrites, vars,
        server, StoreNamespace
  <2> QED BY <2>1, <2>2, RoleKeeps
<1>2. CASE RemoveNamespace
  <2>1. ack["Role"] = Absent
    BY <1>2 DEF RemoveNamespace, AckKinds
  <2>2. UNCHANGED <<ack, aws, rebuilds>>
    BY <1>2 DEF RemoveNamespace, counters
  <2> QED BY <2>1, <2>2 DEF RoleInv
<1>3. CASE RebuildCluster
  <2>1. rebuilds' # 0
    BY <1>3, Bounds DEF RebuildCluster, TypeInv, WorkInv, WorkTypes
  <2> QED BY <1>3, <2>1 DEF RebuildCluster, RoleInv, AckKinds
<1>4. CASE ApplyNext
  <2>1. PICK j : /\ Appliable(j)
                 /\ StoreNamespace(IF j = "Namespace" /\ ns = "absent" THEN "active" ELSE ns)
                 /\ ack' = IF j \in AckKinds /\ ack[j] = Absent
                           THEN [ack EXCEPT ![j] = NewObject(j)] ELSE ack
    BY <1>4 DEF ApplyNext
  <2>3. ns # "absent" => ns' # "absent"
    BY <2>1 DEF StoreNamespace
  <2>4. UNCHANGED <<aws, rebuilds>>
    BY <1>4 DEF ApplyNext, counters
  <2>5. CASE j = "Role" /\ ack["Role"] = Absent
    <3>1. ns # "absent"
      BY <2>1, <2>5 DEF Appliable
    <3>2. ack'["Role"] = NewObject("Role")
      BY <2>1, <2>5 DEF TypeInv, WorkInv, WorkTypes, AckKinds
    <3>3. NewObject("Role").adopt = TRUE /\ NewObject("Role").retain = FALSE
      BY NewObjectType DEF AckKinds
    <3> QED BY <2>3, <2>4, <2>5, <3>1, <3>2, <3>3 DEF RoleInv
  <2>6. CASE ~(j = "Role" /\ ack["Role"] = Absent)
    <3>1. ack'["Role"] = ack["Role"]
      BY <2>1, <2>6 DEF TypeInv, WorkInv, WorkTypes, AckKinds
    <3> QED BY <2>3, <2>4, <3>1 DEF RoleInv
  <2> QED BY <2>5, <2>6
<1>5. ASSUME NEW k \in AckKinds, AckStep(k) PROVE RoleInv'
  <2>1. /\ ns' = ns /\ rebuilds' = rebuilds
        /\ ack \in [AckKinds -> AckObjects \cup {Absent}]
    BY <1>5, AckStepObject DEF server, TypeInv, WorkInv, WorkTypes
  <2>2. CASE k # "Role"
    <3>1. ack'["Role"] = ack["Role"]
      BY <1>5, <2>1, <2>2, AckStepObject DEF AckKinds
    <3>2. "Role" \in aws' => "Role" \in aws
      BY <1>5, <2>2
      DEF AckStep, DeleteObject, AckCreates, AckSyncs, AckFails, AckDeletes, RemoveContent
    <3> QED BY <2>1, <3>1, <3>2 DEF RoleInv
  <2>3. CASE k = "Role"
    <3>1. PICK p \in AckObjects : p = ack["Role"]
      BY <1>5, <2>3, AckStepObject
    <3>2. p # Absent /\ p.adopt /\ ~p.retain /\ ns # "absent"
      BY <3>1, MarkersAssumption DEF RoleInv
    <3>3. PICK o \in AckObjects \cup {Absent} :
            /\ ack' = [ack EXCEPT !["Role"] = o]
            /\ o # Absent => o.retain = p.retain /\ o.adopt = p.adopt
      BY <1>5, <2>3, <3>1, AckStepObject
    <3>4. ack'["Role"] = o
      BY <2>1, <3>3 DEF AckKinds
    <3>5. rebuilds = 0 /\ "Role" \in aws' => o # Absent /\ o.state \in {"syncing", "synced"}
      <4>1. CASE DeleteObject("Role") \/ RemoveContent("Role")
        <5>1. o = Deleted(p) /\ aws' = aws
          BY <2>1, <3>1, <3>4, <4>1 DEF DeleteObject, RemoveContent, AckKinds
        <5>2. rebuilds = 0 /\ "Role" \in aws' => p.state \in {"syncing", "synced"}
          BY <3>1, <5>1 DEF RoleInv
        <5>3. p.state \in {"syncing", "synced"} => o \in AckObjects /\ o.state = p.state
          BY <3>1, <5>1, DeletedType
        <5> QED BY <5>2, <5>3, MarkersAssumption
      <4>2. CASE AckCreates("Role")
        <5>1. ack' = [ack EXCEPT !["Role"].state = "syncing"]
          BY <3>1, <3>2, <4>2 DEF AckCreates
        <5>2. o = [p EXCEPT !.state = "syncing"]
          BY <2>1, <3>1, <3>4, <5>1 DEF AckKinds
        <5> QED BY <5>2, ReportedType, MarkersAssumption
      <4>3. CASE AckSyncs("Role")
        <5>1. o = [p EXCEPT !.state = "synced"]
          BY <2>1, <3>1, <3>4, <4>3 DEF AckSyncs, AckKinds
        <5> QED BY <5>1, ReportedType, MarkersAssumption
      <4>4. CASE AckFails("Role") \/ AckDeletes("Role")
        BY <3>1, <3>2, <4>4 DEF AckFails, AckDeletes
      <4> QED BY <1>5, <2>3, <4>1, <4>2, <4>3, <4>4 DEF AckStep
    <3> QED BY <2>1, <3>2, <3>3, <3>4, <3>5 DEF RoleInv
  <2> QED BY <2>2, <2>3
<1> QED BY <1>1, <1>2, <1>3, <1>4, <1>5, AckSteps, Zenon

(***************************************************************************)
(* If finalize reads the Namespace as it is, a claim is gone only after    *)
(* its role, however old the claim it read and the one a reconcile applies *)
(* for: the finalizer is set before there is a namespace and released      *)
(* after it is gone (Reconcile, finalize), the Role object keeps the       *)
(* namespace, and ACK lets go of the object only with the role             *)
(* (BuildStorageRole).                                                     *)
(***************************************************************************)
THEOREM RoleGoes == ASSUME NsLag = FALSE PROVE Spec => []RoleGoesWithClaim
<1> DEFINE Inv == TypeInv /\ HoldInv /\ HomeInv /\ RoleInv
<1>1. Init => Inv
  BY TypeInit, HoldInit DEF Init, HomeInv, RoleInv, AckKinds
<1>2. Inv /\ [Next]_vars => Inv'
  BY TypeStep, HoldStep, HomeStep, RoleStep
<1>3. Inv => RoleGoesWithClaim
  BY DEF HomeInv, RoleInv, RoleGoesWithClaim
<1> QED BY <1>1, <1>2, <1>3, PTL DEF Spec

-----------------------------------------------------------------------------
(* What a reconcile read *)

(* What ACK says it has created is in AWS, unless it is on its way out. *)
SyncInv ==
  \A k \in AckKinds :
    ack[k] # Absent /\ ack[k].state \in {"syncing", "synced"} /\ ~ack[k].del => k \in aws

LEMMA SyncStep ==
  ASSUME TypeInv, SyncInv, [Next]_vars PROVE SyncInv'
<1>1. CASE OtherStep
  BY <1>1, AckKeeps DEF SyncInv
<1>2. CASE ApplyNext
  <2> SUFFICES ASSUME NEW k \in AckKinds,
                      ack'[k] # Absent, ack'[k].state \in {"syncing", "synced"}, ~ack'[k].del
               PROVE  k \in aws'
    BY DEF SyncInv
  <2> QED BY <1>2, AckApplied, NewObjectType DEF SyncInv
<1>3. CASE RebuildCluster
  BY <1>3 DEF RebuildCluster, SyncInv
<1>4. ASSUME NEW k \in AckKinds, AckStep(k) PROVE SyncInv'
  <2> SUFFICES ASSUME NEW j \in AckKinds,
                      ack'[j] # Absent, ack'[j].state \in {"syncing", "synced"}, ~ack'[j].del
               PROVE  j \in aws'
    BY DEF SyncInv
  <2>1. ack \in [AckKinds -> AckObjects \cup {Absent}]
    BY DEF TypeInv, WorkInv, WorkTypes
  <2>2. CASE j # k
    <3>1. ack'[j] = ack[j]
      BY <1>4, <2>1, <2>2, AckStepObject
    <3>2. j \in aws => j \in aws'
      BY <1>4, <2>2
      DEF AckStep, DeleteObject, AckCreates, AckSyncs, AckFails, AckDeletes, RemoveContent
    <3> QED BY <3>1, <3>2 DEF SyncInv
  <2>3. CASE j = k
    <3>1. PICK p \in AckObjects : p = ack[k]
      BY <1>4, AckStepObject
    <3>2. CASE DeleteObject(k) \/ RemoveContent(k)
      <4>1. ack'[k] = Deleted(p)
        BY <2>1, <3>1, <3>2 DEF DeleteObject, RemoveContent
      <4> QED BY <2>3, <4>1, DeletedType
    <3>3. CASE AckCreates(k)
      BY <2>3, <3>3 DEF AckCreates
    <3>4. CASE AckSyncs(k)
      BY <2>3, <3>1, <3>4, MarkersAssumption DEF AckSyncs, SyncInv
    <3>5. CASE AckFails(k)
      <4>1. ack'[k] = [p EXCEPT !.state = "terminal"]
        BY <2>1, <3>1, <3>5 DEF AckFails
      <4> QED BY <2>3, <4>1, ReportedType
    <3>6. CASE AckDeletes(k)
      BY <2>1, <2>3, <3>6 DEF AckDeletes
    <3> QED BY <1>4, <3>2, <3>3, <3>4, <3>5, <3>6 DEF AckStep
  <2> QED BY <2>2, <2>3
<1> QED BY <1>1, <1>2, <1>3, <1>4, AckSteps, Zenon

(* The reads are made in order, each is remembered at its place, and a     *)
(* kind that was read as synced was seen.                                  *)
ReadInv ==
  /\ \A i \in DOMAIN observed : observed[i] = "synced" => i \in {1, 2} /\ StorageTypes[i] \in saw
  /\ pc \in {"idle", "finalizer", "apply"} => observed = <<>>
  /\ pc = "read" => linked /\ Len(observed) \in {0, 1} /\ todo = (Len(observed) + 1) .. 2
  /\ pc = "status" /\ linked => Len(observed) = 2

(* Nothing is read yet. *)
LEMMA NothingRead == DOMAIN <<>> = {} /\ Len(<<>>) = 0
<1>1. <<>> \in Seq({}) /\ Len(<<>>) = 0
  BY EmptySeq
<1> QED BY <1>1

LEMMA ReadKeeps ==
  ASSUME ReadInv, UNCHANGED <<proc, worker>> PROVE ReadInv'
BY DEF ReadInv, worker, linked

LEMMA ReadIdle ==
  ASSUME Idle PROVE ReadInv'
BY NothingRead DEF Idle, ReadInv

LEMMA ReadStarts ==
  ASSUME observed = <<>>, StartReading, UNCHANGED <<proc, observed, saw>> PROVE ReadInv'
<1>1. DOMAIN StorageTypes = 1 .. 2
  BY DEF StorageTypes
<1>2. linked' = linked
  BY DEF linked
<1> QED BY <1>1, <1>2, NothingRead DEF StartReading, ReadInv

LEMMA ReadNextRead ==
  ASSUME TypeInv, SyncInv, ReadInv, ReadNext PROVE ReadInv'
<1>1. PICK i \in todo :
        /\ First(i)
        /\ \/ observed' = Append(observed, ackConditions(ack[StorageTypes[i]]))
           \/ observed' = Append(observed, "unreadable")
        /\ saw' = saw \cup {j \in {StorageTypes[i]} :
                              j \in aws \/ (ack[j] # Absent /\ ack[j].del)}
        /\ todo' = todo \ {i}
        /\ pc' = IF todo = {i} THEN "status" ELSE "read"
  BY DEF ReadNext
<1>2. PICK n \in {0, 1} : n = Len(observed) /\ todo = (n + 1) .. 2
  BY DEF ReadInv, ReadNext
<1>3. i = n + 1 /\ i \in {1, 2}
  <2>1. i \in (n + 1) .. 2 /\ n + 1 \in (n + 1) .. 2
    BY <1>1, <1>2
  <2>2. i <= n + 1
    BY <1>1, <1>2, <2>1 DEF First
  <2> QED BY <2>1, <2>2
<1>4. PICK k \in AckKinds : k = StorageTypes[i]
  BY <1>3, ReadType
<1>5. PICK x \in States : /\ observed' = Append(observed, x)
                          /\ x = "synced" => x = ackConditions(ack[k])
  <2>1. ackConditions(ack[k]) \in States /\ "unreadable" \in States
    BY <1>3, <1>4, ReadType DEF States
  <2> QED BY <1>1, <1>4, <2>1
<1>6. x = "synced" => k \in saw'
  <2>1. ASSUME x = "synced" PROVE ack[k] # Absent /\ ack[k].state = "synced"
    BY <1>5, <2>1 DEF ackConditions
  <2>2. ASSUME x = "synced" PROVE ack[k] # Absent /\ (k \in aws \/ ack[k].del)
    BY <2>1, <2>2 DEF SyncInv
  <2> QED BY <1>1, <1>4, <2>2
<1>7. observed \in Seq(States)
  BY DEF TypeInv, WorkInv, WorkTypes, States
<1>8. PICK q \in Seq(States) : q = observed /\ Len(q) = n
  BY <1>2, <1>7
<1>9. PICK r \in Seq(States) : /\ r = Append(q, x) /\ Len(r) = n + 1 /\ r[n + 1] = x
                               /\ \A m \in 1 .. n : r[m] = q[m]
  <2>1. Append(q, x) \in Seq(States)
    BY <1>5, <1>8, AppendProperties
  <2>2. Len(Append(q, x)) = n + 1 /\ Append(q, x)[n + 1] = x
    BY <1>5, <1>8, AppendProperties
  <2>3. \A m \in 1 .. n : Append(q, x)[m] = q[m]
    BY <1>5, <1>8, AppendProperties
  <2> QED BY <2>1, <2>2, <2>3
<1>10. observed' = r
  BY <1>5, <1>8, <1>9
<1>11. \A m \in DOMAIN r : r[m] = "synced" => m \in {1, 2} /\ StorageTypes[m] \in saw'
  <2> SUFFICES ASSUME NEW m \in DOMAIN r, r[m] = "synced"
               PROVE  m \in {1, 2} /\ StorageTypes[m] \in saw'
    OBVIOUS
  <2>1. m \in 1 .. n + 1
    BY <1>9
  <2>2. CASE m = n + 1
    BY <1>3, <1>4, <1>6, <1>9, <2>2
  <2>3. CASE m # n + 1
    <3>1. m \in 1 .. n
      BY <2>1, <2>3
    <3>2. q[m] = "synced" /\ m \in DOMAIN q
      BY <1>8, <1>9, <3>1
    <3>3. m \in {1, 2} /\ StorageTypes[m] \in saw
      BY <1>8, <3>2 DEF ReadInv
    <3> QED BY <1>1, <3>3
  <2> QED BY <2>2, <2>3
<1>12. linked /\ linked' = linked
  BY DEF ReadInv, ReadNext, linked
<1>13. pc' = "read" => n = 0 /\ todo' = 2 .. 2
  <2>1. n = 1 => todo = {i}
    BY <1>2, <1>3
  <2>2. n = 0 => todo' = 2 .. 2
    BY <1>1, <1>2, <1>3
  <2> QED BY <1>1, <2>1, <2>2
<1>14. pc' = "status" => n = 1
  <2>1. n = 0 => 2 \in todo /\ i = 1
    BY <1>2, <1>3
  <2>2. n = 0 => todo # {i}
    BY <2>1
  <2> QED BY <1>1, <2>2
<1>15. Len(r) = 1 => (Len(r) + 1) .. 2 = 2 .. 2
  OBVIOUS
<1>16. pc' \in {"read", "status"}
  BY <1>1
<1>17. pc' = "read" => Len(r) = 1
  BY <1>9, <1>13
<1>18. pc' = "status" => Len(r) = 2
  BY <1>9, <1>14
<1> QED BY <1>10, <1>11, <1>12, <1>13, <1>15, <1>16, <1>17, <1>18 DEF ReadInv

LEMMA ReadStep ==
  ASSUME TypeInv, SyncInv, ReadInv, [Next]_vars PROVE ReadInv'
<1>1. CASE Start
  BY <1>1, NothingRead DEF Start, TypeInv, WorkInv, BusyInv, ReadInv, worker
<1>2. CASE Stop \/ WriteStatus \/ Finalize \/ RebuildCluster
  BY <1>2, ReadIdle DEF Stop, WriteStatus, Finalize, RebuildCluster
<1>3. CASE Begin
  <2>1. pc' \in {"finalizer", "apply", "finalize"} /\ observed = <<>> /\ observed' = observed
    BY <1>3 DEF Begin, ReadInv
  <2> QED BY <2>1, NothingRead DEF ReadInv
<1>4. CASE ApplyNext
  <2>1. observed = <<>> /\ UNCHANGED <<proc, observed, saw>>
    BY <1>4 DEF ApplyNext, ReadInv
  <2>2. CASE StartReading
    BY <2>1, <2>2, ReadStarts
  <2>3. CASE ~StartReading
    <3>1. pc' = "apply"
      BY <1>4, <2>3 DEF ApplyNext
    <3> QED BY <2>1, <3>1, NothingRead DEF ReadInv
  <2> QED BY <2>2, <2>3
<1>5. CASE ApplyFails
  BY <1>5, ReadStarts DEF ApplyFails, ReadInv
<1>6. CASE ReadNext
  BY <1>6, ReadNextRead
<1>7. CASE CreateClaim \/ DeleteClaim \/ DeleteNamespace
           \/ (DeliverClaim \/ DeliverNamespace \/ PodWrites \/ RemoveNamespace \/ UNCHANGED vars)
  BY <1>7, ReadKeeps
  DEF CreateClaim, DeleteClaim, DeleteNamespace, DeliverClaim, DeliverNamespace, PodWrites,
      RemoveNamespace, vars
<1>8. ASSUME NEW k \in AckKinds, AckStep(k) PROVE ReadInv'
  BY <1>8, AckStepObject, ReadKeeps
<1>9. CASE AddFinalizer
  <2>1. CASE Idle
    BY <2>1, ReadIdle
  <2>2. CASE pc' = "apply" /\ UNCHANGED <<observed, saw>>
    BY <1>9, <2>2, NothingRead DEF AddFinalizer, ReadInv
  <2> QED BY <1>9, <2>1, <2>2 DEF AddFinalizer
<1> QED BY <1>1, <1>2, <1>3, <1>4, <1>5, <1>6, <1>7, <1>8, <1>9, NextSteps, Zenon

(* What StorageReady says when it is True (storageCondition). *)
LEMMA ReadyVerdict ==
  ASSUME NEW l, NEW o, evaluateStorage(l, o).status = "True"
  PROVE  l /\ \A i \in DOMAIN o : o[i] = "synced"
BY DEF evaluateStorage, storageCondition, storageVerdict, Condition

LEMMA ReadyStep ==
  ASSUME TypeInv, ReadInv, ReadyMeansCreated, [Next]_vars PROVE ReadyMeansCreated'
<1>1. CASE WriteStatus
  <2>1. CASE status' = status
    BY <2>1 DEF ReadyMeansCreated
  <2>2. CASE status' # status
    <3>1. PICK r : r = evaluateStorage(linked, observed).status
      OBVIOUS
    <3>2. status' = [ready |-> r, saw |-> saw]
      BY <1>1, <2>2, <3>1 DEF WriteStatus
    <3>3. ASSUME r = "True" PROVE saw = AckKinds
      <4>1. linked /\ \A i \in DOMAIN observed : observed[i] = "synced"
        BY <3>1, <3>3, ReadyVerdict
      <4>2. Len(observed) = 2 /\ observed \in Seq(States)
        BY <1>1, <4>1 DEF ReadInv, WriteStatus, TypeInv, WorkInv, WorkTypes
      <4>3. 1 \in DOMAIN observed /\ 2 \in DOMAIN observed
        BY <4>2
      <4>4. StorageTypes[1] \in saw /\ StorageTypes[2] \in saw
        BY <4>1, <4>3 DEF ReadInv
      <4> QED BY <4>4 DEF StorageTypes, AckKinds, TypeInv, WorkInv, WorkTypes
    <3> QED BY <3>2, <3>3 DEF ReadyMeansCreated
  <2> QED BY <2>1, <2>2
<1>2. CASE Finalize \/ DeleteClaim \/ RebuildCluster
  <2>1. status' = status \/ status' = NoStatus
    BY <1>2 DEF Finalize, DeleteClaim, RebuildCluster
  <2> QED BY <2>1 DEF ReadyMeansCreated, NoStatus
<1>3. CASE status' = status
  BY <1>3 DEF ReadyMeansCreated
<1>4. Start \/ Stop \/ Begin \/ AddFinalizer \/ ApplyNext \/ ApplyFails \/ ReadNext \/ CreateClaim
        \/ DeleteNamespace
        \/ (DeliverClaim \/ DeliverNamespace \/ PodWrites \/ RemoveNamespace \/ UNCHANGED vars)
        => status' = status
  BY DEF Start, Stop, Begin, AddFinalizer, ApplyNext, ApplyFails, ReadNext, CreateClaim,
         DeleteNamespace, DeliverClaim, DeliverNamespace, PodWrites, RemoveNamespace, vars, server
<1>5. ASSUME NEW k \in AckKinds, AckStep(k) PROVE status' = status
  BY <1>5, AckStepObject DEF server
<1> QED BY <1>1, <1>2, <1>3, <1>4, <1>5, NextSteps, Zenon

(***************************************************************************)
(* StorageReady is True only if the reconcile that wrote it read both ACK  *)
(* objects as synced, one after the other, and each was then in AWS or on  *)
(* its way out (evaluateStorage, ackConditions), however users, ACK and    *)
(* faults interleave with the two reads.                                   *)
(***************************************************************************)
THEOREM ReadyWasRead == Spec => []ReadyMeansCreated
<1> DEFINE Inv == TypeInv /\ SyncInv /\ ReadInv /\ ReadyMeansCreated
<1>1. Init => Inv
  <2>1. ASSUME Init PROVE SyncInv /\ ReadInv
    BY <2>1, NothingRead DEF Init, SyncInv, ReadInv
  <2>2. ASSUME Init PROVE ReadyMeansCreated
    BY <2>2 DEF Init, ReadyMeansCreated, NoStatus
  <2> QED BY <2>1, <2>2, TypeInit
<1>2. Inv /\ [Next]_vars => Inv'
  BY TypeStep, SyncStep, ReadStep, ReadyStep
<1>3. Inv => ReadyMeansCreated
  OBVIOUS
<1> QED BY <1>1, <1>2, <1>3, PTL DEF Spec

-----------------------------------------------------------------------------
(* How a deleted claim goes away: the stages of StorageReleased.  Each one *)
(* contains the next.                                                      *)

Deleting == claim = "going"

(* The cache shows that the claim is deleted. *)
CaughtUp == watch = <<>>

(* No reconcile is left that read the claim before it was deleted, and     *)
(* would apply its objects again.                                          *)
Noticed == CaughtUp /\ pc \in {"idle", "finalize"}

Closing == Noticed /\ ns # "active"
Emptied == Closing /\ \A k \in AckKinds : ack[k] = Absent
Closed == Emptied /\ ns = "absent"

(* The steps that an ACK object has still to go through. *)
StepsLeft(object) == IF object = Absent THEN 0 ELSE IF object.del THEN 1 ELSE 2

(* A step under which the claim stays deleted falls back to no earlier     *)
(* stage, and brings back nothing of the namespace's content.              *)
KeepsRelease ==
  /\ CaughtUp => CaughtUp'
  /\ Noticed => Noticed'
  /\ Closing => Closing' /\ \A k \in AckKinds : StepsLeft(ack'[k]) <= StepsLeft(ack[k])
  /\ Emptied => Emptied'
  /\ Closed => Closed'

(* The step that leads from each stage to the next.  finalize moves on     *)
(* when the cache shows the Namespace as it is.                            *)
ReachesRelease ==
  /\ DeliverClaim => Len(watch') < Len(watch)
  /\ CaughtUp /\ (WriteStatus \/ Begin) => Noticed'
  /\ Noticed /\ nsWatch = <<>> /\ Finalize /\ UNCHANGED faults => Closing'
  /\ DeliverNamespace => Len(nsWatch') < Len(nsWatch)
  /\ \A k \in AckKinds :
       RemoveContent(k) \/ AckDeletes(k) => StepsLeft(ack'[k]) < StepsLeft(ack[k])
  /\ Emptied /\ RemoveNamespace => Closed'
  /\ Closed /\ nsWatch = <<>> => ~(Finalize /\ UNCHANGED faults)

(* A reconcile that starts on a deleted claim applies nothing.  A write    *)
(* that leaves the claim deleted is no new version of it.                  *)
LEMMA NoticedKeeps ==
  ASSUME TypeInv, HoldInv, [Next]_vars, Deleting, Deleting', CaughtUp
  PROVE  CaughtUp' /\ (Noticed => Noticed' /\ ~ApplyNext /\ ~RebuildCluster)
<1> USE DEF claimCache, server
<1>1. view = "going"
  BY CachedPhase DEF HoldInv, TypeInv, CaughtUp, Deleting
<1>2. CaughtUp'
  <2>1. \A c : StoreClaim(c) => watch' = watch
    BY DEF StoreClaim, Deleting
  <2>2. Start \/ RebuildCluster => watch' = <<>>
    BY DEF Start, RebuildCluster
  <2>3. ~DeliverClaim
    BY DEF DeliverClaim, CaughtUp
  <2>4. AddFinalizer \/ Finalize \/ CreateClaim \/ DeleteClaim => watch' = watch
    BY <2>1 DEF AddFinalizer, Finalize, CreateClaim, DeleteClaim
  <2>5. Stop \/ Begin \/ ApplyNext \/ ApplyFails \/ ReadNext \/ WriteStatus \/ DeleteNamespace
          \/ (DeliverNamespace \/ PodWrites \/ RemoveNamespace \/ UNCHANGED vars) => watch' = watch
    BY DEF Stop, Begin, ApplyNext, ApplyFails, ReadNext, WriteStatus, DeleteNamespace,
           DeliverNamespace, PodWrites, RemoveNamespace, vars
  <2>6. ASSUME NEW k \in AckKinds, AckStep(k) PROVE watch' = watch
    BY <2>6, AckStepObject
  <2>7. watch' = <<>> \/ watch' = watch
    BY <2>2, <2>3, <2>4, <2>5, <2>6, NextSteps, Zenon
  <2> QED BY <2>7 DEF CaughtUp
<1>3. ASSUME Noticed PROVE Noticed' /\ ~ApplyNext /\ ~RebuildCluster
  <2>1. ~AddFinalizer /\ ~ApplyNext /\ ~ApplyFails /\ ~ReadNext /\ ~WriteStatus
    BY <1>3 DEF Noticed, AddFinalizer, ApplyNext, ApplyFails, ReadNext, WriteStatus
  <2>2. ~RebuildCluster
    BY DEF RebuildCluster, Deleting
  <2>3. Stop \/ Begin \/ Finalize => pc' \in {"idle", "finalize"}
    BY <1>1 DEF Stop, Begin, Finalize, Idle
  <2>4. Start \/ CreateClaim \/ DeleteClaim \/ DeleteNamespace
          \/ (DeliverClaim \/ DeliverNamespace \/ PodWrites \/ RemoveNamespace \/ UNCHANGED vars)
          => pc' = pc
    BY DEF Start, CreateClaim, DeleteClaim, DeleteNamespace, DeliverClaim, DeliverNamespace,
           PodWrites, RemoveNamespace, vars, worker
  <2>5. ASSUME NEW k \in AckKinds, AckStep(k) PROVE pc' = pc
    BY <2>5, AckStepObject DEF worker
  <2>6. pc' \in {"idle", "finalize"} \/ pc' = pc
    BY <2>1, <2>2, <2>3, <2>4, <2>5, NextSteps, Zenon
  <2> QED BY <1>2, <1>3, <2>1, <2>2, <2>6 DEF Noticed
<1> QED BY <1>2, <1>3

(* What the steps on an ACK object leave of it. *)
LEMMA AckStepShrinks ==
  ASSUME TypeInv, NEW k \in AckKinds, AckStep(k)
  PROVE  /\ \A j \in AckKinds : StepsLeft(ack'[j]) <= StepsLeft(ack[j])
         /\ RemoveContent(k) \/ AckDeletes(k) => StepsLeft(ack'[k]) < StepsLeft(ack[k])
         /\ \A j \in AckKinds : ack[j] = Absent => ack'[j] = Absent
<1>1. ack \in [AckKinds -> AckObjects \cup {Absent}]
  BY DEF TypeInv, WorkInv, WorkTypes
<1>2. ack[k] \in AckObjects /\ ack[k] # Absent
  BY AckStepObject, MarkersAssumption
<1>3. /\ StepsLeft(ack'[k]) <= StepsLeft(ack[k])
      /\ RemoveContent(k) \/ AckDeletes(k) => StepsLeft(ack'[k]) < StepsLeft(ack[k])
  <2>1. CASE DeleteObject(k) \/ RemoveContent(k)
    <3>1. ack'[k] = Deleted(ack[k]) /\ ~ack[k].del
      BY <1>1, <2>1 DEF DeleteObject, RemoveContent
    <3>2. StepsLeft(Deleted(ack[k])) \in {0, 1}
      BY <1>2 DEF Deleted, StepsLeft, AckObjects
    <3>3. StepsLeft(ack[k]) = 2
      BY <1>2, <3>1 DEF StepsLeft
    <3> QED BY <3>1, <3>2, <3>3
  <2>2. CASE AckDeletes(k)
    <3>1. ack'[k] = Absent /\ ack[k].del
      BY <1>1, <2>2 DEF AckDeletes
    <3> QED BY <1>2, <3>1 DEF StepsLeft
  <2>3. CASE AckCreates(k) \/ AckSyncs(k) \/ AckFails(k)
    <3>1. PICK st \in {"new", "syncing", "synced", "terminal"} :
            ack' = [ack EXCEPT ![k].state = st]
      BY <2>3 DEF AckCreates, AckSyncs, AckFails
    <3>2. ack'[k] = [ack[k] EXCEPT !.state = st]
      BY <1>1, <3>1
    <3>3. ack'[k].del = ack[k].del /\ ack'[k] \in AckObjects
      BY <1>2, <3>2 DEF AckObjects
    <3>4. ack'[k] # Absent
      BY <3>3, MarkersAssumption
    <3>5. StepsLeft(ack'[k]) = StepsLeft(ack[k]) /\ StepsLeft(ack[k]) \in {1, 2}
      BY <1>2, <3>3, <3>4 DEF StepsLeft
    <3>6. ~RemoveContent(k) /\ ~AckDeletes(k)
      <4>1. ack'[k].state # ack[k].state
        BY <1>1, <1>2, <2>3 DEF AckCreates, AckSyncs, AckFails, AckObjects
      <4>2. ~AckDeletes(k)
        BY <1>1, <3>4 DEF AckDeletes
      <4>3. RemoveContent(k) => ack'[k].state = ack[k].state
        BY <1>1, <1>2, <3>4 DEF RemoveContent, Deleted, AckObjects
      <4> QED BY <4>1, <4>2, <4>3
    <3> QED BY <3>5, <3>6
  <2> QED BY <2>1, <2>2, <2>3 DEF AckStep
<1>4. \A j \in AckKinds : j # k => ack'[j] = ack[j]
  BY <1>1, AckStepObject
<1>5. \A j \in AckKinds : StepsLeft(ack[j]) \in Nat
  BY DEF StepsLeft
<1> QED BY <1>2, <1>3, <1>4, <1>5

(* A namespace that is on its way out is not made again for the claim, and *)
(* neither is what it held.                                                *)
LEMMA ReleaseKeeps ==
  ASSUME TypeInv, HoldInv, [Next]_vars, Deleting, Deleting'
  PROVE  KeepsRelease
<1> SUFFICES ASSUME Noticed PROVE KeepsRelease
  BY NoticedKeeps DEF KeepsRelease, Closing, Emptied, Closed
<1>1. CaughtUp' /\ Noticed' /\ ~ApplyNext /\ ~RebuildCluster
  BY NoticedKeeps DEF Noticed
<1>2. /\ \A k \in AckKinds : StepsLeft(ack'[k]) <= StepsLeft(ack[k])
      /\ \A k \in AckKinds : ack[k] = Absent => ack'[k] = Absent
  <2>1. CASE ack' = ack
    BY <2>1 DEF StepsLeft
  <2>2. ASSUME NEW k \in AckKinds, AckStep(k)
        PROVE  /\ \A j \in AckKinds : StepsLeft(ack'[j]) <= StepsLeft(ack[j])
               /\ \A j \in AckKinds : ack[j] = Absent => ack'[j] = Absent
    BY <2>2, AckStepShrinks, Zenon
  <2> QED BY <1>1, <2>1, <2>2, AckSteps, AckKeeps, Zenon
<1>3. (ns # "active" => ns' # "active") /\ (ns = "absent" => ns' = "absent")
  <2>1. Finalize => (ns = "absent" => ns' = "absent") /\ (ns' = ns \/ ns' = "terminating")
    BY DEF Finalize, StoreNamespace
  <2>2. RemoveNamespace => ns' = "absent"
    BY DEF RemoveNamespace, StoreNamespace
  <2>3. DeleteNamespace => ns = "active"
    BY DEF DeleteNamespace
  <2>4. Start \/ Stop \/ Begin \/ AddFinalizer \/ ApplyFails \/ ReadNext \/ WriteStatus
          \/ CreateClaim \/ DeleteClaim \/ DeliverClaim \/ DeliverNamespace \/ PodWrites
          \/ UNCHANGED vars => ns' = ns
    BY DEF Start, Stop, Begin, AddFinalizer, ApplyFails, ReadNext, WriteStatus, CreateClaim,
           DeleteClaim, DeliverClaim, DeliverNamespace, PodWrites, vars, server
  <2>5. ASSUME NEW k \in AckKinds, AckStep(k) PROVE ns' = ns
    BY <2>5, AckStepObject DEF server
  <2> QED BY <1>1, <2>1, <2>2, <2>3, <2>4, <2>5, NextSteps
<1> QED BY <1>1, <1>2, <1>3, Zenon DEF KeepsRelease, Closing, Emptied, Closed

LEMMA ReleaseReaches ==
  ASSUME TypeInv, HoldInv, [Next]_vars, Deleting, Deleting'
  PROVE  ReachesRelease
<1>1. /\ DeliverClaim => Len(watch') < Len(watch)
      /\ DeliverNamespace => Len(nsWatch') < Len(nsWatch)
  <2>1. ASSUME DeliverClaim PROVE Len(watch') < Len(watch)
    <3>1. Len(watch') = Len(watch) - 1 /\ Len(watch) \in Nat
      BY <2>1, HeadTailProperties, LenProperties DEF DeliverClaim, TypeInv, CacheTypes
    <3> QED BY <3>1
  <2>2. ASSUME DeliverNamespace PROVE Len(nsWatch') < Len(nsWatch)
    <3>1. Len(nsWatch') = Len(nsWatch) - 1 /\ Len(nsWatch) \in Nat
      BY <2>2, HeadTailProperties, LenProperties DEF DeliverNamespace, TypeInv, CacheTypes
    <3> QED BY <3>1
  <2> QED BY <2>1, <2>2
<1>2. ASSUME CaughtUp, WriteStatus \/ Begin PROVE Noticed'
  <2>1. view = "going"
    BY <1>2, CachedPhase DEF HoldInv, TypeInv, CaughtUp, Deleting
  <2>2. pc' \in {"idle", "finalize"}
    BY <1>2, <2>1 DEF WriteStatus, Begin, Idle
  <2> QED BY <1>2, <2>2, NoticedKeeps DEF Noticed
<1>3. ASSUME Noticed, nsWatch = <<>>, Finalize, UNCHANGED faults PROVE Closing'
  <2>1. nsView = ns
    BY <1>3 DEF HoldInv, NewestIsNamespace
  <2>2. ~FailsWhen(nsView = "absent" /\ claim = "none")
    BY <1>3, Bounds DEF FailsWhen, Fault, TypeInv, WorkInv, WorkTypes, Deleting
  <2>3. ~StoreClaim(IF claim = "going" THEN "none" ELSE "free")
    BY DEF StoreClaim, Deleting
  <2>4. ns' # "active"
    BY <1>3, <2>1, <2>2, <2>3 DEF Finalize, StoreNamespace
  <2> QED BY <1>3, <2>4, NoticedKeeps DEF Closing, Noticed
<1>4. ASSUME NEW k \in AckKinds, RemoveContent(k) \/ AckDeletes(k)
      PROVE  StepsLeft(ack'[k]) < StepsLeft(ack[k])
  BY <1>4, AckStepShrinks DEF AckStep
<1>5. ASSUME Emptied, RemoveNamespace PROVE Closed'
  <2>1. ns' = "absent" /\ ack' = ack
    BY <1>5 DEF RemoveNamespace, StoreNamespace
  <2>2. Noticed'
    BY <1>5, NoticedKeeps DEF Emptied, Closing, Noticed
  <2> QED BY <1>5, <2>1, <2>2 DEF Emptied, Closed, Closing
<1>6. ASSUME Closed, nsWatch = <<>>, Finalize, UNCHANGED faults PROVE FALSE
  <2>1. nsView = "absent"
    BY <1>6 DEF HoldInv, NewestIsNamespace, Closed
  <2>2. ~FailsWhen(nsView = "absent" /\ claim = "none")
    BY <1>6, Bounds DEF FailsWhen, Fault, TypeInv, WorkInv, WorkTypes, Deleting
  <2>3. ~StoreClaim(IF claim = "going" THEN "none" ELSE "free")
    BY DEF StoreClaim, Deleting
  <2> QED BY <1>6, <2>1, <2>2, <2>3 DEF Finalize
<1> QED BY <1>1, <1>2, <1>3, <1>4, <1>5, <1>6, Zenon DEF ReachesRelease

(***************************************************************************)
(* The safety half of StorageReleased, for any number of faults, restarts  *)
(* and deletions and any lag of the two caches: while a claim stays        *)
(* deleted, once its cache shows it and the reconcile that read it before  *)
(* is over, no step brings back its namespace or an ACK object, and        *)
(* finalize, ACK and the namespace controller each take it a stage         *)
(* further, until a finalize that sees the Namespace gone can do nothing   *)
(* but let it go (finalize, Reconcile).                                    *)
(***************************************************************************)
THEOREM ReleaseStages ==
  Spec => [][Deleting /\ Deleting' => KeepsRelease /\ ReachesRelease]_vars
<1>1. Init => TypeInv /\ HoldInv
  BY TypeInit, HoldInit
<1>2. TypeInv /\ HoldInv /\ [Next]_vars => TypeInv' /\ HoldInv'
  BY TypeStep, HoldStep
<1>3. TypeInv /\ HoldInv /\ [Next]_vars
        => [Deleting /\ Deleting' => KeepsRelease /\ ReachesRelease]_vars
  BY ReleaseKeeps, ReleaseReaches
<1> QED BY <1>1, <1>2, <1>3, PTL DEF Spec

(***************************************************************************)
(* Data blocks no deletion: ACK can always see to an object that is being  *)
(* deleted, however much the bucket holds, for BuildStorageBucket has it   *)
(* retain every bucket; the namespace is never left waiting for one.       *)
(***************************************************************************)
THEOREM DataBlocksNothing ==
  Spec => [](\A k \in AckKinds :
               ack[k] # Absent /\ ack[k].del => ack[k].retain \/ k = "Role" \/ ~data)
<1>1. Init => TypeInv /\ BucketInv
  BY TypeInit DEF Init, BucketInv, AckKinds
<1>2. TypeInv /\ BucketInv /\ [Next]_vars => TypeInv' /\ BucketInv'
  BY TypeStep, BucketStep
<1>3. BucketInv => \A k \in AckKinds :
        ack[k] # Absent /\ ack[k].del => ack[k].retain \/ k = "Role" \/ ~data
  BY DEF BucketInv, AckKinds
<1> QED BY <1>1, <1>2, <1>3, PTL DEF Spec
=============================================================================
