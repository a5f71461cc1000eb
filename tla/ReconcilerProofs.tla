-------------------------- MODULE ReconcilerProofs --------------------------
(***************************************************************************)
(* Machine-checked proofs about Reconciler, for every set of specs, of     *)
(* tracked kinds and of Rollout phases, and every bound: however often     *)
(* users edit, others tamper, calls fail and the controller restarts, and  *)
(* however far the claim's cache lags behind.                              *)
(*                                                                         *)
(* In order: types; the finalizer (HoldInv) and the refinement of          *)
(* ClaimLifecycle, which need finalize to see the Namespace as it is;      *)
(* Build's order; and, for a name whose claim is created once, that the    *)
(* versions of the claim are in order (GenerationInv), from which follow   *)
(* what observedGeneration, Ready and drift Events say.  Applies of the    *)
(* finalizer and the status carry no UID, so a claim that is created anew  *)
(* while a reconcile of the first one runs gets that one's status.         *)
(***************************************************************************)
EXTENDS Reconciler, InformerLemmas, TLAPS

-----------------------------------------------------------------------------
(* Types *)

(* The model's bounds are numbers. *)
LEMMA Bounds ==
  /\ MaxGen \in Nat \ {0} /\ MaxClaims \in Nat /\ MaxTampers \in Nat /\ MaxFaults \in Nat
  /\ MaxRestarts \in Nat /\ MaxTroubles \in Nat /\ MaxLag \in Nat
BY BoundsAssumption

(* What the API calls do to a claim leaves it one, and touches nothing     *)
(* else of it: applyFinalizer, applyStatus, and a user's edit and delete.  *)
LEMMA FinalizerWrite ==
  ASSUME NEW c \in Claims, NEW b \in BOOLEAN, NEW d, d = [c EXCEPT !.fin = b]
  PROVE  /\ d \in Claims /\ d # NoClaim
         /\ d.fin = b /\ d.del = c.del /\ d.gen = c.gen /\ d.spec = c.spec
         /\ d.status = c.status
BY NoClaimAssumption DEF Claims

(* applyStatus leaves metadata and spec alone. *)
LEMMA StatusWrite ==
  ASSUME NEW c \in Claims, NEW st \in ClaimStatuses, NEW d, d = [c EXCEPT !.status = st]
  PROVE  /\ d \in Claims /\ d # NoClaim
         /\ d.fin = c.fin /\ d.del = c.del /\ d.gen = c.gen /\ d.spec = c.spec
         /\ d.status = st
BY NoClaimAssumption DEF Claims

(* A user's edit is a new generation, and leaves the status as it was. *)
LEMMA SpecEdit ==
  ASSUME ServerTypes, EditClaim
  PROVE  /\ claim \in Claims /\ claim.gen \in Nat /\ claim.gen < MaxGen
         /\ \E d \in Claims : /\ StoreClaim(d) /\ d # NoClaim
                             /\ d.fin = claim.fin /\ d.del = claim.del /\ d.status = claim.status
                             /\ d.gen = claim.gen + 1
<1>1. claim \in Claims
  BY DEF ServerTypes, EditClaim
<1>2. claim.gen \in Nat /\ claim.gen < MaxGen /\ claim.gen + 1 \in 1 .. MaxGen + 1
  BY <1>1, Bounds DEF EditClaim, Claims
<1>3. PICK s, d : s \in Specs /\ StoreClaim(d) /\ d = [claim EXCEPT !.spec = s, !.gen = @ + 1]
  BY DEF EditClaim
<1>4. d \in Claims
  BY <1>1, <1>2, <1>3 DEF Claims
<1>5. d.fin = claim.fin /\ d.del = claim.del /\ d.status = claim.status /\ d.gen = claim.gen + 1
  BY <1>1, <1>3 DEF Claims
<1>6. d # NoClaim
  BY <1>4, NoClaimAssumption
<1> QED BY <1>1, <1>2, <1>3, <1>4, <1>5, <1>6

(* A delete removes a claim that has no finalizer, and is a new generation *)
(* of one that has.                                                        *)
LEMMA Deletion ==
  ASSUME ServerTypes, DeleteClaim
  PROVE  /\ claim \in Claims /\ claim.gen \in Nat /\ claim.gen <= MaxGen
         /\ \/ ~claim.fin /\ StoreClaim(NoClaim)
            \/ \E d \in Claims : /\ StoreClaim(d) /\ d # NoClaim
                                /\ claim.fin /\ d.fin = claim.fin /\ d.del = TRUE
                                /\ d.status = claim.status
                                /\ d.gen = claim.gen + 1
<1>1. claim \in Claims /\ claim.gen <= MaxGen
  BY DEF ServerTypes, DeleteClaim
<1>2. claim.gen \in Nat /\ claim.gen + 1 \in 1 .. MaxGen + 1
  BY <1>1, Bounds DEF Claims
<1>3. CASE ~claim.fin /\ StoreClaim(NoClaim)
  BY <1>1, <1>2, <1>3
<1>4. CASE claim.fin /\ StoreClaim([claim EXCEPT !.del = TRUE, !.gen = @ + 1])
  <2>1. PICK d : StoreClaim(d) /\ d = [claim EXCEPT !.del = TRUE, !.gen = @ + 1]
    BY <1>4
  <2>2. d \in Claims
    BY <1>1, <1>2, <2>1 DEF Claims
  <2>3. d.fin = claim.fin /\ d.del = TRUE /\ d.status = claim.status /\ d.gen = claim.gen + 1
    BY <1>1, <2>1 DEF Claims
  <2>4. d # NoClaim
    BY <2>2, NoClaimAssumption
  <2> QED BY <1>1, <1>2, <1>4, <2>1, <2>2, <2>3, <2>4
<1> QED BY <1>3, <1>4 DEF DeleteClaim

(* A new claim has its first generation, no finalizer and no status. *)
LEMMA Creation ==
  ASSUME NEW s \in Specs, created \in 0 .. MaxClaims, created < MaxClaims,
         NEW d, d = NewClaim(s)
  PROVE  /\ d \in Claims /\ d # NoClaim
         /\ ~d.fin /\ ~d.del /\ d.gen = 1 /\ d.spec = s /\ d.status = NoStatus
<1>1. NoStatus \in ClaimStatuses
  BY Bounds DEF NoStatus, ClaimStatuses, Contents
<1>2. created + 1 \in 1 .. MaxClaims /\ 1 \in 1 .. MaxGen + 1
  BY Bounds
<1>3. d \in Claims
  BY <1>1, <1>2 DEF Claims, NewClaim
<1>4. d # NoClaim
  BY <1>3, NoClaimAssumption
<1> QED BY <1>3, <1>4 DEF NewClaim

(* A write of the claim is seen by its informer, or changes nothing. *)
LEMMA StoreClaimType ==
  ASSUME NEW c \in Claims \cup {NoClaim}, StoreClaim(c), CacheTypes
  PROVE  claim' = c /\ watch' \in Seq(Claims \cup {NoClaim})
BY DEF StoreClaim, CacheTypes

(* So is a write of the Namespace. *)
LEMMA StoreNamespaceType ==
  ASSUME NEW n \in NamespaceStates, StoreNamespace(n), CacheTypes
  PROVE  ns' = n /\ nsWatch' \in Seq(NamespaceStates)
BY DEF StoreNamespace, CacheTypes

(* The status a reconcile writes is one the schema has (applyStatus). *)
LEMMA NewStatusType ==
  ASSUME TypeOK, cur # NoClaim
  PROVE  \A st : NewStatus(st) \in ClaimStatuses
<1> SUFFICES ASSUME NEW st PROVE NewStatus(st) \in ClaimStatuses
  OBVIOUS
<1>1. cur.gen \in 0 .. MaxGen + 1
  BY Bounds DEF TypeOK, WorkerTypes, Claims
<1>2. (IF Synced.status = "True" THEN "True" ELSE Synced.reason)
        \in {"none", "True", "ApplyFailed", "InvalidSpec"}
  BY DEF Synced, Condition
<1>3. Ready(st) \in BOOLEAN
  BY DEF Ready
<1>4. (IF Ready(st) THEN read.runs ELSE Gone) \in Contents("Rollout")
  BY DEF TypeOK, WorkerTypes, Reads, Contents
<1> QED BY <1>1, <1>2, <1>3, <1>4 DEF NewStatus, ClaimStatuses

(* What an apply leaves in an object is one of its contents. *)
LEMMA RenderedType ==
  ASSUME NEW c \in Claims, NEW k
  PROVE  \A l \in BOOLEAN : Render(k, c.spec, l) \in Contents(k)
BY DEF Claims, Contents

(* The kinds of a plan are the tracked ones and the Namespace. *)
LEMMA PlanKinds ==
  ASSUME NEW c, NEW l, NEW i \in Plan(c, l)
  PROVE  KindAt(c, l, i) \in Tracked \cup {"Namespace"}
BY DEF Plan, KindAt

(* A reconcile that returns leaves its locals as an idle worker has them. *)
LEMMA ReturnType ==
  ASSUME WorkerTypes, NEW b \in BOOLEAN, Return(b), linked' \in BOOLEAN
  PROVE  WorkerTypes'
<1>1. queued' \in BOOLEAN /\ failed' \in BOOLEAN
  BY DEF WorkerTypes, Return
<1>2. /\ pc' \in Steps /\ cur' = NoClaim /\ pc' = "idle" /\ todo' = {} /\ innocent' = {}
      /\ read' \in Reads
  BY DEF WorkerTypes, Return, Steps, NotRead, Reads, Contents
<1> QED BY <1>1, <1>2 DEF WorkerTypes

(* So does one that starts to apply (Reconcile after the finalizer). *)
LEMMA StartApplyingType ==
  ASSUME WorkerTypes, cur' \in Claims, StartApplying(cur'), queued' \in BOOLEAN, linked' = linked
  PROVE  WorkerTypes'
<1>1. cur' # NoClaim
  BY NoClaimAssumption
<1>2. read' \in Reads
  BY DEF StartApplying, NotRead, Reads, Contents
<1> QED BY <1>1, <1>2 DEF StartApplying, Steps, WorkerTypes

(* A call that fails uses up one of the model's faults, or none. *)
LEMMA FaultType ==
  ASSUME HistoryTypes, NEW rejected, FailsWhen(rejected), UNCHANGED <<tampered, created, tampers, restarts>>
  PROVE  HistoryTypes'
BY Bounds DEF HistoryTypes, FailsWhen, Fault

(* Every step of the reconcile, the informers, users and the cluster keeps *)
(* the types.                                                              *)
LEMMA TypeStep ==
  ASSUME TypeOK, [Next]_vars
  PROVE  TypeOK'
<1> USE DEF TypeOK, server, claimCache, nsCache, worker, counters
<1>1. CASE Begin
  <2>1. ServerTypes' /\ CacheTypes' /\ HistoryTypes'
    BY <1>1 DEF Begin, ServerTypes, CacheTypes, HistoryTypes
  <2>2. CASE view # NoClaim /\ cur' = view /\ StartApplying(view)
    <3>1. view \in Claims /\ queued' \in BOOLEAN
      BY <1>1, <2>2 DEF Begin, CacheTypes
    <3>2. WorkerTypes'
      BY <1>1, <2>2, <3>1, StartApplyingType DEF Begin
    <3> QED BY <2>1, <3>2
  <2>3. CASE UNCHANGED worker
    <3>1. WorkerTypes'
      BY <1>1, <2>3 DEF Begin, WorkerTypes
    <3> QED BY <2>1, <3>1
  <2>4. CASE view # NoClaim /\ cur' = view /\ pc' \in {"finalize", "finalizer"}
               /\ UNCHANGED <<todo, failed, read, innocent>>
    <3>1. WorkerTypes'
      BY <1>1, <2>4 DEF Begin, WorkerTypes, CacheTypes, Steps
    <3> QED BY <2>1, <3>1
  <2> QED BY <1>1, <2>2, <2>3, <2>4 DEF Begin
<1>2. CASE AddFinalizer
  <2>1. nsView' \in NamespaceStates /\ nsWatch' \in Seq(NamespaceStates)
    BY <1>2 DEF AddFinalizer, CacheTypes
  <2>2. CASE claim # NoClaim /\ StoreClaim([claim EXCEPT !.fin = TRUE]) /\ StartApplying(cur)
               /\ UNCHANGED <<queued, cur, faults>>
    <3>1. claim \in Claims /\ cur \in Claims
      BY <1>2, <2>2 DEF AddFinalizer, ServerTypes, WorkerTypes
    <3>2. PICK d \in Claims : d = [claim EXCEPT !.fin = TRUE] /\ d.del = claim.del /\ d.gen = claim.gen
      BY <3>1, FinalizerWrite
    <3>3. claim' = d /\ watch' \in Seq(Claims \cup {NoClaim})
      BY <2>2, <3>2, StoreClaimType
    <3>4. ServerTypes' /\ CacheTypes'
      BY <1>2, <2>1, <2>2, <3>1, <3>2, <3>3 DEF AddFinalizer, ServerTypes, CacheTypes
    <3>5. WorkerTypes'
      BY <1>2, <2>2, <3>1, StartApplyingType DEF AddFinalizer, WorkerTypes
    <3> QED BY <1>2, <2>2, <3>4, <3>5 DEF AddFinalizer, HistoryTypes
  <2>3. CASE FailsWhen(claim = NoClaim) /\ Return(TRUE) /\ UNCHANGED <<claim, watch>>
    <3>1. ServerTypes' /\ CacheTypes'
      BY <1>2, <2>3 DEF AddFinalizer, ServerTypes, CacheTypes
    <3>2. HistoryTypes'
      BY <1>2, <2>3, FaultType DEF AddFinalizer
    <3>3. linked' \in BOOLEAN
      BY <1>2 DEF AddFinalizer, WorkerTypes
    <3> QED BY <2>3, <3>1, <3>2, <3>3, ReturnType
  <2> QED BY <1>2, <2>2, <2>3 DEF AddFinalizer
<1>3. CASE ApplyNext
  <2>1. cur \in Claims /\ cur # NoClaim
    BY <1>3 DEF ApplyNext, WorkerTypes
  <2>2. PICK i \in todo : LET k == KindAt(cur, linked, i) IN
          /\ IF k = "Namespace"
             THEN /\ StoreNamespace(IF ns = "absent" THEN "active" ELSE ns)
                  /\ UNCHANGED <<objs, rollout>>
             ELSE /\ objs' = [objs EXCEPT ![k] = Render(k, cur.spec, linked)]
                  /\ rollout' = IF k = "Rollout" /\ Differs(k)
                                THEN [rollout EXCEPT !.observed = FALSE]
                                ELSE rollout
                  /\ UNCHANGED <<ns, nsWatch>>
          /\ innocent' = innocent \cup (IF Differs(k) /\ k \notin tampered THEN {k} ELSE {})
          /\ tampered' = tampered \ {k}
          /\ todo' = todo \ {i}
    BY <1>3 DEF ApplyNext
  <2> DEFINE k == KindAt(cur, linked, i)
  <2>3. k \in Tracked \cup {"Namespace"}
    BY <2>1, <2>2, PlanKinds DEF WorkerTypes
  <2> HIDE DEF k
  <2>4. ServerTypes' /\ CacheTypes'
    <3>1. CASE k = "Namespace"
      <4>1. (IF ns = "absent" THEN "active" ELSE ns) \in NamespaceStates
        BY DEF ServerTypes, NamespaceStates
      <4>2. ns' \in NamespaceStates /\ nsWatch' \in Seq(NamespaceStates)
        BY <2>2, <3>1, <4>1, StoreNamespaceType DEF k
      <4> QED BY <1>3, <2>2, <3>1, <4>2 DEF k, ApplyNext, ServerTypes, CacheTypes
    <3>2. CASE k \in Tracked
      <4>1. k # "Namespace"
        BY <3>2, TrackedAssumption
      <4>2. CacheTypes'
        BY <1>3, <2>2, <4>1 DEF k, ApplyNext, CacheTypes
      <4>3. objs' = [objs EXCEPT ![k] = Render(k, cur.spec, linked)] /\ Render(k, cur.spec, linked) \in Contents(k)
        BY <2>1, <2>2, <4>1, RenderedType DEF k, WorkerTypes
      <4>4. rollout' \in {rollout, [rollout EXCEPT !.observed = FALSE]} /\ ns' = ns /\ claim' = claim
        BY <1>3, <2>2, <4>1 DEF k, ApplyNext
      <4> QED BY <3>2, <4>2, <4>3, <4>4 DEF ServerTypes
    <3> QED BY <2>3, <3>1, <3>2
  <2>5. WorkerTypes'
    BY <1>3, <2>1, <2>2, <2>3 DEF k, ApplyNext, WorkerTypes, Steps
  <2> QED BY <1>3, <2>2, <2>4, <2>5 DEF ApplyNext, HistoryTypes
<1>4. CASE ApplyFails
  <2>1. HistoryTypes'
    BY <1>4, FaultType DEF ApplyFails
  <2>2. WorkerTypes'
    BY <1>4 DEF ApplyFails, WorkerTypes, Steps
  <2> QED BY <1>4, <2>1, <2>2 DEF ApplyFails, ServerTypes, CacheTypes
<1>5. CASE ReadRollout
  <2>1. read' \in Reads
    <3>1. Gone \in Contents("Rollout")
      BY DEF Contents
    <3>2. CASE read' \in {[NotRead EXCEPT !.err = "notfound"], [NotRead EXCEPT !.err = "error"]}
      BY <3>1, <3>2 DEF Reads, NotRead
    <3>3. CASE read' = [err |-> "none", observed |-> rollout.observed,
                        phase |-> rollout.phase, runs |-> rollout.runs]
      BY <3>3 DEF ServerTypes, Reads
    <3> QED BY <1>5, <3>2, <3>3 DEF ReadRollout
  <2>2. HistoryTypes'
    BY <1>5, Bounds DEF ReadRollout, HistoryTypes, Fault
  <2>3. WorkerTypes'
    BY <1>5, <2>1 DEF ReadRollout, WorkerTypes, Steps
  <2> QED BY <1>5, <2>2, <2>3 DEF ReadRollout, ServerTypes, CacheTypes
<1>6. CASE WriteStatus
  <2>1. cur \in Claims /\ cur # NoClaim
    BY <1>6 DEF WriteStatus, WorkerTypes
  <2>2. ASSUME NEW st, claim # NoClaim, StoreClaim([claim EXCEPT !.status = NewStatus(st)]),
               Return(Buildable(cur.spec)), UNCHANGED faults
        PROVE  TypeOK'
    <3>1. claim \in Claims /\ NewStatus(st) \in ClaimStatuses
      BY <2>1, <2>2, NewStatusType DEF ServerTypes
    <3>2. \A new \in ClaimStatuses : LET d == [claim EXCEPT !.status = new] IN
            d \in Claims /\ d.del = claim.del /\ d.gen = claim.gen
      BY <3>1, StatusWrite
    <3> DEFINE d == [claim EXCEPT !.status = NewStatus(st)]
    <3>3. d \in Claims /\ d.del = claim.del /\ d.gen = claim.gen
      BY <3>1, <3>2, Zenon
    <3> HIDE DEF d
    <3>4. claim' = d /\ watch' \in Seq(Claims \cup {NoClaim})
      BY <2>2, <3>3, StoreClaimType DEF d
    <3>5. ServerTypes' /\ CacheTypes'
      BY <1>6, <2>2, <3>1, <3>3, <3>4 DEF WriteStatus, ServerTypes, CacheTypes
    <3>6. Buildable(cur.spec) \in BOOLEAN /\ linked' \in BOOLEAN
      BY <1>6 DEF Buildable, ErrorRatioExpr, WriteStatus, WorkerTypes
    <3>7. WorkerTypes'
      BY <2>2, <3>6, ReturnType
    <3> QED BY <1>6, <2>2, <3>5, <3>7 DEF WriteStatus, HistoryTypes
  <2>3. CASE FailsWhen(claim = NoClaim) /\ Return(TRUE) /\ UNCHANGED <<claim, watch>>
    <3>1. ServerTypes' /\ CacheTypes'
      BY <1>6, <2>3 DEF WriteStatus, ServerTypes, CacheTypes
    <3>2. HistoryTypes'
      BY <1>6, <2>3, FaultType DEF WriteStatus
    <3>3. linked' \in BOOLEAN
      BY <1>6 DEF WriteStatus, WorkerTypes
    <3> QED BY <2>3, <3>1, <3>2, <3>3, ReturnType
  <2> QED BY <1>6, <2>2, <2>3 DEF WriteStatus
<1>7. CASE Finalize
  <2>1. \A b \in BOOLEAN : Return(b) => WorkerTypes'
    BY <1>7, ReturnType DEF Finalize, WorkerTypes
  <2>2. CASE claim # NoClaim
               /\ StoreClaim(IF claim.del THEN NoClaim ELSE [claim EXCEPT !.fin = FALSE])
               /\ Return(FALSE) /\ UNCHANGED <<ns, nsWatch, faults>>
    <3>1. claim \in Claims
      BY <2>2 DEF ServerTypes
    <3>2. PICK d \in Claims : d = [claim EXCEPT !.fin = FALSE] /\ d.del = claim.del /\ d.gen = claim.gen
      BY <3>1, FinalizerWrite
    <3>3. claim' = (IF claim.del THEN NoClaim ELSE d) /\ watch' \in Seq(Claims \cup {NoClaim})
      BY <2>2, <3>2, StoreClaimType
    <3>4. ServerTypes' /\ CacheTypes'
      BY <1>7, <2>2, <3>1, <3>2, <3>3 DEF Finalize, ServerTypes, CacheTypes
    <3> QED BY <1>7, <2>1, <2>2, <3>4 DEF Finalize, HistoryTypes
  <2>3. CASE StoreNamespace(IF ns = "active" THEN "terminating" ELSE ns)
               /\ Return(TRUE) /\ UNCHANGED <<claim, watch, faults>>
    <3>1. (IF ns = "active" THEN "terminating" ELSE ns) \in NamespaceStates
      BY DEF ServerTypes, NamespaceStates
    <3>2. ns' \in NamespaceStates /\ nsWatch' \in Seq(NamespaceStates)
      BY <2>3, <3>1, StoreNamespaceType
    <3>3. ServerTypes' /\ CacheTypes'
      BY <1>7, <2>3, <3>2 DEF Finalize, ServerTypes, CacheTypes
    <3> QED BY <1>7, <2>1, <2>3, <3>3 DEF Finalize, HistoryTypes
  <2>4. CASE Return(TRUE) /\ UNCHANGED <<claim, watch, ns, nsWatch>>
               /\ (UNCHANGED faults \/ FailsWhen(NamespaceGone /\ claim = NoClaim))
    <3>1. ServerTypes' /\ CacheTypes'
      BY <1>7, <2>4 DEF Finalize, ServerTypes, CacheTypes
    <3>2. HistoryTypes'
      BY <1>7, <2>4, FaultType DEF Finalize, HistoryTypes
    <3> QED BY <2>1, <2>4, <3>1, <3>2
  <2> QED BY <1>7, <2>2, <2>3, <2>4 DEF Finalize
<1>8. CASE DeliverClaim
  <2>1. view' \in Claims \cup {NoClaim} /\ watch' \in Seq(Claims \cup {NoClaim})
    BY <1>8, HeadTailProperties DEF DeliverClaim, CacheTypes
  <2>2. WorkerTypes'
    BY <1>8 DEF DeliverClaim, WorkerTypes, claimChanged
  <2> QED BY <1>8, <2>1, <2>2 DEF DeliverClaim, ServerTypes, CacheTypes, HistoryTypes
<1>9. CASE DeliverNamespace
  <2>1. nsView' \in NamespaceStates /\ nsWatch' \in Seq(NamespaceStates)
    BY <1>9, HeadTailProperties DEF DeliverNamespace, CacheTypes
  <2> QED BY <1>9, <2>1 DEF DeliverNamespace, ServerTypes, CacheTypes, WorkerTypes, HistoryTypes
<1>10. CASE Restart
  <2>1. WorkerTypes'
    BY <1>10, ReturnType DEF Restart
  <2>2. HistoryTypes'
    BY <1>10, Bounds DEF Restart, HistoryTypes, Relinked
  <2>3. ServerTypes'
    BY <1>10 DEF Restart, ServerTypes
  <2>4. CacheTypes'
    BY <1>10 DEF Restart, ServerTypes, CacheTypes
  <2> QED BY <2>1, <2>2, <2>3, <2>4
<1>11. CASE CreateClaim
  <2>1. PICK s \in Specs : StoreClaim(NewClaim(s))
    BY <1>11 DEF CreateClaim
  <2>2. PICK d \in Claims : d = NewClaim(s) /\ d.gen = 1
    BY <1>11, <2>1, Creation DEF CreateClaim, HistoryTypes
  <2>3. claim' = d /\ watch' \in Seq(Claims \cup {NoClaim})
    BY <2>1, <2>2, StoreClaimType
  <2>4. ServerTypes'
    BY <1>11, <2>2, <2>3, Bounds DEF CreateClaim, ServerTypes
  <2>5. HistoryTypes'
    BY <1>11, Bounds DEF CreateClaim, HistoryTypes
  <2> QED BY <1>11, <2>3, <2>4, <2>5 DEF CreateClaim, CacheTypes, WorkerTypes
<1>12. CASE EditClaim
  <2>1. PICK d \in Claims : StoreClaim(d) /\ d.gen = claim.gen + 1
    BY <1>12, SpecEdit
  <2>2. claim' = d /\ watch' \in Seq(Claims \cup {NoClaim})
    BY <2>1, StoreClaimType
  <2>3. claim.gen \in Nat /\ claim.gen < MaxGen
    BY <1>12, SpecEdit
  <2>4. ServerTypes'
    BY <1>12, <2>1, <2>2, <2>3, Bounds DEF EditClaim, ServerTypes
  <2> QED BY <1>12, <2>2, <2>4 DEF EditClaim, CacheTypes, WorkerTypes, HistoryTypes
<1>13. CASE DeleteClaim
  <2>1. PICK c \in Claims \cup {NoClaim} : StoreClaim(c) /\ (c # NoClaim => c.del = TRUE)
    BY <1>13, Deletion
  <2>2. claim' = c /\ watch' \in Seq(Claims \cup {NoClaim})
    BY <2>1, StoreClaimType
  <2>3. ServerTypes'
    BY <1>13, <2>1, <2>2 DEF DeleteClaim, ServerTypes
  <2> QED BY <1>13, <2>2, <2>3 DEF DeleteClaim, CacheTypes, WorkerTypes, HistoryTypes
<1>14. CASE DeleteNamespace
  <2>1. ns' \in NamespaceStates /\ nsWatch' \in Seq(NamespaceStates)
    BY <1>14, StoreNamespaceType DEF DeleteNamespace, NamespaceStates
  <2>2. HistoryTypes'
    BY <1>14, Bounds DEF DeleteNamespace, Tamper, HistoryTypes
  <2> QED BY <1>14, <2>1, <2>2 DEF DeleteNamespace, ServerTypes, CacheTypes, WorkerTypes
<1>15. ASSUME NEW k \in Tracked, EditObject(k) PROVE TypeOK'
  <2>1. HistoryTypes'
    BY <1>15, Bounds DEF EditObject, Tamper, HistoryTypes
  <2>2. objs' = [objs EXCEPT ![k] = Edited] /\ Edited \in Contents(k)
    BY <1>15 DEF EditObject, Contents
  <2>3. rollout' \in {rollout, [rollout EXCEPT !.observed = FALSE]} /\ ns' = ns /\ claim' = claim
    BY <1>15 DEF EditObject
  <2>4. ServerTypes'
    BY <1>15, <2>2, <2>3 DEF ServerTypes
  <2> QED BY <1>15, <2>1, <2>4 DEF EditObject, CacheTypes, WorkerTypes
<1>16. ASSUME NEW k \in Tracked, Remove(k), claim' = claim, ns' = ns PROVE ServerTypes'
  <2>1. objs' = [objs EXCEPT ![k] = Gone] /\ Gone \in Contents(k) /\ Gone \in Contents("Rollout")
    BY <1>16 DEF Remove, Contents
  <2>2. rollout' \in [observed : BOOLEAN, phase : Phases \cup {"none"}, runs : Contents("Rollout")]
    BY <1>16, <2>1 DEF Remove, Unreported, ServerTypes
  <2> QED BY <1>16, <2>1, <2>2 DEF ServerTypes
<1>17. ASSUME NEW k \in Tracked, DeleteObject(k) PROVE TypeOK'
  <2>1. HistoryTypes'
    BY <1>17, Bounds DEF DeleteObject, Remove, Tamper, HistoryTypes
  <2> QED BY <1>16, <1>17, <2>1 DEF DeleteObject, CacheTypes, WorkerTypes
<1>18. ASSUME NEW k \in Tracked, RemoveContent(k) PROVE TypeOK'
  <2>1. HistoryTypes'
    BY <1>18 DEF RemoveContent, Remove, HistoryTypes
  <2> QED BY <1>16, <1>18, <2>1 DEF RemoveContent, CacheTypes, WorkerTypes
<1>19. CASE RemoveNamespace
  <2>1. ns' \in NamespaceStates /\ nsWatch' \in Seq(NamespaceStates)
    BY <1>19, StoreNamespaceType DEF RemoveNamespace, NamespaceStates
  <2> QED BY <1>19, <2>1 DEF RemoveNamespace, ServerTypes, CacheTypes, WorkerTypes, HistoryTypes
<1>20. CASE ArgoReports
  <2>1. objs["Rollout"] \in Contents("Rollout")
    BY TrackedAssumption DEF ServerTypes
  <2>2. rollout' \in [observed : BOOLEAN, phase : Phases \cup {"none"}, runs : Contents("Rollout")]
    BY <1>20, <2>1 DEF ArgoReports
  <2>3. ServerTypes'
    BY <1>20, <2>2 DEF ArgoReports, ServerTypes
  <2> QED BY <1>20, <2>3 DEF ArgoReports, CacheTypes, WorkerTypes, HistoryTypes
<1>21. CASE UNCHANGED vars
  BY <1>21 DEF vars, ServerTypes, CacheTypes, WorkerTypes, HistoryTypes
<1> QED BY <1>1, <1>2, <1>3, <1>4, <1>5, <1>6, <1>7, <1>8, <1>9, <1>10, <1>11, <1>12,
           <1>13, <1>14, <1>15, <1>17, <1>18, <1>19, <1>20, <1>21 DEF Next

(* The empty cluster Reconciler starts from has the types. *)
LEMMA TypeInit == Init => TypeOK
<1> SUFFICES ASSUME Init PROVE TypeOK
  OBVIOUS
<1>1. Gone \in Contents("Rollout") /\ \A k \in Tracked : Gone \in Contents(k)
  BY DEF Contents
<1>2. ServerTypes
  BY <1>1 DEF Init, ServerTypes, Unreported, NamespaceStates
<1>3. CacheTypes /\ HistoryTypes
  BY Bounds DEF Init, CacheTypes, HistoryTypes, NamespaceStates
<1>4. WorkerTypes
  BY <1>1 DEF Init, WorkerTypes, Steps, Reads, NotRead
<1> QED BY <1>2, <1>3, <1>4 DEF TypeOK

(* Every variable stays in its type: versions, plans, reads and statuses   *)
(* are those of the claim's schema, and every counter within its bound.    *)
THEOREM TypeCorrect == Spec => []TypeOK
<1>1. TypeOK /\ [Next]_vars => TypeOK'
  BY TypeStep
<1> QED BY <1>1, TypeInit, PTL DEF Spec

-----------------------------------------------------------------------------
(* The finalizer *)

PhaseOf(c) ==
  IF c = NoClaim THEN "none"
  ELSE IF ~c.fin THEN "free"
  ELSE IF c.del THEN "going" ELSE "held"

(* The versions of the claim a reconcile has yet to act on: the cached one *)
(* and those on their way to the cache.                                    *)
Versions == 0 .. Len(watch)
Version(i) == IF i = 0 THEN view ELSE watch[i]

(* What an informer has yet to deliver ends with what is stored. *)
NewestIsClaim == Version(Len(watch)) = claim
NewestIsNamespace == (IF nsWatch = <<>> THEN nsView ELSE nsWatch[Len(nsWatch)]) = ns

(* Their phases, and what these tell: see InformerLemmas. *)
Line == [i \in Versions |-> PhaseOf(Version(i))]

Unreleased == UnreleasedIn(Line, Len(watch))
NotHeldAgain == NotHeldAgainIn(Line, Len(watch))

HoldInv ==
  /\ NewestIsClaim /\ NewestIsNamespace
  /\ Unreleased \/ NotHeldAgain
  /\ pc = "finalizer" => Unreleased
  /\ pc = "finalize" => NotHeldAgain
  /\ pc \in {"apply", "rollout", "status"} => claim # NoClaim /\ claim.fin

(* A claim is in one of ClaimLifecycle's four phases. *)
LEMMA Phases4 == ASSUME NEW c PROVE PhaseOf(c) \in {"none", "free", "held", "going"}
BY DEF PhaseOf

(* A write of the claim adds it to the versions, or changes nothing. *)
LEMMA StoreVersions ==
  ASSUME CacheTypes, NewestIsClaim, NEW c \in Claims \cup {NoClaim}, StoreClaim(c), view' = view
  PROVE  /\ NewestIsClaim' /\ Len(watch) \in Nat
         /\ \/ c = claim /\ watch' = watch
            \/ /\ Len(watch') = Len(watch) + 1
               /\ \A i \in Versions : Version(i)' = Version(i)
               /\ Version(Len(watch))' = c
<1>1. Len(watch) \in Nat
  BY LenProperties DEF CacheTypes
<1>2. CASE c = claim
  BY <1>1, <1>2 DEF StoreClaim, NewestIsClaim, Version
<1>3. CASE c # claim
  <2>1. watch' = Append(watch, c) /\ claim' = c
    BY <1>3 DEF StoreClaim
  <2>2. /\ Len(watch') = Len(watch) + 1
        /\ \A i \in 1 .. Len(watch) : watch'[i] = watch[i]
        /\ watch'[Len(watch) + 1] = c
    BY <2>1, AppendProperties DEF CacheTypes
  <2>3. \A i \in Versions : Version(i)' = Version(i)
    BY <1>1, <2>2 DEF Versions, Version
  <2>4. Version(Len(watch))' = c
    BY <1>1, <2>2 DEF Version
  <2> QED BY <1>1, <2>1, <2>2, <2>3, <2>4 DEF NewestIsClaim
<1> QED BY <1>1, <1>2, <1>3

(* A delivery takes the oldest version away. *)
LEMMA DeliverVersions ==
  ASSUME CacheTypes, NewestIsClaim, DeliverClaim
  PROVE  /\ NewestIsClaim' /\ Len(watch) \in Nat
         /\ Len(watch') = Len(watch) - 1
         /\ \A i \in Versions' : i + 1 \in Versions /\ Version(i)' = Version(i + 1)
<1>1. Len(watch) \in Nat /\ watch # <<>>
  BY LenProperties DEF CacheTypes, DeliverClaim
<1>2. Len(watch') = Len(watch) - 1 /\ Len(watch') \in Nat
  BY <1>1, HeadTailProperties, LenProperties DEF CacheTypes, DeliverClaim
<1>3. \A i \in 1 .. Len(watch') : watch'[i] = watch[i + 1]
  BY <1>1, HeadTailProperties DEF CacheTypes, DeliverClaim
<1>4. view' = watch[1]
  BY <1>1 DEF CacheTypes, DeliverClaim
<1>5. \A i \in Versions' : i + 1 \in Versions /\ Version(i)' = Version(i + 1)
  BY <1>1, <1>2, <1>3, <1>4 DEF Versions, Version
<1>6. NewestIsClaim'
  <2>1. \A n \in Versions' : n + 1 = Len(watch) => Version(n)' = Version(Len(watch))
    BY <1>5
  <2>2. Version(Len(watch))' = Version(Len(watch))
    BY <1>1, <1>2, <2>1 DEF Versions
  <2> QED BY <2>2 DEF NewestIsClaim, DeliverClaim, server
<1> QED BY <1>1, <1>2, <1>5, <1>6

(* What a write must do to keep either description of the versions.  They  *)
(* end with the stored claim, so it is enough to look at that.             *)
LEMMA HoldStore ==
  ASSUME CacheTypes, NewestIsClaim, NEW c \in Claims \cup {NoClaim}, StoreClaim(c), view' = view
  PROVE  /\ NewestIsClaim'
         /\ /\ Unreleased
            /\ PhaseOf(claim) = "going" => PhaseOf(c) = "going"
            /\ PhaseOf(claim) = "held" => PhaseOf(c) \in {"held", "going"}
            => Unreleased'
         /\ /\ NotHeldAgain
            /\ PhaseOf(c) # "held"
            /\ PhaseOf(claim) \in {"none", "free"} => PhaseOf(c) \in {"none", "free"}
            => NotHeldAgain'
<1>1. CASE c = claim /\ watch' = watch
  <2>1. view' = view /\ watch' = watch
    BY <1>1
  <2>2. Line' = Line
    BY <2>1 DEF Line, Versions, Version, PhaseOf
  <2> QED BY <1>1, <2>1, <2>2, StoreVersions DEF Unreleased, NotHeldAgain
<1>2. CASE /\ Len(watch') = Len(watch) + 1
           /\ \A i \in Versions : Version(i)' = Version(i)
           /\ Version(Len(watch))' = c
  <2>1. PICK n \in Nat : n = Len(watch) /\ NewestIsClaim'
    BY StoreVersions
  <2>2. PICK p : p = Line
    OBVIOUS
  <2>3. PICK q : q = Line'
    OBVIOUS
  <2>4. \A i \in 0 .. n : q[i] = p[i]
    BY <1>2, <2>1, <2>2, <2>3 DEF Line, Versions, PhaseOf
  <2>5. p[n] = PhaseOf(claim)
    BY <2>1, <2>2 DEF Line, Versions, NewestIsClaim
  <2>6. q[n + 1] = PhaseOf(c)
    BY <1>2, <2>1, <2>3 DEF Line, Versions, PhaseOf
  <2>7. /\ Unreleased <=> UnreleasedIn(p, n)
        /\ NotHeldAgain <=> NotHeldAgainIn(p, n)
        /\ Unreleased' <=> UnreleasedIn(q, n + 1)
        /\ NotHeldAgain' <=> NotHeldAgainIn(q, n + 1)
    BY <1>2, <2>1, <2>2, <2>3 DEF Unreleased, NotHeldAgain
  <2> QED BY <2>1, <2>4, <2>5, <2>6, <2>7, VersionAdded
<1> QED BY <1>1, <1>2, StoreVersions

(* A delivery keeps both, for they are about what is left as well. *)
LEMMA HoldDeliver ==
  ASSUME CacheTypes, NewestIsClaim, DeliverClaim
  PROVE  /\ NewestIsClaim'
         /\ Unreleased => Unreleased'
         /\ NotHeldAgain => NotHeldAgain'
<1>1. /\ NewestIsClaim' /\ Len(watch) \in Nat /\ Len(watch') = Len(watch) - 1
      /\ \A i \in Versions' : i + 1 \in Versions /\ Version(i)' = Version(i + 1)
  BY DeliverVersions
<1>2. PICK n \in Nat : n = Len(watch') /\ n + 1 = Len(watch)
  <2>1. Len(watch) # 0
    BY EmptySeq DEF CacheTypes, DeliverClaim
  <2> QED BY <1>1, <2>1
<1>3. PICK p : p = Line
  OBVIOUS
<1>4. PICK q : q = Line'
  OBVIOUS
<1>5. \A i \in 0 .. n : q[i] = p[i + 1]
  BY <1>1, <1>2, <1>3, <1>4 DEF Line, Versions, PhaseOf
<1>6. /\ Unreleased <=> UnreleasedIn(p, n + 1)
      /\ NotHeldAgain <=> NotHeldAgainIn(p, n + 1)
      /\ Unreleased' <=> UnreleasedIn(q, n)
      /\ NotHeldAgain' <=> NotHeldAgainIn(q, n)
  BY <1>2, <1>3, <1>4 DEF Unreleased, NotHeldAgain
<1> QED BY <1>1, <1>5, <1>6, VersionDelivered

(* What the cached claim tells Reconcile: a claim that is going is not     *)
(* held again behind the cache's back; one that is held is held still, or  *)
(* going; behind one that is neither, nothing was released.                *)
LEMMA CachedPhase ==
  ASSUME CacheTypes, NewestIsClaim, Unreleased \/ NotHeldAgain
  PROVE  /\ PhaseOf(view) = "going" => NotHeldAgain
         /\ PhaseOf(view) # "going" => Unreleased
         /\ PhaseOf(view) = "held" => PhaseOf(claim) \in {"held", "going"}
<1>1. PICK n \in Nat : n = Len(watch)
  BY LenProperties DEF CacheTypes
<1>2. PICK p : p = Line
  OBVIOUS
<1>3. p[0] = PhaseOf(view) /\ p[n] = PhaseOf(claim)
  BY <1>1, <1>2 DEF Line, Versions, Version, NewestIsClaim
<1>4. (Unreleased <=> UnreleasedIn(p, n)) /\ (NotHeldAgain <=> NotHeldAgainIn(p, n))
  BY <1>1, <1>2 DEF Unreleased, NotHeldAgain
<1> QED BY <1>3, <1>4, Phases4, CachedTells

(* A write of the Namespace is the newest thing its informer has to        *)
(* deliver, or changes nothing.                                            *)
LEMMA NamespaceStore ==
  ASSUME CacheTypes, NewestIsNamespace, NEW n, StoreNamespace(n), nsView' = nsView
  PROVE  NewestIsNamespace'
<1>1. CASE n = ns
  BY <1>1 DEF StoreNamespace, NewestIsNamespace
<1>2. CASE n # ns
  <2>1. nsWatch' = Append(nsWatch, n) /\ ns' = n
    BY <1>2 DEF StoreNamespace
  <2>2. nsWatch' # <<>> /\ nsWatch'[Len(nsWatch')] = n
    BY <2>1 DEF CacheTypes
  <2> QED BY <2>1, <2>2 DEF NewestIsNamespace
<1> QED BY <1>1, <1>2

(* Whatever is written to the claim, its phase moves as ClaimLifecycle's   *)
(* does: see the actions there.                                            *)
LEMMA PhaseMoves ==
  /\ \A c \in Claims : PhaseOf([c EXCEPT !.fin = TRUE]) = IF c.del THEN "going" ELSE "held"
  /\ \A c \in Claims : PhaseOf([c EXCEPT !.fin = FALSE]) = "free"
  /\ \A c \in Claims : \A st \in ClaimStatuses : PhaseOf([c EXCEPT !.status = st]) = PhaseOf(c)
  /\ \A c \in Claims : PhaseOf(c) = (IF ~c.fin THEN "free" ELSE IF c.del THEN "going" ELSE "held")
<1>1. ASSUME NEW c \in Claims PROVE PhaseOf([c EXCEPT !.fin = TRUE]) = IF c.del THEN "going" ELSE "held"
  <2>1. PICK d : d = [c EXCEPT !.fin = TRUE]
    OBVIOUS
  <2>2. d # NoClaim /\ d.fin = TRUE /\ d.del = c.del
    BY <2>1, FinalizerWrite
  <2> QED BY <2>1, <2>2 DEF PhaseOf
<1>2. ASSUME NEW c \in Claims PROVE PhaseOf([c EXCEPT !.fin = FALSE]) = "free"
  <2>1. PICK d : d = [c EXCEPT !.fin = FALSE]
    OBVIOUS
  <2>2. d # NoClaim /\ d.fin = FALSE
    BY <2>1, FinalizerWrite
  <2> QED BY <2>1, <2>2 DEF PhaseOf
<1>3. ASSUME NEW c \in Claims PROVE c # NoClaim
  BY NoClaimAssumption
<1>4. ASSUME NEW c \in Claims, NEW st \in ClaimStatuses
      PROVE  PhaseOf([c EXCEPT !.status = st]) = PhaseOf(c)
  <2>1. PICK d : d = [c EXCEPT !.status = st]
    OBVIOUS
  <2>2. d # NoClaim /\ d.fin = c.fin /\ d.del = c.del
    BY <2>1, StatusWrite
  <2> QED BY <1>3, <2>1, <2>2 DEF PhaseOf
<1> QED BY <1>1, <1>2, <1>3, <1>4 DEF PhaseOf

(* The part of HoldInv that is about the claim's versions alone. *)
LEMMA HoldFrame ==
  /\ UNCHANGED <<claim, view, watch>> =>
       /\ NewestIsClaim' <=> NewestIsClaim
       /\ Unreleased' <=> Unreleased
       /\ NotHeldAgain' <=> NotHeldAgain
  /\ UNCHANGED <<ns, nsView, nsWatch>> => (NewestIsNamespace' <=> NewestIsNamespace)
BY DEF NewestIsClaim, Unreleased, NotHeldAgain, NewestIsNamespace, Line, Versions, Version, PhaseOf

(* Writes that neither add nor remove a finalizer keep both descriptions. *)
LEMMA HoldOtherStore ==
  ASSUME CacheTypes, NewestIsClaim, NEW c \in Claims \cup {NoClaim}, StoreClaim(c), view' = view,
         <<PhaseOf(claim), PhaseOf(c)>> \in
           {<<"none", "free">>, <<"free", "none">>, <<"free", "free">>,
            <<"held", "held">>, <<"held", "going">>, <<"going", "going">>}
  PROVE  NewestIsClaim' /\ (Unreleased => Unreleased') /\ (NotHeldAgain => NotHeldAgain')
<1>1. NotHeldAgain => PhaseOf(claim) # "held"
  BY LenProperties DEF NotHeldAgain, NotHeldAgainIn, Line, NewestIsClaim, Versions, CacheTypes
<1> QED BY <1>1, HoldStore

(* Every step keeps HoldInv, with a Namespace cache that lags or without. *)
LEMMA HoldInvStep ==
  ASSUME TypeOK, HoldInv, [Next]_vars
  PROVE  HoldInv'
<1> USE DEF TypeOK, HoldInv, server, claimCache, nsCache, worker, counters
<1>1. CASE Begin
  <2>1. UNCHANGED <<claim, view, watch, ns, nsView, nsWatch>>
    BY <1>1 DEF Begin
  <2>2. pc' = "finalizer" => view # NoClaim /\ ~view.fin
    BY <1>1 DEF Begin, StartApplying, NeedsFinalizer
  <2>3. pc' = "finalize" => view # NoClaim /\ view.del /\ view.fin
    BY <1>1 DEF Begin, StartApplying
  <2>4. pc' \in {"apply", "rollout", "status"} => view # NoClaim /\ ~view.del /\ view.fin
    BY <1>1 DEF Begin, StartApplying, NeedsFinalizer
  <2>5. pc' \in {"apply", "rollout", "status"} => claim # NoClaim /\ claim.fin
    BY <2>4, CachedPhase DEF PhaseOf
  <2> QED BY <2>1, <2>2, <2>3, <2>5, CachedPhase, HoldFrame DEF PhaseOf
<1>2. CASE AddFinalizer
  <2>1. UNCHANGED <<view, ns, nsView, nsWatch>>
    BY <1>2 DEF AddFinalizer
  <2>2. CASE claim # NoClaim /\ StoreClaim([claim EXCEPT !.fin = TRUE]) /\ StartApplying(cur)
    <3>1. claim \in Claims
      BY <2>2 DEF ServerTypes
    <3>2. PICK d \in Claims : d = [claim EXCEPT !.fin = TRUE] /\ d # NoClaim /\ d.fin = TRUE
      BY <3>1, FinalizerWrite
    <3>3. PhaseOf(d) = IF claim.del THEN "going" ELSE "held"
      BY <3>1, <3>2, PhaseMoves
    <3>4. PhaseOf(claim) = "going" => claim.del
      BY DEF PhaseOf
    <3>5. NewestIsClaim' /\ Unreleased'
      BY <1>2, <2>1, <2>2, <3>2, <3>3, <3>4, HoldStore DEF AddFinalizer
    <3>6. claim' = d
      BY <2>2, <3>2 DEF StoreClaim
    <3>7. pc' \in {"apply", "status"}
      BY <2>2 DEF StartApplying
    <3> QED BY <2>1, <3>2, <3>5, <3>6, <3>7, HoldFrame
  <2>3. CASE Return(TRUE) /\ UNCHANGED <<claim, watch>>
    BY <2>1, <2>3, HoldFrame DEF Return
  <2> QED BY <1>2, <2>2, <2>3 DEF AddFinalizer
<1>3. CASE ApplyNext
  <2>1. UNCHANGED <<claim, view, watch, nsView>> /\ pc = "apply" /\ pc' \in {"apply", "rollout"}
    BY <1>3 DEF ApplyNext
  <2>2. NewestIsNamespace'
    <3>1. CASE StoreNamespace(IF ns = "absent" THEN "active" ELSE ns)
      BY <2>1, <3>1, NamespaceStore
    <3>2. CASE UNCHANGED <<ns, nsWatch>>
      BY <2>1, <3>2, HoldFrame
    <3> QED BY <1>3, <3>1, <3>2 DEF ApplyNext
  <2> QED BY <2>1, <2>2, HoldFrame
<1>4. CASE ApplyFails \/ ReadRollout
  <2>1. /\ UNCHANGED <<claim, view, watch, ns, nsView, nsWatch>>
        /\ pc \in {"apply", "rollout"} /\ pc' = "status"
    BY <1>4 DEF ApplyFails, ReadRollout
  <2> QED BY <2>1, HoldFrame
<1>5. CASE WriteStatus
  <2>1. UNCHANGED <<view, ns, nsView, nsWatch>> /\ pc' = "idle" /\ pc = "status"
    BY <1>5 DEF WriteStatus, Return
  <2>2. ASSUME NEW st, claim # NoClaim, StoreClaim([claim EXCEPT !.status = NewStatus(st)])
        PROVE  HoldInv'
    <3>1. claim \in Claims /\ NewStatus(st) \in ClaimStatuses
      BY <2>1, <2>2, NewStatusType DEF ServerTypes, WorkerTypes
    <3>2. PICK new \in ClaimStatuses : StoreClaim([claim EXCEPT !.status = new])
      BY <2>2, <3>1
    <3>3. PICK d \in Claims : d = [claim EXCEPT !.status = new]
      BY <3>1, <3>2, StatusWrite
    <3>4. PhaseOf(d) = PhaseOf(claim)
      BY <3>1, <3>2, <3>3, PhaseMoves
    <3>5. PhaseOf(claim) \in {"free", "held", "going"}
      BY <2>2 DEF PhaseOf
    <3>6. NewestIsClaim' /\ (Unreleased' \/ NotHeldAgain')
      BY <2>1, <3>2, <3>3, <3>4, <3>5, HoldOtherStore
    <3> QED BY <2>1, <3>6, HoldFrame
  <2>3. CASE UNCHANGED <<claim, watch>>
    BY <2>1, <2>3, HoldFrame
  <2> QED BY <1>5, <2>2, <2>3 DEF WriteStatus
<1>6. CASE Finalize
  <2>1. UNCHANGED <<view, nsView>> /\ pc' = "idle" /\ pc = "finalize"
    BY <1>6 DEF Finalize, Return
  <2>2. CASE /\ claim # NoClaim
             /\ StoreClaim(IF claim.del THEN NoClaim ELSE [claim EXCEPT !.fin = FALSE])
             /\ UNCHANGED <<ns, nsWatch>>
    <3>1. claim \in Claims
      BY <2>2 DEF ServerTypes
    <3>2. PICK d \in Claims : d = [claim EXCEPT !.fin = FALSE]
      BY <3>1, FinalizerWrite
    <3>3. PICK c \in {d, NoClaim} : StoreClaim(c)
      BY <2>2, <3>2
    <3>4. PhaseOf(c) \in {"none", "free"}
      BY <3>1, <3>2, <3>3, PhaseMoves DEF PhaseOf
    <3>5. NewestIsClaim' /\ NotHeldAgain'
      BY <2>1, <3>2, <3>3, <3>4, HoldStore
    <3> QED BY <2>1, <2>2, <3>5, HoldFrame
  <2>3. CASE StoreNamespace(IF ns = "active" THEN "terminating" ELSE ns) /\ UNCHANGED <<claim, watch>>
    BY <2>1, <2>3, HoldFrame, NamespaceStore
  <2>4. CASE UNCHANGED <<claim, watch, ns, nsWatch>>
    BY <2>1, <2>4, HoldFrame
  <2> QED BY <1>6, <2>2, <2>3, <2>4 DEF Finalize
<1>7. CASE DeliverClaim
  <2>1. UNCHANGED <<claim, pc, ns, nsView, nsWatch>>
    BY <1>7 DEF DeliverClaim
  <2> QED BY <1>7, <2>1, HoldDeliver, HoldFrame
<1>8. CASE DeliverNamespace
  <2>1. UNCHANGED <<claim, view, watch, pc, ns>>
    BY <1>8 DEF DeliverNamespace
  <2>2. NewestIsNamespace'
    BY <1>8, <2>1, WatchEnds DEF DeliverNamespace, NewestIsNamespace, CacheTypes
  <2> QED BY <2>1, <2>2, HoldFrame
<1>9. CASE Restart
  <2>1. /\ UNCHANGED <<claim, ns>> /\ pc' = "idle"
        /\ view' = claim /\ watch' = <<>> /\ nsView' = ns /\ nsWatch' = <<>>
    BY <1>9 DEF Restart, Return
  <2>2. NewestIsClaim' /\ NewestIsNamespace' /\ Versions' = {0}
    BY <2>1 DEF NewestIsClaim, NewestIsNamespace, Version, Versions
  <2>3. Unreleased'
    BY <2>1, EmptySeq, NothingReleased DEF Unreleased
  <2> QED BY <2>1, <2>2, <2>3
<1>10. ASSUME NEW c \in Claims \cup {NoClaim}, StoreClaim(c), UNCHANGED <<view, pc, ns, nsView, nsWatch>>,
              <<PhaseOf(claim), PhaseOf(c)>> \in
                {<<"none", "free">>, <<"free", "none">>, <<"free", "free">>,
                 <<"held", "held">>, <<"held", "going">>, <<"going", "going">>}
       PROVE  HoldInv'
  <2>1. claim' = c
    BY <1>10 DEF StoreClaim
  <2>2. claim # NoClaim /\ claim.fin => claim' # NoClaim /\ claim'.fin
    BY <1>10, <2>1 DEF PhaseOf
  <2> QED BY <1>10, <2>2, HoldOtherStore, HoldFrame
<1>11. CASE CreateClaim
  <2>1. PICK s \in Specs : StoreClaim(NewClaim(s))
    BY <1>11 DEF CreateClaim
  <2>2. PICK d \in Claims : d = NewClaim(s) /\ d # NoClaim /\ ~d.fin
    BY <1>11, <2>1, Creation DEF CreateClaim, HistoryTypes
  <2> QED BY <1>10, <1>11, <2>1, <2>2 DEF CreateClaim, PhaseOf
<1>12. CASE EditClaim
  <2>1. PICK d \in Claims : StoreClaim(d) /\ d # NoClaim /\ d.fin = claim.fin /\ d.del = claim.del
    BY <1>12, SpecEdit
  <2>2. PhaseOf(d) = PhaseOf(claim) /\ PhaseOf(claim) \in {"free", "held", "going"}
    BY <1>12, <2>1 DEF EditClaim, PhaseOf
  <2> QED BY <1>10, <1>12, <2>1, <2>2 DEF EditClaim
<1>13. CASE DeleteClaim
  <2>1. claim # NoClaim /\ ~claim.del
    BY <1>13 DEF DeleteClaim
  <2>2. CASE ~claim.fin /\ StoreClaim(NoClaim)
    BY <1>10, <1>13, <2>1, <2>2 DEF DeleteClaim, PhaseOf
  <2>3. ASSUME NEW d \in Claims, StoreClaim(d), d # NoClaim, claim.fin, d.fin = claim.fin, d.del = TRUE
        PROVE  HoldInv'
    BY <1>10, <1>13, <2>1, <2>3 DEF DeleteClaim, PhaseOf
  <2> QED BY <1>13, <2>2, <2>3, Deletion
<1>14. CASE DeleteNamespace \/ RemoveNamespace
  <2>1. PICK n : StoreNamespace(n)
    BY <1>14 DEF DeleteNamespace, RemoveNamespace
  <2>2. UNCHANGED <<claim, view, watch, pc, nsView>>
    BY <1>14 DEF DeleteNamespace, RemoveNamespace
  <2> QED BY <2>1, <2>2, HoldFrame, NamespaceStore
<1>15. CASE UNCHANGED <<claim, view, watch, pc, ns, nsView, nsWatch>>
  BY <1>15, HoldFrame
<1>16. CASE UNCHANGED vars
  BY <1>15, <1>16 DEF vars
<1>17. ASSUME NEW k \in Tracked, EditObject(k) \/ DeleteObject(k) \/ RemoveContent(k) PROVE HoldInv'
  BY <1>15, <1>17 DEF EditObject, DeleteObject, RemoveContent
<1>18. CASE ArgoReports
  BY <1>15, <1>18 DEF ArgoReports
<1> QED BY <1>1, <1>2, <1>3, <1>4, <1>5, <1>6, <1>7, <1>8, <1>9, <1>11, <1>12, <1>13,
           <1>14, <1>16, <1>17, <1>18 DEF Next

(* The caches of the empty cluster are up to date. *)
LEMMA HoldInvInit == Init => HoldInv
<1> SUFFICES ASSUME Init PROVE HoldInv
  OBVIOUS
<1>1. Versions = {0} /\ NewestIsClaim /\ NewestIsNamespace
  BY DEF Init, Versions, Version, NewestIsClaim, NewestIsNamespace
<1>2. Unreleased
  BY EmptySeq, NothingReleased DEF Unreleased, Init
<1> QED BY <1>1, <1>2 DEF Init, HoldInv

(* HoldInv is an invariant, whether or not finalize may read a Namespace   *)
(* cache that lags.                                                        *)
THEOREM HoldInvHolds == Spec => []HoldInv
<1>1. TypeOK /\ HoldInv /\ [Next]_vars => HoldInv'
  BY HoldInvStep
<1> QED BY <1>1, HoldInvInit, TypeCorrect, PTL DEF Spec

(* A claim that is being deleted still has its finalizer: the API server   *)
(* removes one that has none.                                              *)
DeletedIsHeld == claim # NoClaim /\ claim.del => claim.fin

(* Only finalize removes the finalizer, and from a claim that is being     *)
(* deleted the API server then removes the claim.                          *)
LEMMA DeletedIsHeldStep ==
  ASSUME TypeOK, DeletedIsHeld, [Next]_vars
  PROVE  DeletedIsHeld'
<1> USE DEF TypeOK, server, claimCache, nsCache, worker, counters
<1>1. CASE UNCHANGED claim
  BY <1>1 DEF DeletedIsHeld
<1>2. CASE AddFinalizer
  <2>1. CASE claim # NoClaim /\ StoreClaim([claim EXCEPT !.fin = TRUE])
    <3>1. claim \in Claims /\ claim' = [claim EXCEPT !.fin = TRUE]
      BY <2>1 DEF ServerTypes, StoreClaim
    <3> QED BY <3>1, FinalizerWrite DEF DeletedIsHeld
  <2> QED BY <1>1, <1>2, <2>1 DEF AddFinalizer
<1>3. CASE WriteStatus
  <2>1. ASSUME NEW st, claim # NoClaim, StoreClaim([claim EXCEPT !.status = NewStatus(st)])
        PROVE  DeletedIsHeld'
    <3>1. claim \in Claims /\ claim' = [claim EXCEPT !.status = NewStatus(st)]
      BY <2>1 DEF ServerTypes, StoreClaim
    <3>2. claim'.fin = claim.fin /\ claim'.del = claim.del
      BY <3>1 DEF Claims
    <3> QED BY <2>1, <3>2 DEF DeletedIsHeld
  <2> QED BY <1>1, <1>3, <2>1 DEF WriteStatus
<1>4. CASE Finalize
  <2>1. CASE claim # NoClaim /\ StoreClaim(IF claim.del THEN NoClaim ELSE [claim EXCEPT !.fin = FALSE])
    <3>1. claim \in Claims /\ claim' = IF claim.del THEN NoClaim ELSE [claim EXCEPT !.fin = FALSE]
      BY <2>1 DEF ServerTypes, StoreClaim
    <3>2. claim.del \/ claim'.del = claim.del
      BY <3>1 DEF Claims
    <3> QED BY <3>1, <3>2 DEF DeletedIsHeld
  <2> QED BY <1>1, <1>4, <2>1 DEF Finalize
<1>5. CASE CreateClaim
  <2>1. PICK d \in Claims : StoreClaim(d) /\ ~d.del
    BY <1>5, Creation DEF CreateClaim, HistoryTypes
  <2> QED BY <2>1 DEF StoreClaim, DeletedIsHeld
<1>6. CASE EditClaim
  <2>1. PICK d \in Claims : StoreClaim(d) /\ d.fin = claim.fin /\ d.del = claim.del
    BY <1>6, SpecEdit
  <2> QED BY <1>6, <2>1 DEF EditClaim, StoreClaim, DeletedIsHeld
<1>7. CASE DeleteClaim
  BY <1>7, Deletion DEF StoreClaim, DeletedIsHeld
<1>8. CASE Begin \/ ApplyNext \/ ApplyFails \/ ReadRollout \/ DeliverClaim \/ DeliverNamespace
           \/ Restart \/ DeleteNamespace \/ RemoveNamespace \/ ArgoReports
  BY <1>1, <1>8 DEF Begin, ApplyNext, ApplyFails, ReadRollout, DeliverClaim, DeliverNamespace,
                    Restart, DeleteNamespace, RemoveNamespace, ArgoReports
<1>9. ASSUME NEW k \in Tracked, EditObject(k) \/ DeleteObject(k) \/ RemoveContent(k)
      PROVE  DeletedIsHeld'
  BY <1>1, <1>9 DEF EditObject, DeleteObject, RemoveContent
<1>10. CASE UNCHANGED vars
  BY <1>1, <1>10 DEF vars
<1> QED BY <1>2, <1>3, <1>4, <1>5, <1>6, <1>7, <1>8, <1>9, <1>10 DEF Next

(* Every step is one of the lifecycle's, or changes nothing of it. *)
LEMMA LifecycleStep ==
  ASSUME ~NsLag, TypeOK, HoldInv, DeletedIsHeld, [Next]_vars
  PROVE  [Lifecycle!Next]_<<ClaimPhase, ns>>
<1> USE DEF TypeOK, HoldInv, server, claimCache, nsCache, worker, counters
<1>1. ClaimPhase = PhaseOf(claim) /\ ClaimPhase' = PhaseOf(claim')
  BY DEF ClaimPhase, PhaseOf
<1>2. CASE UNCHANGED <<claim, ns>>
  BY <1>1, <1>2
<1>3. CASE AddFinalizer
  <2>1. CASE claim # NoClaim /\ StoreClaim([claim EXCEPT !.fin = TRUE])
    <3>1. claim \in Claims
      BY <2>1 DEF ServerTypes
    <3>2. claim' = [claim EXCEPT !.fin = TRUE] /\ ns' = ns
      BY <1>3, <2>1 DEF AddFinalizer, StoreClaim
    <3>3. PhaseOf(claim') = IF claim.del THEN "going" ELSE "held"
      BY <3>1, <3>2, PhaseMoves
    <3>4. PhaseOf(claim) = PhaseOf(claim') \/ (PhaseOf(claim) = "free" /\ PhaseOf(claim') = "held")
      BY <2>1, <3>3 DEF PhaseOf, DeletedIsHeld
    <3> QED BY <1>1, <3>2, <3>4 DEF Lifecycle!Next, Lifecycle!Hold
  <2> QED BY <1>2, <1>3, <2>1 DEF AddFinalizer
<1>4. CASE ApplyNext
  <2>1. claim' = claim /\ PhaseOf(claim) \in {"held", "going"}
    BY <1>4 DEF ApplyNext, PhaseOf
  <2>2. CASE StoreNamespace(IF ns = "absent" THEN "active" ELSE ns)
    BY <1>1, <2>1, <2>2 DEF StoreNamespace, Lifecycle!Next, Lifecycle!Build
  <2> QED BY <1>2, <1>4, <2>1, <2>2 DEF ApplyNext
<1>5. CASE WriteStatus
  <2>1. ASSUME NEW st, claim # NoClaim, StoreClaim([claim EXCEPT !.status = NewStatus(st)])
        PROVE  [Lifecycle!Next]_<<ClaimPhase, ns>>
    <3>1. claim \in Claims /\ NewStatus(st) \in ClaimStatuses
      BY <1>5, <2>1, NewStatusType DEF WriteStatus, ServerTypes, WorkerTypes
    <3>2. claim' = [claim EXCEPT !.status = NewStatus(st)] /\ ns' = ns
      BY <1>5, <2>1 DEF WriteStatus, StoreClaim
    <3>3. PhaseOf(claim') = PhaseOf(claim)
      BY <3>1, <3>2, PhaseMoves
    <3> QED BY <1>1, <3>2, <3>3
  <2> QED BY <1>2, <1>5, <2>1 DEF WriteStatus
<1>6. CASE Finalize
  <2>1. nsWatch = <<>> /\ nsView = ns /\ NotHeldAgain
    BY <1>6 DEF Finalize, NewestIsNamespace
  <2>2. PhaseOf(claim) # "held"
    BY <2>1, LenProperties DEF NotHeldAgain, NotHeldAgainIn, Line, NewestIsClaim, Versions, CacheTypes
  <2>3. CASE /\ NamespaceGone /\ claim # NoClaim
             /\ StoreClaim(IF claim.del THEN NoClaim ELSE [claim EXCEPT !.fin = FALSE])
             /\ ns' = ns
    <3>1. claim \in Claims /\ ns = "absent"
      BY <2>1, <2>3 DEF ServerTypes, NamespaceGone
    <3>2. claim' = IF claim.del THEN NoClaim ELSE [claim EXCEPT !.fin = FALSE]
      BY <2>3 DEF StoreClaim
    <3>3. CASE claim.del
      <4>1. PhaseOf(claim) = "going" /\ PhaseOf(claim') = "none"
        BY <2>3, <3>2, <3>3 DEF PhaseOf, DeletedIsHeld
      <4> QED BY <1>1, <2>3, <3>1, <4>1 DEF Lifecycle!Next, Lifecycle!LetGo
    <3>4. CASE ~claim.del
      <4>1. PhaseOf(claim) = "free" /\ PhaseOf(claim') = "free"
        BY <2>2, <2>3, <3>1, <3>2, <3>4, PhaseMoves DEF PhaseOf
      <4> QED BY <1>1, <2>3, <4>1
    <3> QED BY <3>3, <3>4
  <2>4. CASE StoreNamespace(IF ns = "active" THEN "terminating" ELSE ns) /\ claim' = claim
    BY <1>1, <2>4 DEF StoreNamespace, Lifecycle!Next, Lifecycle!Empty
  <2> QED BY <1>2, <1>6, <2>3, <2>4 DEF Finalize
<1>7. CASE CreateClaim
  <2>1. PICK d \in Claims : StoreClaim(d) /\ d # NoClaim /\ ~d.fin
    BY <1>7, Creation DEF CreateClaim, HistoryTypes
  <2>2. PhaseOf(claim) = "none" /\ PhaseOf(claim') = "free" /\ ns' = ns
    BY <1>7, <2>1 DEF CreateClaim, StoreClaim, PhaseOf
  <2> QED BY <1>1, <2>2 DEF Lifecycle!Next, Lifecycle!Create
<1>8. CASE EditClaim
  <2>1. PICK d \in Claims : StoreClaim(d) /\ d # NoClaim /\ d.fin = claim.fin /\ d.del = claim.del
    BY <1>8, SpecEdit
  <2>2. PhaseOf(claim') = PhaseOf(claim) /\ ns' = ns
    BY <1>8, <2>1 DEF EditClaim, StoreClaim, PhaseOf
  <2> QED BY <1>1, <2>2
<1>9. CASE DeleteClaim
  <2>1. /\ ns' = ns
        /\ \/ PhaseOf(claim) = "free" /\ PhaseOf(claim') = "none"
           \/ PhaseOf(claim) = "held" /\ PhaseOf(claim') = "going"
    BY <1>9, Deletion DEF DeleteClaim, StoreClaim, PhaseOf
  <2> QED BY <1>1, <2>1 DEF Lifecycle!Next, Lifecycle!Delete
<1>10. CASE DeleteNamespace
  BY <1>1, <1>10 DEF DeleteNamespace, StoreNamespace, Lifecycle!Next, Lifecycle!Empty
<1>11. CASE RemoveNamespace
  BY <1>1, <1>11 DEF RemoveNamespace, StoreNamespace, Lifecycle!Next, Lifecycle!Remove
<1>12. CASE Begin \/ ApplyFails \/ ReadRollout \/ DeliverClaim \/ DeliverNamespace \/ Restart
            \/ ArgoReports
  BY <1>2, <1>12 DEF Begin, ApplyFails, ReadRollout, DeliverClaim, DeliverNamespace, Restart,
                     ArgoReports
<1>13. ASSUME NEW k \in Tracked, EditObject(k) \/ DeleteObject(k) \/ RemoveContent(k)
       PROVE  UNCHANGED <<claim, ns>>
  BY <1>13 DEF EditObject, DeleteObject, RemoveContent
<1>14. CASE UNCHANGED vars
  BY <1>2, <1>14 DEF vars
<1> QED BY <1>2, <1>3, <1>4, <1>5, <1>6, <1>7, <1>8, <1>9, <1>10, <1>11, <1>12, <1>13, <1>14
        DEF Next

(* With an up-to-date Namespace cache in finalize, the reconciler          *)
(* implements ClaimLifecycle.                                              *)
THEOREM LifecycleImplemented ==
  ASSUME ~NsLag
  PROVE  Spec => ImplementsLifecycle
<1>1. Init => Lifecycle!Init /\ DeletedIsHeld
  BY DEF Init, Lifecycle!Init, ClaimPhase, DeletedIsHeld
<1>2. TypeOK /\ DeletedIsHeld /\ [Next]_vars => DeletedIsHeld'
  BY DeletedIsHeldStep
<1>3. TypeOK /\ HoldInv /\ DeletedIsHeld /\ [Next]_vars => [Lifecycle!Next]_<<ClaimPhase, ns>>
  BY LifecycleStep
<1> QED BY <1>1, <1>2, <1>3, TypeCorrect, HoldInvHolds, PTL
        DEF Spec, ImplementsLifecycle, Lifecycle!Spec

(* In the lifecycle a Namespace is always held by a claim, and so it is in *)
(* the reconciler.                                                         *)
THEOREM NamespaceGuarded ==
  ASSUME ~NsLag
  PROVE  Spec => []FinalizerGuardsNamespace
<1> DEFINE Guarded == ns # "absent" => ClaimPhase \in {"held", "going"}
<1>1. Guarded <=> FinalizerGuardsNamespace
  BY DEF FinalizerGuardsNamespace, ClaimPhase
<1>2. Lifecycle!Init => Guarded
  BY DEF Lifecycle!Init
<1>3. Guarded /\ [Lifecycle!Next]_<<ClaimPhase, ns>> => Guarded'
  <2> SUFFICES ASSUME Guarded, [Lifecycle!Next]_<<ClaimPhase, ns>> PROVE Guarded'
    OBVIOUS
  <2>1. PICK p, q : p = ClaimPhase /\ q = ClaimPhase'
    OBVIOUS
  <2> QED BY <2>1 DEF Lifecycle!Next, Lifecycle!Create, Lifecycle!Hold, Lifecycle!Delete,
                      Lifecycle!Build, Lifecycle!Empty, Lifecycle!Remove, Lifecycle!LetGo
<1> HIDE DEF Guarded
<1> QED BY <1>1, <1>2, <1>3, LifecycleImplemented, PTL DEF ImplementsLifecycle, Lifecycle!Spec

-----------------------------------------------------------------------------
(* Build's order *)

(* What Build appends on a condition is a list of kinds. *)
LEMMA WhenType ==
  ASSUME NEW S, NEW c, NEW t \in Seq(S)
  PROVE  When(c, t) \in Seq(S)
BY EmptySeq DEF When

(* The place of the AnalysisTemplate in what Build returns. *)
TemplatePlace(s, l) == IF HasStorage(s, l) THEN 5 ELSE 3

(* The AnalysisTemplate comes after the Namespace, the ServiceAccount and  *)
(* the storage objects, for a tier that has one, and the Rollout after it. *)
LEMMA BuildOrder ==
  ASSUME NEW s, NEW l, HasCanaryAnalysis(s)
  PROVE  /\ TemplatePlace(s, l) \in DOMAIN Build(s, l)
         /\ Build(s, l)[TemplatePlace(s, l)] = "AnalysisTemplate"
         /\ \A i \in DOMAIN Build(s, l) :
              i \in Nat /\ (Build(s, l)[i] = "Rollout" => i > TemplatePlace(s, l))
<1> DEFINE Kinds == {"Rollout", "NetworkPolicy", "PrometheusRule", "ServiceMonitor", "Dashboard",
                     "Runbook", "Service", "HPA", "PodDisruptionBudget", "Ingress"}
           always == <<"Rollout", "NetworkPolicy", "PrometheusRule", "ServiceMonitor",
                       "Dashboard", "Runbook">>
           serving == <<"Service", "HPA", "PodDisruptionBudget">>
           public == <<"Ingress">>
           early == IF HasStorage(s, l)
                    THEN <<"Namespace", "ServiceAccount", "Role", "Bucket", "AnalysisTemplate">>
                    ELSE <<"Namespace", "ServiceAccount", "AnalysisTemplate">>
<1>1. Build(s, l) =
        early \o (always \o When(HasAutoscaling(s), serving) \o When(s.tier = "public", public))
  BY DEF Build, When
<1>2. always \in Seq(Kinds) /\ serving \in Seq(Kinds) /\ public \in Seq(Kinds)
  OBVIOUS
<1> HIDE DEF Kinds, always, serving, public
<1>3. When(HasAutoscaling(s), serving) \in Seq(Kinds) /\ When(s.tier = "public", public) \in Seq(Kinds)
  BY <1>2, WhenType
<1>4. PICK rest \in Seq(Kinds) :
        rest = always \o When(HasAutoscaling(s), serving) \o When(s.tier = "public", public)
  BY <1>2, <1>3, ConcatProperties
<1>5. PICK b : b = early \o rest
  OBVIOUS
<1>6. b = Build(s, l)
  <2> HIDE DEF early
  <2> QED BY <1>1, <1>4, <1>5, Zenon
<1>7. /\ DOMAIN b \subseteq Nat \ {0} /\ TemplatePlace(s, l) \in DOMAIN b
      /\ b[TemplatePlace(s, l)] = "AnalysisTemplate"
      /\ \A i \in 1 .. TemplatePlace(s, l) : b[i] # "Rollout"
  <2>1. CASE HasStorage(s, l)
    <3>1. /\ DOMAIN b \subseteq Nat \ {0} /\ 5 \in DOMAIN b
          /\ b[1] = "Namespace" /\ b[2] = "ServiceAccount" /\ b[3] = "Role" /\ b[4] = "Bucket"
          /\ b[5] = "AnalysisTemplate"
      BY <1>4, <1>5, <2>1
    <3>2. \A i \in 1 .. 5 : i = 1 \/ i = 2 \/ i = 3 \/ i = 4 \/ i = 5
      OBVIOUS
    <3> QED BY <2>1, <3>1, <3>2 DEF TemplatePlace
  <2>2. CASE ~HasStorage(s, l)
    <3>1. /\ DOMAIN b \subseteq Nat \ {0} /\ 3 \in DOMAIN b
          /\ b[1] = "Namespace" /\ b[2] = "ServiceAccount" /\ b[3] = "AnalysisTemplate"
      BY <1>4, <1>5, <2>2
    <3>2. \A i \in 1 .. 3 : i = 1 \/ i = 2 \/ i = 3
      OBVIOUS
    <3> QED BY <2>2, <3>1, <3>2 DEF TemplatePlace
  <2> QED BY <2>1, <2>2
<1>8. ASSUME NEW i \in DOMAIN b, b[i] = "Rollout" PROVE i > TemplatePlace(s, l)
  <2>1. i \in Nat \ {0} /\ TemplatePlace(s, l) \in Nat
    BY <1>7 DEF TemplatePlace
  <2>2. i \notin 1 .. TemplatePlace(s, l)
    BY <1>7, <1>8
  <2> QED BY <2>1, <2>2
<1> QED BY <1>6, <1>7, <1>8

TemplateThere == objs["AnalysisTemplate"] # Gone \/ "AnalysisTemplate" \in tampered

(* While a reconcile applies the objects of a tier with canary analysis,   *)
(* the template is there once its turn is over.                            *)
TemplateInv ==
  /\ objs["Rollout"] \notin {Gone, Edited} /\ objs["Rollout"].analysis => TemplateThere
  /\ pc = "apply" /\ HasCanaryAnalysis(cur.spec) /\ TemplatePlace(cur.spec, linked) \notin todo
     => TemplateThere

(* Every step keeps TemplateInv: an apply of the Rollout comes after that  *)
(* of the template, and nobody but others removes it.                      *)
LEMMA TemplateStep ==
  ASSUME "AnalysisTemplate" \in Tracked, TypeOK, TemplateInv, [Next]_vars
  PROVE  TemplateInv'
<1> USE DEF TypeOK, server, claimCache, nsCache, worker, counters
<1>1. ASSUME NEW c, cur' = c, StartApplying(c), UNCHANGED <<objs, tampered, linked>>
      PROVE  TemplateInv'
  <2>1. pc' = "apply" /\ HasCanaryAnalysis(c.spec) => TemplatePlace(c.spec, linked) \in todo'
    BY <1>1, BuildOrder DEF StartApplying, Plan
  <2> QED BY <1>1, <2>1 DEF TemplateInv, TemplateThere
<1>2. CASE Begin
  <2>1. CASE cur' = view /\ StartApplying(view)
    BY <1>1, <1>2, <2>1 DEF Begin
  <2>2. CASE UNCHANGED worker
    BY <1>2, <2>2 DEF Begin, TemplateInv, TemplateThere
  <2>3. CASE pc' \in {"finalize", "finalizer"}
    BY <1>2, <2>3 DEF Begin, TemplateInv, TemplateThere
  <2> QED BY <1>2, <2>1, <2>2, <2>3 DEF Begin
<1>3. CASE AddFinalizer
  <2>1. CASE cur' = cur /\ StartApplying(cur)
    BY <1>1, <1>3, <2>1 DEF AddFinalizer
  <2>2. CASE Return(TRUE)
    BY <1>3, <2>2 DEF AddFinalizer, Return, TemplateInv, TemplateThere
  <2> QED BY <1>3, <2>1, <2>2 DEF AddFinalizer
<1>4. CASE ApplyNext
  <2>1. /\ cur \in Claims /\ cur # NoClaim /\ cur' = cur /\ pc = "apply"
        /\ linked \in BOOLEAN /\ linked' = linked
    BY <1>4 DEF ApplyNext, WorkerTypes
  <2> DEFINE place == TemplatePlace(cur.spec, linked)
  <2>2. PICK i \in todo :
          /\ First(i)
          /\ KindAt(cur, linked, i) # "Namespace" =>
               objs' = [objs EXCEPT ![KindAt(cur, linked, i)] = Render(KindAt(cur, linked, i), cur.spec, linked)]
          /\ KindAt(cur, linked, i) = "Namespace" => objs' = objs
          /\ tampered' = tampered \ {KindAt(cur, linked, i)}
          /\ todo' = todo \ {i}
    BY <1>4 DEF ApplyNext
  <2>3. KindAt(cur, linked, i) \in Tracked \cup {"Namespace"} /\ i \in DOMAIN Build(cur.spec, linked)
    BY <2>1, <2>2, PlanKinds DEF WorkerTypes, Plan
  <2>4. HasCanaryAnalysis(cur.spec) =>
          (i = place => KindAt(cur, linked, i) = "AnalysisTemplate")
          /\ (KindAt(cur, linked, i) = "Rollout" => i > place)
    BY <2>3, BuildOrder DEF KindAt
  <2>5. CASE KindAt(cur, linked, i) = "AnalysisTemplate"
    <3>1. objs'["AnalysisTemplate"] = Render("AnalysisTemplate", cur.spec, linked)
      BY <2>2, <2>5 DEF ServerTypes
    <3>2. Render("AnalysisTemplate", cur.spec, linked) # Gone
      BY <2>1, ContentsAssumption DEF Claims
    <3> QED BY <3>1, <3>2 DEF TemplateInv, TemplateThere
  <2>6. CASE KindAt(cur, linked, i) = "Rollout"
    <3>1. /\ objs'["AnalysisTemplate"] = objs["AnalysisTemplate"]
          /\ objs'["Rollout"] = Render("Rollout", cur.spec, linked)
          /\ "AnalysisTemplate" \in tampered <=> "AnalysisTemplate" \in tampered'
      BY <2>2, <2>6, TrackedAssumption DEF ServerTypes
    <3>2. objs'["Rollout"].analysis = HasCanaryAnalysis(cur.spec)
      BY <3>1 DEF Render, BuildRollout
    <3>3. HasCanaryAnalysis(cur.spec) => place \notin todo
      <4>1. \A j \in todo : i <= j
        BY <2>2 DEF First
      <4>2. HasCanaryAnalysis(cur.spec) => i > place
        BY <2>4, <2>6
      <4>3. HasCanaryAnalysis(cur.spec) => i \in Nat
        BY <2>3, BuildOrder
      <4> QED BY <4>1, <4>2, <4>3 DEF TemplatePlace
    <3> QED BY <2>1, <3>1, <3>2, <3>3 DEF TemplateInv, TemplateThere
  <2>7. CASE KindAt(cur, linked, i) \notin {"AnalysisTemplate", "Rollout"}
    <3>1. /\ objs'["AnalysisTemplate"] = objs["AnalysisTemplate"]
          /\ objs'["Rollout"] = objs["Rollout"]
          /\ "AnalysisTemplate" \in tampered <=> "AnalysisTemplate" \in tampered'
      BY <2>2, <2>3, <2>7, TrackedAssumption DEF ServerTypes
    <3>2. HasCanaryAnalysis(cur.spec) /\ place \notin todo' => place \notin todo
      BY <2>2, <2>4, <2>7
    <3> QED BY <2>1, <3>1, <3>2 DEF TemplateInv, TemplateThere
  <2> QED BY <2>5, <2>6, <2>7
<1>5. CASE UNCHANGED <<objs, tampered>> /\ pc' # "apply"
  BY <1>5 DEF TemplateInv, TemplateThere
<1>6. CASE ApplyFails \/ ReadRollout \/ WriteStatus \/ Finalize
  BY <1>5, <1>6 DEF ApplyFails, ReadRollout, WriteStatus, Finalize, Return
<1>13. CASE Restart
  <2>1. objs' = objs /\ tampered \subseteq tampered' /\ pc' = "idle"
    BY <1>13 DEF Restart, Return
  <2> QED BY <2>1 DEF TemplateInv, TemplateThere
<1>7. CASE UNCHANGED <<objs, tampered, pc, cur, todo, linked>>
  BY <1>7 DEF TemplateInv, TemplateThere
<1>8. CASE DeliverClaim \/ DeliverNamespace \/ CreateClaim \/ EditClaim \/ DeleteClaim
           \/ DeleteNamespace \/ ArgoReports
  BY <1>7, <1>8 DEF DeliverClaim, DeliverNamespace, CreateClaim, EditClaim, DeleteClaim,
                    DeleteNamespace, ArgoReports
<1>9. CASE RemoveNamespace
  BY <1>9 DEF RemoveNamespace, TemplateInv, TemplateThere
<1>10. ASSUME NEW k \in Tracked, UNCHANGED <<pc, cur, todo, linked>>, tampered' = tampered \cup {k},
              objs' = [objs EXCEPT ![k] = Gone] \/ objs' = [objs EXCEPT ![k] = Edited]
       PROVE  TemplateInv'
  <2>1. TemplateThere => TemplateThere'
    BY <1>10 DEF TemplateThere, ServerTypes
  <2>2. objs'["Rollout"] \in {objs["Rollout"], Gone, Edited}
    BY <1>10, TrackedAssumption DEF ServerTypes
  <2> QED BY <1>10, <2>1, <2>2 DEF TemplateInv
<1>11. ASSUME NEW k \in Tracked, EditObject(k) \/ DeleteObject(k) \/ RemoveContent(k)
       PROVE  TemplateInv'
  BY <1>10, <1>11 DEF EditObject, DeleteObject, RemoveContent, Remove
<1>12. CASE UNCHANGED vars
  BY <1>7, <1>12 DEF vars
<1> QED BY <1>2, <1>3, <1>4, <1>6, <1>8, <1>9, <1>11, <1>12, <1>13 DEF Next

(* A Rollout whose canary is analysed has its AnalysisTemplate, unless     *)
(* somebody took it away, for every set of tracked kinds with a template,  *)
(* every spec and any number of claims, faults and restarts (Build's       *)
(* order, applyObjects).                                                   *)
THEOREM TemplateFirst ==
  ASSUME "AnalysisTemplate" \in Tracked
  PROVE  Spec => []TemplateBeforeRollout
<1>1. Init => TemplateInv
  BY TrackedAssumption DEF Init, TemplateInv, TemplateThere
<1>2. TypeOK /\ TemplateInv /\ [Next]_vars => TemplateInv'
  BY TemplateStep
<1>3. TemplateInv => TemplateBeforeRollout
  BY DEF TemplateInv, TemplateThere, TemplateBeforeRollout
<1> QED BY <1>1, <1>2, <1>3, TypeCorrect, PTL DEF Spec

-----------------------------------------------------------------------------
(* Generations *)

(* How a step of the model writes the claim: it leaves it alone; removes   *)
(* it; keeps its generation, spec and status (finalizers); starts a new    *)
(* generation with the status there was (a user's edit or delete); or      *)
(* writes the status of the reconcile that ends (applyStatus).             *)
Kept(d) == d.gen = claim.gen /\ d.spec = claim.spec /\ d.status = claim.status
Bumped(d) == d.gen = claim.gen + 1 /\ d.status = claim.status
Reported(d) ==
  /\ pc = "status" /\ cur # NoClaim
  /\ d.gen = claim.gen /\ d.spec = claim.spec
  /\ \E st \in StorageReports : d.status = NewStatus(st)

ClaimWrite(d) ==
  /\ claim \in Claims /\ claim # NoClaim
  /\ StoreClaim(d)
  /\ view' = view /\ created' = created /\ (cur' \in {cur, NoClaim})
  /\ d # NoClaim => d \in Claims /\ (Kept(d) \/ Bumped(d) \/ Reported(d))

(* Every step does one of these, delivers a version, restarts or creates. *)
LEMMA ClaimSteps ==
  ASSUME TypeOK, [Next]_vars
  PROVE  \/ UNCHANGED <<claim, view, watch, created>> /\ (cur' \in {cur, NoClaim})
         \/ UNCHANGED <<claim, view, watch, created>> /\ Begin
         \/ DeliverClaim \/ Restart \/ CreateClaim
         \/ \E d \in Claims \cup {NoClaim} : ClaimWrite(d)
<1> USE DEF TypeOK, server, claimCache, nsCache, worker, counters
<1>1. claim # NoClaim => claim \in Claims
  BY DEF ServerTypes
<1>2. CASE AddFinalizer
  <2>1. CASE claim # NoClaim /\ StoreClaim([claim EXCEPT !.fin = TRUE]) /\ cur' = cur
    <3>1. PICK d : d = [claim EXCEPT !.fin = TRUE]
      OBVIOUS
    <3>2. d \in Claims /\ Kept(d)
      BY <1>1, <2>1, <3>1, FinalizerWrite DEF Kept
    <3>3. ClaimWrite(d)
      BY <1>1, <1>2, <2>1, <3>1, <3>2 DEF ClaimWrite, AddFinalizer
    <3> QED BY <3>2, <3>3
  <2>2. CASE Return(TRUE) /\ UNCHANGED <<claim, watch>>
    BY <1>2, <2>2 DEF AddFinalizer, Return
  <2> QED BY <1>2, <2>1, <2>2 DEF AddFinalizer
<1>3. CASE WriteStatus
  <2>1. pc = "status" /\ cur # NoClaim /\ cur' = NoClaim
    BY <1>3 DEF WriteStatus, Return, WorkerTypes
  <2>2. ASSUME NEW st \in StorageReports, claim # NoClaim,
               StoreClaim([claim EXCEPT !.status = NewStatus(st)])
        PROVE  \E d \in Claims \cup {NoClaim} : ClaimWrite(d)
    <3>1. PICK new \in ClaimStatuses : new = NewStatus(st)
      BY <2>1, NewStatusType
    <3>2. PICK d : d = [claim EXCEPT !.status = new]
      OBVIOUS
    <3>3. d \in Claims /\ d.gen = claim.gen /\ d.spec = claim.spec /\ d.status = new
      BY <1>1, <2>2, <3>2, StatusWrite
    <3>4. Reported(d)
      BY <2>1, <2>2, <3>1, <3>3 DEF Reported
    <3>5. StoreClaim(d)
      BY <2>2, <3>1, <3>2
    <3>6. ClaimWrite(d)
      BY <1>1, <1>3, <2>1, <2>2, <3>3, <3>4, <3>5 DEF ClaimWrite, WriteStatus
    <3> QED BY <3>3, <3>6
  <2>3. CASE UNCHANGED <<claim, watch>>
    BY <1>3, <2>1, <2>3 DEF WriteStatus
  <2> QED BY <1>3, <2>2, <2>3 DEF WriteStatus
<1>4. CASE Finalize
  <2>1. cur' = NoClaim
    BY <1>4 DEF Finalize, Return
  <2>2. CASE claim # NoClaim /\ StoreClaim(IF claim.del THEN NoClaim ELSE [claim EXCEPT !.fin = FALSE])
    <3>1. PICK d : d = [claim EXCEPT !.fin = FALSE]
      OBVIOUS
    <3>2. d \in Claims /\ Kept(d)
      BY <1>1, <2>2, <3>1, FinalizerWrite DEF Kept
    <3>3. PICK c \in {d, NoClaim} : StoreClaim(c)
      BY <2>2, <3>1
    <3>4. ClaimWrite(c)
      BY <1>1, <1>4, <2>1, <2>2, <3>2, <3>3 DEF ClaimWrite, Finalize
    <3> QED BY <3>2, <3>3, <3>4
  <2>3. CASE UNCHANGED <<claim, watch>>
    BY <1>4, <2>1, <2>3 DEF Finalize
  <2> QED BY <1>4, <2>2, <2>3 DEF Finalize
<1>5. CASE EditClaim
  <2>1. PICK d \in Claims : StoreClaim(d) /\ d.status = claim.status /\ d.gen = claim.gen + 1
    BY <1>5, SpecEdit
  <2>2. ClaimWrite(d)
    BY <1>1, <1>5, <2>1 DEF ClaimWrite, Bumped, EditClaim
  <2> QED BY <2>1, <2>2
<1>6. CASE DeleteClaim
  <2>1. PICK d \in Claims \cup {NoClaim} :
          StoreClaim(d) /\ (d # NoClaim => d.status = claim.status /\ d.gen = claim.gen + 1)
    BY <1>6, Deletion
  <2>2. ClaimWrite(d)
    BY <1>1, <1>6, <2>1 DEF ClaimWrite, Bumped, DeleteClaim
  <2> QED BY <2>1, <2>2
<1>7. CASE Begin
  BY <1>7 DEF Begin
<1>8. CASE ApplyNext \/ ApplyFails \/ ReadRollout \/ DeliverNamespace
           \/ DeleteNamespace \/ RemoveNamespace \/ ArgoReports
  BY <1>8 DEF ApplyNext, ApplyFails, ReadRollout, DeliverNamespace,
              DeleteNamespace, RemoveNamespace, ArgoReports
<1>9. ASSUME NEW k \in Tracked, EditObject(k) \/ DeleteObject(k) \/ RemoveContent(k)
      PROVE  UNCHANGED <<claim, view, watch, created, cur>>
  BY <1>9 DEF EditObject, DeleteObject, RemoveContent
<1>10. CASE UNCHANGED vars
  BY <1>10 DEF vars
<1> QED BY <1>2, <1>3, <1>4, <1>5, <1>6, <1>7, <1>8, <1>9, <1>10 DEF Next

(* Of two versions of one claim, the second has not the older generation,  *)
(* and the spec of the first while it has the same.                        *)
Older(x, y) ==
  x # NoClaim /\ y # NoClaim => x.gen <= y.gen /\ (x.gen = y.gen => x.spec = y.spec)

(* A version reports no generation later than its own, than the cached     *)
(* claim's or than that of the claim the running reconcile read, and none  *)
(* before the claim has reached the cache.                                 *)
Follows(v) ==
  /\ v.status.gen <= v.gen
  /\ view # NoClaim => v.status.gen <= view.gen
  /\ view = NoClaim => v.status = NoStatus /\ cur = NoClaim
  /\ cur # NoClaim => v.status.gen <= cur.gen /\ Older(cur, v)

CreatedOnce ==
  /\ created = 0 => view = NoClaim /\ watch = <<>> /\ cur = NoClaim
  /\ \A i \in Versions : i > 0 /\ Version(i) = NoClaim => i = Len(watch)

GenerationInv ==
  /\ CreatedOnce
  /\ \A i, j \in Versions : i < j => Older(Version(i), Version(j))
  /\ \A i \in Versions : Version(i) # NoClaim => Follows(Version(i))

(* What the caches hold are claims, with generations that are numbers. *)
LEMMA VersionTypes ==
  ASSUME TypeOK
  PROVE  /\ Len(watch) \in Nat /\ 0 \in Versions /\ Len(watch) \in Versions /\ Version(0) = view
         /\ \A i \in Versions : i \in Nat /\ i <= Len(watch) /\ Version(i) \in Claims \cup {NoClaim}
         /\ \A c \in Claims : c.gen \in Nat /\ c.status.gen \in Nat
<1>1. Len(watch) \in Nat /\ \A i \in 1 .. Len(watch) : watch[i] \in Claims \cup {NoClaim}
  BY LenProperties, ElementOfSeq DEF TypeOK, CacheTypes
<1>2. \A i \in Versions : i \in Nat /\ i <= Len(watch) /\ Version(i) \in Claims \cup {NoClaim}
  BY <1>1 DEF Versions, Version, TypeOK, CacheTypes
<1>3. \A c \in Claims : c.gen \in Nat /\ c.status.gen \in Nat
  BY Bounds DEF Claims, ClaimStatuses
<1> QED BY <1>1, <1>2, <1>3 DEF Versions, Version

(* A claim that is there has been created. *)
LEMMA CreatedBefore ==
  ASSUME TypeOK, NewestIsClaim, CreatedOnce, claim # NoClaim
  PROVE  created # 0 /\ \A i \in Versions : i > 0 => Version(i) # NoClaim
<1>1. watch = <<>> => Len(watch) = 0
  BY LastIndex DEF TypeOK, CacheTypes
<1>2. watch # <<>> \/ view # NoClaim
  BY <1>1, VersionTypes DEF NewestIsClaim
<1> QED BY <1>2, VersionTypes DEF CreatedOnce, NewestIsClaim

(* What is written to the claim is no older than any version of it. *)
LEMMA WriteFollows ==
  ASSUME TypeOK, NewestIsClaim, GenerationInv, NEW d \in Claims, d # NoClaim, ClaimWrite(d)
  PROVE  /\ \A i \in Versions : Older(Version(i), d)
         /\ Follows(d)
<1>1. /\ claim \in Claims /\ claim # NoClaim /\ claim.gen \in Nat /\ claim.status.gen \in Nat
      /\ Follows(claim) /\ (Kept(d) \/ Bumped(d) \/ Reported(d))
  BY VersionTypes DEF ClaimWrite, GenerationInv, NewestIsClaim
<1>2. \A i \in Versions : Older(Version(i), claim)
  <2>1. \A i \in Versions : i < Len(watch) => Older(Version(i), claim)
    BY VersionTypes DEF GenerationInv, NewestIsClaim
  <2>2. Older(claim, claim)
    BY <1>1 DEF Older
  <2> QED BY <2>1, <2>2, VersionTypes DEF NewestIsClaim
<1>3. ASSUME NEW x \in Claims, x # NoClaim, Older(x, claim) PROVE Older(x, d)
  <2>1. x.gen \in Nat
    BY VersionTypes
  <2>2. x.gen <= claim.gen /\ (x.gen = claim.gen => x.spec = claim.spec)
    BY <1>1, <1>3 DEF Older
  <2>3. CASE d.gen = claim.gen /\ d.spec = claim.spec
    BY <2>2, <2>3 DEF Older
  <2>4. CASE d.gen = claim.gen + 1
    BY <1>1, <2>1, <2>2, <2>4 DEF Older
  <2> QED BY <1>1, <2>3, <2>4 DEF Kept, Bumped, Reported
<1>4. \A i \in Versions : Older(Version(i), d)
  BY <1>2, <1>3, VersionTypes DEF Older
<1>5. cur # NoClaim => cur \in Claims /\ Older(cur, claim)
  BY <1>1 DEF Follows, TypeOK, WorkerTypes
<1>6. cur # NoClaim => Older(cur, d)
  BY <1>3, <1>5
<1>7. CASE Kept(d) \/ Bumped(d)
  <2>1. d.status = claim.status /\ d.status.gen <= d.gen
    BY <1>1, <1>7 DEF Kept, Bumped, Follows
  <2> QED BY <1>1, <1>4, <1>6, <2>1 DEF Follows
<1>8. CASE Reported(d)
  <2>1. d.status.gen = cur.gen /\ cur # NoClaim /\ cur.gen \in Nat /\ d.gen = claim.gen
    BY <1>5, <1>8, VersionTypes DEF Reported, NewStatus
  <2>2. cur.gen <= d.gen
    BY <1>1, <1>5, <2>1 DEF Older
  <2>3. view # NoClaim
    BY <1>1, <2>1 DEF Follows
  <2>4. cur.gen <= view.gen
    BY <2>1, <2>3, VersionTypes DEF GenerationInv, Follows, Older
  <2> QED BY <1>4, <1>6, <2>1, <2>2, <2>3, <2>4 DEF Follows
<1> QED BY <1>1, <1>7, <1>8

(* So a write keeps the versions in order. *)
LEMMA GenerationWrite ==
  ASSUME MaxClaims = 1, TypeOK, NewestIsClaim, GenerationInv,
         NEW d \in Claims \cup {NoClaim}, ClaimWrite(d)
  PROVE  GenerationInv'
<1>1. /\ StoreClaim(d) /\ UNCHANGED <<view, created>> /\ cur' \in {cur, NoClaim}
      /\ claim # NoClaim /\ created # 0
      /\ \A i \in Versions : i > 0 => Version(i) # NoClaim
  BY CreatedBefore DEF ClaimWrite, GenerationInv
<1>2. /\ Len(watch) \in Nat
      /\ \/ d = claim /\ watch' = watch
         \/ /\ Len(watch') = Len(watch) + 1
            /\ \A i \in Versions : Version(i)' = Version(i)
            /\ Version(Len(watch))' = d
  BY <1>1, StoreVersions DEF TypeOK
<1>3. \A v : v # NoClaim /\ Follows(v) =>
        /\ v.status.gen <= v.gen
        /\ view' # NoClaim => v.status.gen <= view'.gen
        /\ view' = NoClaim => v.status = NoStatus /\ cur' = NoClaim
        /\ cur' # NoClaim => v.status.gen <= cur'.gen /\ Older(cur', v)
  BY <1>1 DEF Follows
<1>4. \A i \in Versions' : Version(i)' # NoClaim /\ Follows(Version(i)') => Follows(Version(i))'
  BY <1>3 DEF Follows, Older
<1>5. CASE watch' = watch
  <2>1. Versions' = Versions /\ \A i \in Versions : Version(i)' = Version(i)
    BY <1>1, <1>5 DEF Versions, Version
  <2>2. CreatedOnce'
    BY <1>1, <1>5, <2>1 DEF GenerationInv, CreatedOnce
  <2>3. \A i \in Versions' : Version(i)' # NoClaim => Follows(Version(i))'
    BY <1>4, <2>1 DEF GenerationInv
  <2> QED BY <2>1, <2>2, <2>3 DEF GenerationInv, Older
<1>6. CASE /\ Len(watch') = Len(watch) + 1
           /\ \A i \in Versions : Version(i)' = Version(i)
           /\ Version(Len(watch))' = d
  <2>1. \A i \in Versions' : i \in Versions \/ (i = Len(watch') /\ Version(i)' = d)
    BY <1>2, <1>6 DEF Versions, Version
  <2>2. \A i, j \in Versions' : i < j => i \in Versions
    BY <1>2, <1>6 DEF Versions
  <2>3. CreatedOnce'
    BY <1>1, <1>6, <2>1 DEF CreatedOnce
  <2>4. \A i \in Versions : Older(Version(i), d)
    BY WriteFollows DEF Older
  <2>5. \A i, j \in Versions' : i < j => Older(Version(i)', Version(j)')
    BY <1>6, <2>1, <2>2, <2>4 DEF GenerationInv
  <2>6. \A i \in Versions' : Version(i)' # NoClaim => Follows(Version(i)')
    BY <1>6, <2>1, WriteFollows DEF GenerationInv
  <2> QED BY <1>4, <2>3, <2>5, <2>6 DEF GenerationInv, Older
<1> QED BY <1>2, <1>5, <1>6

(* So does a delivery. *)
LEMMA GenerationDeliver ==
  ASSUME TypeOK, NewestIsClaim, GenerationInv, DeliverClaim
  PROVE  GenerationInv'
<1>1. /\ Len(watch) \in Nat /\ Len(watch') = Len(watch) - 1
      /\ \A i \in Versions' : i + 1 \in Versions /\ Version(i)' = Version(i + 1)
  BY DeliverVersions DEF TypeOK
<1>2. UNCHANGED <<cur, created>> /\ watch # <<>> /\ view' = Version(1) /\ 1 \in Versions
  <2>1. watch # <<>> /\ view' = Head(watch) /\ UNCHANGED <<cur, created>>
    BY DEF DeliverClaim, worker, counters
  <2>2. Len(watch) # 0
    BY <2>1, EmptySeq DEF TypeOK, CacheTypes
  <2> QED BY <1>1, <2>1, <2>2 DEF Version, Versions
<1>3. CreatedOnce'
  <2>1. created # 0
    BY <1>2 DEF GenerationInv, CreatedOnce
  <2>2. \A i \in Versions' : i > 0 /\ Version(i)' = NoClaim => i = Len(watch')
    BY <1>1, VersionTypes DEF GenerationInv, CreatedOnce, Versions
  <2> QED BY <1>2, <2>1, <2>2 DEF CreatedOnce
<1>4. \A i, j \in Versions' : i < j => Older(Version(i)', Version(j)')
  <2>1. \A i, j \in Versions' : i < j => i + 1 < j + 1
    BY DEF Versions
  <2> QED BY <1>1, <2>1 DEF GenerationInv
<1>5. ASSUME NEW i \in Versions', Version(i)' # NoClaim PROVE Follows(Version(i))'
  <2>1. PICK v \in Claims : v = Version(i)' /\ v # NoClaim /\ v = Version(i + 1) /\ Follows(v)
    BY <1>1, <1>5, VersionTypes DEF GenerationInv
  <2>2. v.gen \in Nat /\ v.status.gen \in Nat
    BY <2>1, VersionTypes
  <2>3. view' = NoClaim => i = 0
    <3>1. view' = NoClaim => Len(watch) = 1
      BY <1>2 DEF GenerationInv, CreatedOnce
    <3>2. i \in Nat /\ i <= Len(watch')
      BY <1>1 DEF Versions
    <3>3. Len(watch) = 1 => Len(watch') = 0
      BY <1>1
    <3>4. Len(watch') = 0 => i = 0
      BY <3>2
    <3> QED BY <3>1, <3>3, <3>4
  <2>4. view' # NoClaim
    BY <1>2, <1>5, <2>3 DEF Version
  <2>5. v.status.gen <= view'.gen
    <3>1. view' \in Claims /\ view'.gen \in Nat
      BY <1>2, <2>4, VersionTypes
    <3>2. CASE view = NoClaim
      BY <2>1, <3>1, <3>2 DEF Follows, NoStatus
    <3>3. CASE view # NoClaim
      <4>1. view \in Claims /\ view.gen \in Nat /\ v.status.gen <= view.gen
        BY <2>1, <3>3, VersionTypes DEF Follows, TypeOK, CacheTypes
      <4>2. view.gen <= view'.gen
        BY <1>2, <2>4, <3>3, VersionTypes DEF GenerationInv, Older
      <4> QED BY <2>2, <3>1, <4>1, <4>2
    <3> QED BY <3>2, <3>3
  <2>6. /\ v.status.gen <= v.gen
        /\ cur' # NoClaim => v.status.gen <= cur'.gen /\ Older(cur', v)
    BY <1>2, <2>1 DEF Follows
  <2> QED BY <2>1, <2>4, <2>5, <2>6 DEF Follows, Older
<1> QED BY <1>3, <1>4, <1>5 DEF GenerationInv, Older

(* Every step does: a reconcile starts from the cached claim, which no     *)
(* version is older than.                                                  *)
LEMMA GenerationStep ==
  ASSUME MaxClaims = 1, TypeOK, HoldInv, GenerationInv, [Next]_vars
  PROVE  GenerationInv'
<1>1. NewestIsClaim
  BY DEF HoldInv
<1>2. CASE UNCHANGED <<claim, view, watch, created>> /\ cur' \in {cur, NoClaim, view}
  <2>1. Versions' = Versions /\ \A i \in Versions : Version(i)' = Version(i)
    BY <1>2 DEF Versions, Version
  <2>2. created = 0 => cur' = NoClaim
    BY <1>2 DEF GenerationInv, CreatedOnce
  <2>3. ASSUME NEW i \in Versions, Version(i) # NoClaim PROVE Follows(Version(i))'
    <3>1. Follows(Version(i)) /\ Version(i) \in Claims
      BY <2>3, VersionTypes DEF GenerationInv
    <3>2. view # NoClaim => Older(view, Version(i))
      <4>1. CASE i = 0
        BY <4>1, VersionTypes DEF Older, TypeOK, CacheTypes
      <4>2. CASE i # 0
        BY <4>2, VersionTypes DEF GenerationInv
      <4> QED BY <4>1, <4>2
    <3>3. cur' # NoClaim => Version(i).status.gen <= cur'.gen /\ Older(cur', Version(i))
      BY <1>2, <3>1, <3>2 DEF Follows
    <3>4. view = NoClaim => cur' = NoClaim
      BY <1>2, <3>1 DEF Follows
    <3> QED BY <1>2, <2>1, <3>1, <3>3, <3>4 DEF Follows, Older
  <2> QED BY <1>2, <2>1, <2>2, <2>3 DEF GenerationInv, CreatedOnce, Older
<1>3. CASE DeliverClaim
  BY <1>1, <1>3, GenerationDeliver
<1>4. CASE Restart
  <2>1. /\ view' = claim /\ watch' = <<>> /\ cur' = NoClaim /\ created' = created
    BY <1>4 DEF Restart, Return
  <2>2. Versions' = {0} /\ Version(0)' = claim
    BY <2>1 DEF Version, Versions
  <2>3. created = 0 => claim = NoClaim
    BY <1>1, CreatedBefore DEF GenerationInv
  <2>4. claim # NoClaim => Follows(claim)
    BY <1>1, VersionTypes DEF GenerationInv, NewestIsClaim
  <2>5. claim # NoClaim => Follows(Version(0))'
    BY <2>1, <2>2, <2>4 DEF Follows
  <2> QED BY <2>1, <2>2, <2>3, <2>5 DEF GenerationInv, CreatedOnce
<1>5. CASE CreateClaim
  <2>1. created = 0 /\ view = NoClaim /\ watch = <<>> /\ cur = NoClaim /\ view' = view /\ cur' = cur
        /\ created' # 0
    BY <1>5 DEF CreateClaim, TypeOK, HistoryTypes, GenerationInv, CreatedOnce, worker
  <2>2. PICK d \in Claims : /\ StoreClaim(d) /\ d # NoClaim
                            /\ d.gen = 1 /\ d.status = NoStatus
    BY <1>5, Creation DEF CreateClaim, TypeOK, HistoryTypes
  <2>3. watch' = <<d>>
    BY <1>5, <2>1, <2>2 DEF StoreClaim, CreateClaim
  <2>4. Versions' = {0, 1} /\ Version(0)' = NoClaim /\ Version(1)' = d /\ Len(watch') = 1
    BY <2>1, <2>3 DEF Versions, Version
  <2>5. Follows(Version(1))'
    BY <2>1, <2>2, <2>4 DEF Follows, NoStatus
  <2> QED BY <2>1, <2>2, <2>4, <2>5 DEF GenerationInv, CreatedOnce, Older
<1>6. ASSUME NEW d \in Claims \cup {NoClaim}, ClaimWrite(d) PROVE GenerationInv'
  BY <1>1, <1>6, GenerationWrite
<1>7. CASE UNCHANGED <<claim, view, watch, created>> /\ Begin
  <2>1. cur' \in {cur, view}
    BY <1>7 DEF Begin, worker
  <2> QED BY <1>2, <1>7, <2>1
<1> QED BY <1>2, <1>3, <1>4, <1>5, <1>6, <1>7, ClaimSteps

(* The versions of a claim are in order, for one that is created once. *)
THEOREM GenerationInvHolds ==
  ASSUME MaxClaims = 1
  PROVE  Spec => []GenerationInv
<1>1. Init => GenerationInv
  <2> SUFFICES ASSUME Init PROVE GenerationInv
    OBVIOUS
  <2>1. Versions = {0} /\ Version(0) = NoClaim
    BY DEF Init, Versions, Version
  <2> QED BY <2>1 DEF Init, GenerationInv, CreatedOnce
<1>2. TypeOK /\ HoldInv /\ GenerationInv /\ [Next]_vars => GenerationInv'
  BY GenerationStep
<1> QED BY <1>1, <1>2, TypeCorrect, HoldInvHolds, PTL DEF Spec

(* observedGeneration never runs ahead of its claim nor goes back, for any *)
(* set of specs, number of edits, faults, restarts and tampers, and an     *)
(* informer that lags as far as it likes: each status is written from a    *)
(* cached claim at least as new as the one the last status was.            *)
THEOREM ObservedGeneration ==
  ASSUME MaxClaims = 1
  PROVE  Spec => ObservedGenerationSound
<1> DEFINE Step == claim # NoClaim /\ claim' # NoClaim =>
                     claim'.status.gen <= claim'.gen /\ claim'.status.gen >= claim.status.gen
<1>1. ASSUME TypeOK, HoldInv, GenerationInv, [Next]_vars PROVE Step
  <2> SUFFICES ASSUME claim # NoClaim, claim' # NoClaim PROVE Step
    OBVIOUS
  <2>1. NewestIsClaim
    BY <1>1 DEF HoldInv
  <2>2. claim \in Claims /\ Follows(claim) /\ claim.gen \in Nat /\ claim.status.gen \in Nat
    BY <1>1, <2>1, VersionTypes DEF GenerationInv, NewestIsClaim, TypeOK, ServerTypes
  <2>3. CASE claim' = claim
    BY <2>2, <2>3 DEF Follows
  <2>4. ASSUME NEW d \in Claims \cup {NoClaim}, ClaimWrite(d) PROVE Step
    <3>1. claim' = d /\ d \in Claims /\ d # NoClaim /\ (Kept(d) \/ Bumped(d) \/ Reported(d))
      BY <2>4 DEF ClaimWrite, StoreClaim
    <3>2. Follows(d) /\ d.status.gen \in Nat
      BY <1>1, <2>1, <2>4, <3>1, WriteFollows, VersionTypes
    <3>4. Reported(d) => d.status.gen = cur.gen /\ cur # NoClaim
      BY DEF Reported, NewStatus
    <3>3. claim.status.gen <= d.status.gen
      BY <2>2, <3>1, <3>4 DEF Kept, Bumped, Follows
    <3> QED BY <2>2, <3>1, <3>2, <3>3 DEF Follows
  <2>5. CASE DeliverClaim \/ Restart \/ CreateClaim
    BY <2>3, <2>5 DEF DeliverClaim, Restart, CreateClaim, server
  <2> QED BY <1>1, <2>3, <2>4, <2>5, ClaimSteps
<1>2. TypeOK /\ HoldInv /\ GenerationInv /\ [Next]_vars => [Step]_vars
  BY <1>1
<1> QED BY <1>2, TypeCorrect, HoldInvHolds, GenerationInvHolds, PTL
        DEF Spec, ObservedGenerationSound

-----------------------------------------------------------------------------
(* What ran when the claim became Ready *)

(* The versions after a step are those from before it, and what it wrote. *)
LEMMA VersionOrigin ==
  ASSUME TypeOK, HoldInv, [Next]_vars
  PROVE  \A i \in Versions' : \/ \E j \in Versions : Version(i)' = Version(j)
                              \/ Version(i)' = claim' /\ claim' # claim
<1>1. NewestIsClaim /\ CacheTypes
  BY DEF HoldInv, TypeOK
<1>2. CASE UNCHANGED <<view, watch>>
  BY <1>2 DEF Versions, Version
<1>3. CASE DeliverClaim
  BY <1>1, <1>3, DeliverVersions
<1>4. CASE Restart
  <2>1. Versions' = {0} /\ Version(0)' = Version(Len(watch)) /\ Len(watch) \in Versions
    BY <1>1, <1>4, VersionTypes DEF Restart, Return, Versions, Version, NewestIsClaim
  <2> QED BY <2>1
<1>5. ASSUME NEW d \in Claims \cup {NoClaim}, StoreClaim(d), view' = view
      PROVE  \A i \in Versions' : \/ \E j \in Versions : Version(i)' = Version(j)
                                  \/ Version(i)' = claim' /\ claim' # claim
  <2>1. CASE d = claim
    BY <1>2, <1>5, <2>1 DEF StoreClaim
  <2>2. CASE d # claim
    <3>1. /\ Len(watch) \in Nat
          /\ \/ watch' = watch
             \/ /\ Len(watch') = Len(watch) + 1
                /\ \A i \in Versions : Version(i)' = Version(i)
                /\ Version(Len(watch))' = d
      BY <1>1, <1>5, StoreVersions
    <3>2. claim' = d
      BY <1>5 DEF StoreClaim
    <3>3. \A i \in Versions' : watch' = watch \/ i \in Versions \/ i = Len(watch')
      BY <3>1 DEF Versions
    <3> QED BY <1>2, <1>5, <2>2, <3>1, <3>2, <3>3 DEF Version
  <2> QED BY <2>1, <2>2
<1>6. CASE CreateClaim
  <2>1. PICK d \in Claims : StoreClaim(d)
    BY <1>6, Creation DEF CreateClaim, TypeOK, HistoryTypes
  <2> QED BY <1>5, <1>6, <2>1 DEF CreateClaim
<1>7. ASSUME NEW d \in Claims \cup {NoClaim}, ClaimWrite(d)
      PROVE  StoreClaim(d) /\ view' = view
  BY <1>7 DEF ClaimWrite
<1> QED BY <1>2, <1>3, <1>4, <1>5, <1>6, <1>7, ClaimSteps

Has(t, k) == \E i \in DOMAIN t : t[i] = k

(* Build appends to what it has: nothing is lost, and nothing added. *)
LEMMA ConcatHas ==
  ASSUME NEW S, NEW s \in Seq(S), NEW t \in Seq(S), NEW k
  PROVE  /\ s \o t \in Seq(S)
         /\ Has(s \o t, k) <=> Has(s, k) \/ Has(t, k)
<1>1. Len(s) \in Nat /\ Len(t) \in Nat /\ DOMAIN s = 1 .. Len(s) /\ DOMAIN t = 1 .. Len(t)
  BY LenProperties
<1>2. s \o t \in Seq(S) /\ DOMAIN (s \o t) = 1 .. Len(s) + Len(t)
  BY <1>1
<1>3. ASSUME NEW i \in DOMAIN s, s[i] = k PROVE Has(s \o t, k)
  <2>1. i \in DOMAIN (s \o t) /\ (s \o t)[i] = k
    BY <1>1, <1>2, <1>3
  <2> QED BY <2>1, Zenon DEF Has
<1>4. ASSUME NEW i \in DOMAIN t, t[i] = k PROVE Has(s \o t, k)
  <2>1. Len(s) + i \in DOMAIN (s \o t) /\ (s \o t)[Len(s) + i] = k
    BY <1>1, <1>2, <1>4
  <2> QED BY <2>1, Zenon DEF Has
<1>5. ASSUME NEW i \in DOMAIN (s \o t), (s \o t)[i] = k PROVE Has(s, k) \/ Has(t, k)
  <2>1. CASE i <= Len(s)
    <3>1. i \in DOMAIN s /\ s[i] = k
      BY <1>1, <1>2, <1>5, <2>1
    <3> QED BY <3>1, Zenon DEF Has
  <2>2. CASE i > Len(s)
    <3>1. i - Len(s) \in DOMAIN t /\ t[i - Len(s)] = k
      BY <1>1, <1>2, <1>5, <2>2
    <3> QED BY <3>1, Zenon DEF Has
  <2> QED BY <1>1, <1>2, <1>5, <2>1, <2>2
<1> QED BY <1>2, <1>3, <1>4, <1>5, Zenon DEF Has

(* Every claim has a Rollout, and but for the Role and the Bucket a link   *)
(* to AWS takes nothing away (Build).                                      *)
LEMMA BuildHas ==
  ASSUME NEW s, NEW l \in BOOLEAN
  PROVE  /\ Has(Build(s, l), "Rollout")
         /\ \A m \in BOOLEAN : \A k :
              Has(Build(s, l), k) /\ k \notin {"Role", "Bucket"} => Has(Build(s, m), k)
<1> DEFINE Kinds == {"Namespace", "ServiceAccount", "Role", "Bucket", "AnalysisTemplate", "Rollout",
                     "NetworkPolicy", "PrometheusRule", "ServiceMonitor", "Dashboard", "Runbook",
                     "Service", "HPA", "PodDisruptionBudget", "Ingress"}
           first == <<"Namespace", "ServiceAccount">>
           storing == <<"Role", "Bucket">>
           template == <<"AnalysisTemplate">>
           always == <<"Rollout", "NetworkPolicy", "PrometheusRule", "ServiceMonitor",
                       "Dashboard", "Runbook">>
           serving == <<"Service", "HPA", "PodDisruptionBudget">>
           public == <<"Ingress">>
<1>1. /\ first \in Seq(Kinds) /\ storing \in Seq(Kinds) /\ template \in Seq(Kinds)
      /\ always \in Seq(Kinds) /\ serving \in Seq(Kinds) /\ public \in Seq(Kinds)
  OBVIOUS
<1>2. Has(always, "Rollout")
  <2>1. 1 \in DOMAIN always /\ always[1] = "Rollout"
    OBVIOUS
  <2> QED BY <2>1, Zenon DEF Has
<1>3. \A k : Has(storing, k) => k \in {"Role", "Bucket"}
  BY DEF Has
<1>4. \A m : Build(s, m) =
        first \o When(HasStorage(s, m), storing) \o When(HasCanaryAnalysis(s), template)
        \o always \o When(HasAutoscaling(s), serving) \o When(s.tier = "public", public)
  BY DEF Build
<1> HIDE DEF Kinds, first, storing, template, always, serving, public
<1>5. PICK t \in Seq(Kinds), u \in Seq(Kinds), v \in Seq(Kinds) :
        /\ t = When(HasCanaryAnalysis(s), template)
        /\ u = When(HasAutoscaling(s), serving)
        /\ v = When(s.tier = "public", public)
  BY <1>1, WhenType
<1>6. ASSUME NEW m \in BOOLEAN, NEW k
      PROVE  Has(Build(s, m), k) <=> \/ Has(first, k) \/ Has(When(HasStorage(s, m), storing), k)
                                   \/ Has(t, k) \/ Has(always, k) \/ Has(u, k) \/ Has(v, k)
  <2>1. PICK w \in Seq(Kinds) : w = When(HasStorage(s, m), storing)
    BY <1>1, WhenType
  <2>2. PICK a \in Seq(Kinds) : a = first \o w /\ (Has(a, k) <=> Has(first, k) \/ Has(w, k))
    BY <1>1, ConcatHas, Zenon
  <2>3. PICK b \in Seq(Kinds) : b = a \o t /\ (Has(b, k) <=> Has(a, k) \/ Has(t, k))
    BY ConcatHas, Zenon
  <2>4. PICK c \in Seq(Kinds) : c = b \o always /\ (Has(c, k) <=> Has(b, k) \/ Has(always, k))
    BY <1>1, ConcatHas, Zenon
  <2>5. PICK d \in Seq(Kinds) : d = c \o u /\ (Has(d, k) <=> Has(c, k) \/ Has(u, k))
    BY ConcatHas, Zenon
  <2>6. Has(d \o v, k) <=> Has(d, k) \/ Has(v, k)
    BY ConcatHas, Zenon
  <2>7. Build(s, m) = d \o v
    BY <1>4, <1>5, <2>1, <2>2, <2>3, <2>4, <2>5, Zenon
  <2> QED BY <2>1, <2>2, <2>3, <2>4, <2>5, <2>6, <2>7, Zenon
<1>7. ASSUME NEW m \in BOOLEAN, NEW k, Has(When(HasStorage(s, m), storing), k)
      PROVE  k \in {"Role", "Bucket"}
  <2>1. CASE HasStorage(s, m)
    BY <1>3, <1>7, <2>1 DEF When
  <2>2. CASE ~HasStorage(s, m)
    BY <1>7, <2>2 DEF When, Has
  <2> QED BY <2>1, <2>2
<1>8. Has(Build(s, l), "Rollout")
  BY <1>2, <1>6, Zenon
<1>9. ASSUME NEW m \in BOOLEAN, NEW k, Has(Build(s, l), k), k \notin {"Role", "Bucket"}
      PROVE  Has(Build(s, m), k)
  <2>1. ~Has(When(HasStorage(s, l), storing), k)
    BY <1>7, <1>9
  <2> QED BY <1>6, <1>9, <2>1, Zenon
<1> QED BY <1>8, <1>9

(* What ran when a version became Ready, if that is the generation it has. *)
RanWhenReady(v) ==
  v.status.ready /\ v.status.gen = v.gen => v.status.ran \in {Render("Rollout", v.spec, TRUE), Edited}

(* The Rollout is the one built from the claim the reconcile read, if      *)
(* nobody touched it since.                                                *)
RolloutApplied == objs["Rollout"] \in {Gone, Edited, Render("Rollout", cur.spec, linked)}

(* What Argo Rollouts says of the current generation is about the Rollout  *)
(* there is; that is the reconcile's own once it has applied it, and so is *)
(* the one it reads.                                                       *)
RolloutInv ==
  /\ rollout.observed => rollout.runs = objs["Rollout"]
  /\ pc = "apply" /\ (\A i \in todo : KindAt(cur, linked, i) # "Rollout") => RolloutApplied
  /\ pc = "rollout" => RolloutApplied
  /\ read.observed => pc = "status" /\ read.runs \in {Edited, Render("Rollout", cur.spec, linked)}

RunInv == RolloutInv /\ \A i \in Versions : Version(i) # NoClaim => RanWhenReady(Version(i))

(* Applying starts with the Rollout still to come. *)
LEMMA RolloutPlanned ==
  ASSUME NEW c, NEW l \in BOOLEAN
  PROVE  \E i \in Plan(c, l) : KindAt(c, l, i) = "Rollout"
BY BuildHas, TrackedAssumption DEF Has, Plan, KindAt

(* Ready takes a Rollout whose generation was observed (readyCondition),   *)
(* and a claim with storage a cluster that is linked (evaluateStorage), so *)
(* its pods have their AWS identity.                                       *)
LEMMA ReadyObserved ==
  ASSUME linked \in BOOLEAN, NEW st \in StorageReports, Ready(st)
  PROVE  /\ read.observed
         /\ Render("Rollout", cur.spec, linked) = Render("Rollout", cur.spec, TRUE)
<1>1. read.observed /\ st.status \in {"none", "True"}
  BY DEF Ready, readyCondition, Condition
<1>2. cur.spec.storage => linked
  BY <1>1 DEF StorageReports, evaluateStorage, Condition
<1>3. HasStorage(cur.spec, linked) = HasStorage(cur.spec, TRUE)
  BY <1>2 DEF HasStorage
<1> QED BY <1>1, <1>3 DEF Render, BuildRollout

(* A status is written from what the reconcile read, so what it says of    *)
(* the generation the claim has is right.                                  *)
LEMMA ReportedRan ==
  ASSUME TypeOK, NewestIsClaim, GenerationInv, RunInv, NEW d \in Claims, d # NoClaim, ClaimWrite(d)
  PROVE  RanWhenReady(d)
<1>1. /\ claim \in Claims /\ claim # NoClaim /\ claim.gen \in Nat /\ claim.status.gen \in Nat
      /\ Follows(claim) /\ RanWhenReady(claim) /\ (Kept(d) \/ Bumped(d) \/ Reported(d))
  BY VersionTypes DEF ClaimWrite, GenerationInv, NewestIsClaim, RunInv
<1>2. CASE Kept(d)
  BY <1>1, <1>2 DEF Kept, RanWhenReady
<1>3. CASE Bumped(d)
  <2>1. d.status.gen # d.gen
    BY <1>1, <1>3 DEF Bumped, Follows
  <2> QED BY <2>1 DEF RanWhenReady
<1>4. CASE Reported(d)
  <2>1. PICK st \in StorageReports :
          /\ cur # NoClaim /\ d.spec = claim.spec /\ d.gen = claim.gen /\ d.status.gen = cur.gen
          /\ d.status.ready = Ready(st) /\ (Ready(st) => d.status.ran = read.runs)
    BY <1>4 DEF Reported, NewStatus
  <2>2. cur.gen = claim.gen => cur.spec = claim.spec
    BY <1>1, <2>1 DEF Follows, Older
  <2>3. Ready(st) => read.runs \in {Edited, Render("Rollout", cur.spec, TRUE)}
    BY ReadyObserved DEF RunInv, RolloutInv, TypeOK, WorkerTypes
  <2> QED BY <2>1, <2>2, <2>3 DEF RanWhenReady
<1> QED BY <1>1, <1>2, <1>3, <1>4

(* Every version keeps it, and what is written has it. *)
LEMMA RanVersions ==
  ASSUME TypeOK, HoldInv, GenerationInv, RunInv, [Next]_vars
  PROVE  \A i \in Versions' : Version(i)' # NoClaim => RanWhenReady(Version(i)')
<1> SUFFICES ASSUME NEW i \in Versions', Version(i)' # NoClaim PROVE RanWhenReady(Version(i)')
  OBVIOUS
<1>1. CASE \E j \in Versions : Version(i)' = Version(j)
  BY <1>1 DEF RunInv
<1>2. CASE Version(i)' = claim' /\ claim' # claim
  <2>1. CASE CreateClaim
    <3>1. PICK d \in Claims : StoreClaim(d) /\ d.status = NoStatus
      BY <2>1, Creation DEF CreateClaim, TypeOK, HistoryTypes
    <3>2. claim' = d
      BY <3>1 DEF StoreClaim
    <3> QED BY <1>2, <3>1, <3>2 DEF RanWhenReady, NoStatus
  <2>2. ASSUME NEW d \in Claims \cup {NoClaim}, ClaimWrite(d) PROVE RanWhenReady(claim')
    <3>1. claim' = d /\ d \in Claims /\ d # NoClaim
      BY <1>2, <2>2 DEF ClaimWrite, StoreClaim
    <3> QED BY <2>2, <3>1, ReportedRan DEF HoldInv
  <2>3. CASE UNCHANGED claim
    BY <1>2, <2>3
  <2>4. CASE DeliverClaim \/ Restart
    BY <2>3, <2>4 DEF DeliverClaim, Restart, server
  <2> QED BY <1>2, <2>1, <2>2, <2>3, <2>4, ClaimSteps
<1> QED BY <1>1, <1>2, VersionOrigin

(* Every step keeps the part about the Rollout and the reconcile. *)
LEMMA RolloutStep ==
  ASSUME TypeOK, RolloutInv, [Next]_vars
  PROVE  RolloutInv'
<1> USE DEF TypeOK, server, claimCache, nsCache, worker, counters
<1>1. CASE Begin
  <2>1. UNCHANGED <<objs, rollout, linked>> /\ pc = "idle" /\ ~read.observed
    BY <1>1 DEF Begin, RolloutInv
  <2>2. CASE cur' = view /\ StartApplying(view)
    <3>1. pc' = "apply" => \E i \in todo' : KindAt(view, linked, i) = "Rollout"
      BY <2>2, RolloutPlanned DEF StartApplying, WorkerTypes
    <3>2. pc' # "rollout" /\ ~read'.observed
      BY <2>2 DEF StartApplying, NotRead
    <3>3. pc' = "apply" => \E i \in todo' : KindAt(cur, linked, i)' = "Rollout"
      BY <2>1, <2>2, <3>1
    <3> QED BY <2>1, <3>2, <3>3 DEF RolloutInv
  <2>3. CASE pc' \in {"idle", "finalize", "finalizer"} /\ read' = read
    BY <2>1, <2>3 DEF RolloutInv
  <2> QED BY <1>1, <2>1, <2>2, <2>3 DEF Begin
<1>2. CASE AddFinalizer
  <2>1. UNCHANGED <<objs, rollout, linked>>
    BY <1>2 DEF AddFinalizer
  <2>2. CASE cur' = cur /\ StartApplying(cur)
    <3>1. pc' = "apply" => \E i \in todo' : KindAt(cur, linked, i) = "Rollout"
      BY <2>2, RolloutPlanned DEF StartApplying, WorkerTypes
    <3>2. pc' # "rollout" /\ ~read'.observed
      BY <2>2 DEF StartApplying, NotRead
    <3>3. pc' = "apply" => \E i \in todo' : KindAt(cur, linked, i)' = "Rollout"
      BY <2>1, <2>2, <3>1
    <3> QED BY <2>1, <3>2, <3>3 DEF RolloutInv
  <2>3. CASE Return(TRUE)
    BY <2>1, <2>3 DEF RolloutInv, Return, NotRead
  <2> QED BY <1>2, <2>2, <2>3 DEF AddFinalizer
<1>3. CASE ApplyNext
  <2>1. /\ pc = "apply" /\ cur \in Claims /\ cur # NoClaim /\ UNCHANGED <<cur, read, linked>>
        /\ ~read.observed
    BY <1>3 DEF ApplyNext, WorkerTypes, RolloutInv
  <2>2. PICK i \in todo : LET k == KindAt(cur, linked, i) IN
          /\ k # "Namespace" =>
               /\ objs' = [objs EXCEPT ![k] = Render(k, cur.spec, linked)]
               /\ rollout' = IF k = "Rollout" /\ Differs(k)
                             THEN [rollout EXCEPT !.observed = FALSE] ELSE rollout
          /\ k = "Namespace" => UNCHANGED <<objs, rollout>>
          /\ todo' = todo \ {i}
    BY <1>3 DEF ApplyNext
  <2>3. KindAt(cur, linked, i) \in Tracked \cup {"Namespace"}
    BY <2>1, <2>2, PlanKinds DEF WorkerTypes
  <2>4. CASE KindAt(cur, linked, i) = "Rollout"
    <3>1. objs'["Rollout"] = Render("Rollout", cur.spec, linked)
      BY <2>2, <2>4, TrackedAssumption DEF ServerTypes
    <3>2. rollout'.observed => ~Differs("Rollout") /\ rollout' = rollout
      BY <2>2, <2>4 DEF ServerTypes
    <3>3. ~Differs("Rollout") => objs["Rollout"] = Render("Rollout", cur.spec, linked)
      BY DEF Differs
    <3>4. rollout'.observed => rollout'.runs = objs'["Rollout"]
      BY <3>1, <3>2, <3>3 DEF RolloutInv
    <3>5. RolloutApplied'
      BY <2>1, <3>1 DEF RolloutApplied
    <3> QED BY <2>1, <3>4, <3>5 DEF RolloutInv
  <2>5. CASE KindAt(cur, linked, i) # "Rollout"
    <3>1. objs'["Rollout"] = objs["Rollout"] /\ rollout' = rollout
      BY <2>2, <2>3, <2>5, TrackedAssumption DEF ServerTypes
    <3>2. RolloutApplied' <=> RolloutApplied
      BY <2>1, <3>1 DEF RolloutApplied
    <3>3. (\A j \in todo' : KindAt(cur, linked, j)' # "Rollout") => RolloutApplied'
      BY <2>1, <2>2, <2>5, <3>2 DEF RolloutInv, KindAt
    <3>4. pc' = "rollout" => todo' = {}
      BY <1>3 DEF ApplyNext
    <3> QED BY <2>1, <3>1, <3>3, <3>4 DEF RolloutInv
  <2> QED BY <2>4, <2>5
<1>4. CASE ApplyFails
  <2>1. UNCHANGED <<objs, rollout, read>> /\ pc = "apply" /\ pc' = "status"
    BY <1>4 DEF ApplyFails
  <2> QED BY <2>1 DEF RolloutInv
<1>5. CASE ReadRollout
  <2>1. /\ UNCHANGED <<objs, rollout, cur, linked>> /\ pc' = "status"
        /\ read'.observed =>
             objs["Rollout"] # Gone /\ rollout.observed /\ read'.runs = rollout.runs
    BY <1>5 DEF ReadRollout, NotRead
  <2>2. RolloutApplied
    BY <1>5 DEF ReadRollout, RolloutInv
  <2> QED BY <2>1, <2>2 DEF RolloutInv, RolloutApplied
<1>6. CASE UNCHANGED <<objs, rollout>> /\ pc' = "idle" /\ read' = NotRead
  BY <1>6 DEF RolloutInv, NotRead
<1>7. CASE WriteStatus \/ Finalize \/ Restart
  BY <1>6, <1>7 DEF WriteStatus, Finalize, Restart, Return
<1>8. CASE UNCHANGED <<objs, rollout, pc, cur, todo, read, linked>>
  BY <1>8 DEF RolloutInv, RolloutApplied, KindAt
<1>9. CASE DeliverClaim \/ DeliverNamespace \/ CreateClaim \/ EditClaim \/ DeleteClaim
           \/ DeleteNamespace \/ RemoveNamespace
  BY <1>8, <1>9 DEF DeliverClaim, DeliverNamespace, CreateClaim, EditClaim, DeleteClaim,
                    DeleteNamespace, RemoveNamespace
<1>10. ASSUME NEW k \in Tracked, UNCHANGED <<pc, cur, todo, read, linked>>,
              objs' = [objs EXCEPT ![k] = Gone] \/ objs' = [objs EXCEPT ![k] = Edited],
              k # "Rollout" => rollout' = rollout,
              k = "Rollout" => ~rollout'.observed
       PROVE  RolloutInv'
  <2>1. objs'["Rollout"] \in {Gone, Edited} \/ objs'["Rollout"] = objs["Rollout"]
    BY <1>10, TrackedAssumption DEF ServerTypes
  <2>2. RolloutApplied => RolloutApplied'
    BY <1>10, <2>1 DEF RolloutApplied
  <2>3. rollout'.observed => rollout'.runs = objs'["Rollout"]
    BY <1>10, TrackedAssumption DEF ServerTypes, RolloutInv
  <2> QED BY <1>10, <2>2, <2>3 DEF RolloutInv, KindAt
<1>11. ASSUME NEW k \in Tracked, EditObject(k) \/ DeleteObject(k) \/ RemoveContent(k)
       PROVE  RolloutInv'
  <2>1. k = "Rollout" => ~rollout'.observed
    BY <1>11 DEF EditObject, DeleteObject, RemoveContent, Remove, Unreported, ServerTypes
  <2> QED BY <1>10, <1>11, <2>1 DEF EditObject, DeleteObject, RemoveContent, Remove
<1>12. CASE ArgoReports
  <2>1. UNCHANGED <<objs, pc, cur, todo, read, linked>>
    BY <1>12 DEF ArgoReports
  <2>2. rollout'.runs = objs["Rollout"]
    BY <1>12 DEF ArgoReports
  <2> QED BY <2>1, <2>2 DEF RolloutInv, RolloutApplied, KindAt
<1>13. CASE UNCHANGED vars
  BY <1>8, <1>13 DEF vars
<1> QED BY <1>1, <1>2, <1>3, <1>4, <1>5, <1>7, <1>9, <1>11, <1>12, <1>13 DEF Next

(* So RunInv is an invariant, for a claim that is created once. *)
THEOREM RunInvHolds ==
  ASSUME MaxClaims = 1
  PROVE  Spec => []RunInv
<1>1. Init => RunInv
  <2> SUFFICES ASSUME Init PROVE RunInv
    OBVIOUS
  <2>1. Versions = {0} /\ Version(0) = NoClaim
    BY DEF Init, Versions, Version
  <2> QED BY <2>1 DEF Init, RunInv, RolloutInv, Unreported, NotRead
<1>2. TypeOK /\ HoldInv /\ GenerationInv /\ RunInv /\ [Next]_vars => RunInv'
  <2> SUFFICES ASSUME TypeOK, HoldInv, GenerationInv, RunInv, [Next]_vars PROVE RunInv'
    OBVIOUS
  <2>1. RolloutInv'
    BY RolloutStep DEF RunInv
  <2>2. \A i \in Versions' : Version(i)' # NoClaim => RanWhenReady(Version(i)')
    BY RanVersions
  <2> QED BY <2>1, <2>2 DEF RunInv, RanWhenReady
<1> QED BY <1>1, <1>2, TypeCorrect, HoldInvHolds, GenerationInvHolds, PTL DEF Spec

(* Ready means the claimed spec ran, for every set of specs and phases and *)
(* any number of edits, tampers, faults and restarts: the Rollout is read  *)
(* after it was applied, Argo Rollouts' word counts only for the           *)
(* generation it has observed, and the status names the generation read.   *)
THEOREM ReadyRan ==
  ASSUME MaxClaims = 1
  PROVE  Spec => []ReadyMeansRunning
<1>1. ASSUME TypeOK, HoldInv, RunInv PROVE ReadyMeansRunning
  <2>1. claim # NoClaim => RanWhenReady(claim)
    BY <1>1, VersionTypes DEF HoldInv, NewestIsClaim, RunInv
  <2> QED BY <2>1 DEF RanWhenReady, ReadyMeansRunning
<1> QED BY <1>1, TypeCorrect, HoldInvHolds, RunInvHolds, PTL

-----------------------------------------------------------------------------
(* Drift *)

(* An object is as a spec wants it of a process linked to AWS or not, or   *)
(* changed since.                                                          *)
AsApplied(k, s, l) ==
  \/ k \in tampered
  \/ k = "Namespace" /\ ns # "absent"
  \/ k # "Namespace" /\ objs[k] = Render(k, s, l)

Applied(c, l) == \A i \in Plan(c, l) : AsApplied(KindAt(c, l, i), c.spec, l)

(* A version that says it is in sync has its objects; so does a reconcile  *)
(* that read one, and it finds nothing to correct; an apply leaves what it *)
(* has been through as it should be.                                       *)
WorkerDrift ==
  /\ pc = "idle" => innocent = {}
  /\ cur # NoClaim /\ inSyncAtGeneration(cur) => Applied(cur, linked) /\ innocent = {}
  /\ pc = "apply" => \A i \in Plan(cur, linked) \ todo : AsApplied(KindAt(cur, linked, i), cur.spec, linked)
  /\ pc \in {"rollout", "status"} /\ ~failed /\ Buildable(cur.spec) => Applied(cur, linked)

DriftInv ==
  /\ WorkerDrift
  /\ \A i \in Versions : Version(i) # NoClaim /\ inSyncAtGeneration(Version(i)) => Applied(Version(i), linked)

(* An object stays as a spec wants it through every step but the apply of  *)
(* another spec.                                                           *)
LEMMA AsAppliedStep ==
  ASSUME TypeOK, [Next]_vars, NEW s, NEW l, ApplyNext => s = cur.spec /\ l = linked,
         NEW k \in Tracked \cup {"Namespace"}, AsApplied(k, s, l)
  PROVE  AsApplied(k, s, l)'
<1> USE DEF TypeOK, server, claimCache, nsCache, worker, counters
<1>1. CASE UNCHANGED <<tampered, objs>> /\ (ns # "absent" => ns' # "absent")
  BY <1>1 DEF AsApplied
<1>2. CASE ApplyNext
  <2>1. pc = "apply" /\ cur \in Claims /\ s = cur.spec /\ l = linked
    BY <1>2 DEF ApplyNext, WorkerTypes
  <2>2. PICK i \in todo : LET j == KindAt(cur, linked, i) IN
          /\ j # "Namespace" => objs' = [objs EXCEPT ![j] = Render(j, cur.spec, linked)] /\ ns' = ns
          /\ j = "Namespace" => objs' = objs /\ ns' # "absent"
          /\ tampered' = tampered \ {j}
    BY <1>2 DEF ApplyNext, StoreNamespace
  <2>3. KindAt(cur, linked, i) \in Tracked \cup {"Namespace"}
    BY <2>1, <2>2, PlanKinds DEF WorkerTypes
  <2>4. CASE KindAt(cur, linked, i) = k
    BY <2>1, <2>2, <2>3, <2>4 DEF AsApplied, ServerTypes
  <2>5. CASE KindAt(cur, linked, i) # k
    BY <2>1, <2>2, <2>3, <2>5 DEF AsApplied, ServerTypes
  <2> QED BY <2>4, <2>5
<1>3. CASE Finalize
  BY <1>1, <1>3 DEF Finalize, StoreNamespace
<1>4. CASE DeleteNamespace
  BY <1>1, <1>4 DEF DeleteNamespace, StoreNamespace
<1>5. CASE RemoveNamespace
  <2>1. objs' = objs /\ tampered' = tampered \cup {"Namespace"}
    BY <1>5 DEF RemoveNamespace
  <2> QED BY <2>1 DEF AsApplied
<1>6. ASSUME NEW j \in Tracked, EditObject(j) \/ DeleteObject(j) \/ RemoveContent(j)
      PROVE  AsApplied(k, s, l)'
  <2>1. /\ tampered' = tampered \cup {j} /\ ns' = ns
        /\ objs' = [objs EXCEPT ![j] = Gone] \/ objs' = [objs EXCEPT ![j] = Edited]
    BY <1>6 DEF EditObject, DeleteObject, RemoveContent, Remove
  <2> QED BY <2>1 DEF AsApplied, ServerTypes
<1>7. CASE Begin \/ AddFinalizer \/ ApplyFails \/ ReadRollout \/ WriteStatus \/ DeliverClaim
           \/ DeliverNamespace \/ CreateClaim \/ EditClaim \/ DeleteClaim \/ ArgoReports
  BY <1>1, <1>7 DEF Begin, AddFinalizer, ApplyFails, ReadRollout, WriteStatus, DeliverClaim,
                    DeliverNamespace, CreateClaim, EditClaim, DeleteClaim, ArgoReports
<1>9. CASE Restart
  BY <1>9 DEF Restart, AsApplied
<1>8. CASE UNCHANGED vars
  BY <1>1, <1>8 DEF vars
<1> QED BY <1>2, <1>3, <1>4, <1>5, <1>6, <1>7, <1>8, <1>9 DEF Next

(* So do all of a claim's objects. *)
LEMMA AppliedStep ==
  ASSUME TypeOK, [Next]_vars, NEW c \in Claims, NEW l,
         ApplyNext => c.spec = cur.spec /\ l = linked, Applied(c, l)
  PROVE  Applied(c, l)'
<1>1. ASSUME NEW i \in Plan(c, l) PROVE AsApplied(KindAt(c, l, i), c.spec, l)'
  <2>1. PICK k, s : k \in Tracked \cup {"Namespace"} /\ k = KindAt(c, l, i) /\ s = c.spec
    BY PlanKinds
  <2>2. AsApplied(k, s, l)
    BY <2>1 DEF Applied
  <2>3. AsApplied(k, s, l)'
    BY <2>1, <2>2, AsAppliedStep
  <2> QED BY <2>1, <2>3
<1> QED BY <1>1 DEF Applied, Plan

(* Two claims with one spec have the same objects. *)
LEMMA AppliedSpec ==
  ASSUME NEW c, NEW d, NEW l, c.spec = d.spec, Applied(c, l)
  PROVE  Applied(d, l)
<1>1. Plan(c, l) = Plan(d, l) /\ \A i : KindAt(c, l, i) = KindAt(d, l, i)
  BY DEF Plan, KindAt
<1> QED BY <1>1 DEF Applied

(* Only a new process may have another link to AWS. *)
LEMMA LinkKept ==
  ASSUME [Next]_vars, ~Restart
  PROVE  linked' = linked
BY DEF Next, vars, Begin, AddFinalizer, ApplyNext, ApplyFails, ReadRollout, WriteStatus, Finalize,
       DeliverClaim, DeliverNamespace, CreateClaim, EditClaim, DeleteClaim, DeleteNamespace,
       EditObject, DeleteObject, RemoveContent, RemoveNamespace, ArgoReports

(* If it has, what that asks for anew counts as changed, and the rest of   *)
(* what the claim had applied is what it asks for now.                     *)
LEMMA RelinkApplied ==
  ASSUME TypeOK, Restart, claim # NoClaim, Applied(claim, linked)
  PROVE  Applied(claim, linked)'
<1>1. /\ linked \in BOOLEAN /\ linked' \in BOOLEAN /\ UNCHANGED <<claim, objs, ns>>
      /\ tampered' = tampered \cup (IF linked' = linked THEN {} ELSE Relinked)
  BY DEF Restart, TypeOK, WorkerTypes, server
<1>2. PICK s, m : s = claim.spec /\ m = linked'
  OBVIOUS
<1>3. ASSUME NEW i \in Plan(claim, m) PROVE AsApplied(KindAt(claim, m, i), s, m)'
  <2>1. PICK k \in Tracked \cup {"Namespace"} : k = KindAt(claim, m, i)
    BY <1>3, PlanKinds
  <2>2. Has(Build(s, m), k)
    BY <1>2, <1>3, <2>1 DEF Has, Plan, KindAt
  <2>3. ASSUME Has(Build(s, linked), k) PROVE AsApplied(k, s, linked)
    <3>1. PICK j \in DOMAIN Build(s, linked) : Build(s, linked)[j] = k
      BY <2>3 DEF Has
    <3>2. j \in Plan(claim, linked) /\ KindAt(claim, linked, j) = k
      BY <1>2, <2>1, <3>1 DEF Plan, KindAt
    <3> QED BY <1>2, <3>2 DEF Applied
  <2>4. CASE m # linked /\ s.storage
    <3>1. CASE k \in {"Role", "Bucket", "Rollout"}
      <4>1. k \in tampered'
        BY <1>1, <1>2, <2>1, <2>4, <3>1 DEF Relinked
      <4> QED BY <1>1, <2>1, <4>1 DEF AsApplied
    <3>2. CASE k \notin {"Role", "Bucket", "Rollout"}
      <4>1. Has(Build(s, linked), k)
        BY <1>1, <1>2, <2>2, <3>2, BuildHas
      <4>2. Render(k, s, linked) = Render(k, s, m)
        BY <3>2 DEF Render
      <4> QED BY <1>1, <2>1, <2>3, <4>1, <4>2 DEF AsApplied
    <3> QED BY <3>1, <3>2
  <2>5. CASE m = linked \/ ~s.storage
    <3>1. HasStorage(s, m) = HasStorage(s, linked)
      BY <2>5 DEF HasStorage
    <3>2. Build(s, m) = Build(s, linked) /\ Render(k, s, m) = Render(k, s, linked)
      BY <3>1 DEF Build, Render, BuildRollout
    <3> QED BY <1>1, <2>1, <2>2, <2>3, <3>2 DEF AsApplied
  <2> QED BY <2>4, <2>5
<1> QED BY <1>1, <1>2, <1>3 DEF Applied

(* A version in sync has the spec the running reconcile has. *)
LEMMA InSyncSpec ==
  ASSUME TypeOK, GenerationInv, cur # NoClaim,
         NEW i \in Versions, Version(i) # NoClaim, inSyncAtGeneration(Version(i))
  PROVE  Version(i).spec = cur.spec
<1>1. PICK v \in Claims : v = Version(i) /\ v # NoClaim /\ Follows(v)
  BY VersionTypes DEF GenerationInv
<1>2. v.gen \in Nat /\ cur.gen \in Nat /\ v.status.gen = v.gen
  BY <1>1, VersionTypes DEF inSyncAtGeneration, TypeOK, WorkerTypes
<1>3. v.gen <= cur.gen /\ cur.gen <= v.gen /\ (cur.gen = v.gen => cur.spec = v.spec)
  BY <1>1, <1>2 DEF Follows, Older
<1> QED BY <1>1, <1>2, <1>3

(* A status says in sync for the generation the claim has only if the      *)
(* reconcile applied everything its spec asks for.                         *)
LEMMA ReportedApplied ==
  ASSUME TypeOK, NewestIsClaim, GenerationInv, DriftInv, NEW d \in Claims, d # NoClaim,
         ClaimWrite(d), inSyncAtGeneration(d)
  PROVE  Applied(d, linked)
<1>1. /\ claim \in Claims /\ claim # NoClaim /\ claim.gen \in Nat /\ claim.status.gen \in Nat
      /\ Follows(claim) /\ (Kept(d) \/ Bumped(d) \/ Reported(d))
      /\ inSyncAtGeneration(claim) => Applied(claim, linked)
  BY VersionTypes DEF ClaimWrite, GenerationInv, NewestIsClaim, DriftInv
<1>2. CASE Kept(d)
  <2>1. inSyncAtGeneration(claim) /\ d.spec = claim.spec
    BY <1>2 DEF Kept, inSyncAtGeneration
  <2> QED BY <1>1, <2>1, AppliedSpec
<1>3. CASE Bumped(d)
  BY <1>1, <1>3 DEF Bumped, Follows, inSyncAtGeneration
<1>4. CASE Reported(d)
  <2>1. /\ pc = "status" /\ cur # NoClaim /\ d.spec = claim.spec
        /\ cur.gen = claim.gen /\ Synced.status = "True"
    BY <1>4 DEF Reported, NewStatus, inSyncAtGeneration, Synced, Condition
  <2>2. cur.spec = d.spec
    BY <1>1, <2>1 DEF Follows, Older
  <2>3. ~failed /\ Buildable(cur.spec)
    BY <2>1 DEF Synced, Condition
  <2>4. Applied(cur, linked)
    BY <2>1, <2>3 DEF DriftInv, WorkerDrift
  <2> QED BY <2>2, <2>4, AppliedSpec
<1> QED BY <1>1, <1>2, <1>3, <1>4

(* Every version in sync keeps its objects, and what is written has them. *)
LEMMA DriftVersions ==
  ASSUME TypeOK, HoldInv, GenerationInv, DriftInv, [Next]_vars
  PROVE  \A i \in Versions' :
           Version(i)' # NoClaim /\ inSyncAtGeneration(Version(i))' => Applied(Version(i), linked)'
<1> SUFFICES ASSUME NEW i \in Versions', Version(i)' # NoClaim, inSyncAtGeneration(Version(i))'
             PROVE  Applied(Version(i), linked)'
  OBVIOUS
<1>1. PICK v : v = Version(i)'
  OBVIOUS
<1>2. inSyncAtGeneration(v) /\ v # NoClaim
  BY <1>1 DEF inSyncAtGeneration
<1>3. CASE \E j \in Versions : v = Version(j)
  <2>1. v \in Claims /\ Applied(v, linked)
    BY <1>2, <1>3, VersionTypes DEF DriftInv
  <2>5. PICK l : l = linked
    OBVIOUS
  <2>2. ApplyNext => cur # NoClaim
    BY DEF ApplyNext, TypeOK, WorkerTypes
  <2>3. ApplyNext => v.spec = cur.spec
    BY <1>2, <1>3, <2>2, InSyncSpec
  <2>4. Applied(v, l)'
    BY <2>1, <2>3, <2>5, AppliedStep
  <2>6. CASE ~Restart
    BY <1>1, <2>4, <2>5, <2>6, LinkKept
  <2>7. CASE Restart
    <3>1. v = claim /\ claim' = claim
      BY <1>1, <2>7 DEF Restart, Versions, Version, server
    <3>2. Applied(claim, linked)'
      BY <1>2, <2>1, <2>7, <3>1, RelinkApplied
    <3> QED BY <1>1, <3>1, <3>2
  <2> QED BY <2>6, <2>7
<1>4. CASE v = claim' /\ claim' # claim
  <2>1. ~CreateClaim
    <3> SUFFICES ASSUME CreateClaim PROVE FALSE
      OBVIOUS
    <3>1. PICK d \in Claims : StoreClaim(d) /\ d.status = NoStatus
      BY Creation DEF CreateClaim, TypeOK, HistoryTypes
    <3>2. claim' = d
      BY <3>1 DEF StoreClaim
    <3> QED BY <1>2, <1>4, <3>1, <3>2 DEF inSyncAtGeneration, NoStatus
  <2>2. ~DeliverClaim /\ ~Restart /\ ~ApplyNext /\ claim' # claim
    BY <1>4 DEF DeliverClaim, Restart, ApplyNext, server
  <2>3. PICK d \in Claims \cup {NoClaim} : ClaimWrite(d)
    BY <2>1, <2>2, ClaimSteps
  <2>4. v = d /\ d \in Claims /\ d # NoClaim
    BY <1>2, <1>4, <2>3 DEF ClaimWrite, StoreClaim
  <2>5. PICK l : l = linked /\ l = linked'
    BY <2>2, LinkKept
  <2>6. Applied(v, l)
    BY <1>2, <2>3, <2>4, <2>5, ReportedApplied DEF HoldInv
  <2>7. Applied(v, l)'
    BY <2>2, <2>4, <2>6, AppliedStep
  <2> QED BY <1>1, <2>5, <2>7
<1> QED BY <1>1, <1>3, <1>4, VersionOrigin

(* A reconcile that starts has applied nothing yet. *)
LEMMA DriftStart ==
  ASSUME NEW c \in Claims, cur' = c, StartApplying(c),
         linked' = linked, inSyncAtGeneration(c) => Applied(c, linked)'
  PROVE  WorkerDrift'
<1>1. /\ innocent' = {} /\ pc' \in {"apply", "status"}
      /\ pc' = "apply" => todo' = Plan(c, linked)
      /\ pc' = "status" => ~Buildable(c.spec)
  BY DEF StartApplying
<1>2. inSyncAtGeneration(cur)' => Applied(cur, linked)'
  BY DEF inSyncAtGeneration
<1>3. Plan(cur, linked)' = Plan(c, linked)
  OBVIOUS
<1> QED BY <1>1, <1>2, <1>3 DEF WorkerDrift

(* One apply: what it has been through is as it should be, and if the      *)
(* claim was in sync there was nothing to put back.                        *)
LEMMA DriftApply ==
  ASSUME TypeOK, WorkerDrift, [Next]_vars, ApplyNext
  PROVE  WorkerDrift'
<1> USE DEF TypeOK, server, claimCache, nsCache, worker, counters
<1>1. /\ pc = "apply" /\ cur \in Claims /\ cur # NoClaim /\ cur' = cur
      /\ pc' \in {"apply", "rollout"} /\ (pc' = "rollout" => todo' = {}) /\ linked' = linked
  BY DEF ApplyNext, WorkerTypes
<1>2. PICK i \in todo : LET k == KindAt(cur, linked, i) IN
        /\ k # "Namespace" => objs' = [objs EXCEPT ![k] = Render(k, cur.spec, linked)]
        /\ k = "Namespace" => ns' # "absent"
        /\ innocent' = innocent \cup (IF Differs(k) /\ k \notin tampered THEN {k} ELSE {})
        /\ todo' = todo \ {i}
  BY DEF ApplyNext, StoreNamespace
<1>3. PICK k \in Tracked \cup {"Namespace"} : k = KindAt(cur, linked, i) /\ i \in Plan(cur, linked)
  BY <1>1, <1>2, PlanKinds DEF WorkerTypes
<1>4. PICK s, l : s = cur.spec /\ s = cur'.spec /\ l = linked /\ l = linked'
  BY <1>1
<1>5. AsApplied(k, s, l)'
  BY <1>2, <1>3, <1>4 DEF AsApplied, ServerTypes
<1>6. ASSUME NEW j \in Plan(cur, linked) \ todo' PROVE AsApplied(KindAt(cur, linked, j), cur.spec, linked)'
  <2>1. KindAt(cur, linked, j)' = KindAt(cur, linked, j)
    BY <1>1
  <2>2. CASE j = i
    BY <1>3, <1>4, <1>5, <2>1, <2>2
  <2>3. CASE j # i
    <3>1. PICK h \in Tracked \cup {"Namespace"} : h = KindAt(cur, linked, j)
      BY <1>6, PlanKinds
    <3>2. AsApplied(h, s, l)
      BY <1>1, <1>2, <1>4, <1>6, <2>3, <3>1 DEF WorkerDrift
    <3>3. AsApplied(h, s, l)'
      BY <1>4, <3>1, <3>2, AsAppliedStep
    <3> QED BY <1>4, <2>1, <3>1, <3>3
  <2> QED BY <2>2, <2>3
<1>7. Plan(cur, linked)' = Plan(cur, linked)
  BY <1>1
<1>8. pc' = "rollout" => Applied(cur, linked)'
  BY <1>1, <1>6, <1>7 DEF Applied
<1>9. inSyncAtGeneration(cur)' => Applied(cur, linked)' /\ innocent' = {}
  <2> SUFFICES ASSUME inSyncAtGeneration(cur)' PROVE Applied(cur, linked)' /\ innocent' = {}
    OBVIOUS
  <2>1. inSyncAtGeneration(cur)
    BY <1>1 DEF inSyncAtGeneration
  <2>2. Applied(cur, linked) /\ innocent = {}
    BY <1>1, <2>1 DEF WorkerDrift
  <2>3. AsApplied(k, s, l)
    BY <1>3, <1>4, <2>2 DEF Applied
  <2>4. ~(Differs(k) /\ k \notin tampered)
    BY <1>4, <2>3 DEF AsApplied, Differs
  <2>5. PICK c \in Claims : c = cur /\ c = cur'
    BY <1>1
  <2>6. Applied(c, l)'
    BY <1>4, <2>2, <2>5, AppliedStep
  <2>7. Applied(cur, linked)'
    BY <1>4, <2>5, <2>6
  <2> QED BY <1>2, <1>3, <2>2, <2>4, <2>7
<1> QED BY <1>1, <1>6, <1>7, <1>8, <1>9 DEF WorkerDrift

(* Every step keeps what is known of the running reconcile. *)
LEMMA DriftStep ==
  ASSUME TypeOK, DriftInv, [Next]_vars
  PROVE  WorkerDrift'
<1> USE DEF TypeOK, server, claimCache, nsCache, worker, counters
<1>1. CASE pc' = "idle" /\ cur' = NoClaim /\ innocent' = {}
  BY <1>1 DEF WorkerDrift
<1>2. WorkerDrift /\ (view # NoClaim /\ inSyncAtGeneration(view) => Applied(view, linked))
  BY VersionTypes DEF DriftInv
<1>3. ASSUME NEW c \in Claims, ~ApplyNext, linked' = linked, Applied(c, linked)
      PROVE  Applied(c, linked)'
  <2>1. PICK l : l = linked /\ l = linked'
    BY <1>3
  <2>2. Applied(c, l)'
    BY <1>3, <2>1, AppliedStep
  <2> QED BY <2>1, <2>2
<1>4. CASE Begin
  <2>1. pc = "idle" /\ innocent = {} /\ ~ApplyNext /\ linked' = linked
    BY <1>2, <1>4 DEF Begin, ApplyNext, WorkerDrift
  <2>2. CASE UNCHANGED worker
    <3>1. pc' = "idle" /\ cur' = NoClaim /\ innocent' = {}
      BY <2>1, <2>2 DEF WorkerTypes
    <3> QED BY <1>1, <3>1
  <2>3. ASSUME view # NoClaim, cur' = view
        PROVE  /\ view \in Claims
               /\ inSyncAtGeneration(view) => Applied(cur, linked)'
    <3>1. PICK c \in Claims : c = view /\ c = cur'
      BY <2>3 DEF CacheTypes
    <3>2. inSyncAtGeneration(c) => Applied(c, linked)'
      BY <1>2, <1>3, <2>1, <2>3, <3>1
    <3> QED BY <3>1, <3>2
  <2>4. CASE view # NoClaim /\ cur' = view /\ pc' \in {"finalize", "finalizer"} /\ innocent' = innocent
    <3>1. inSyncAtGeneration(cur)' => Applied(cur, linked)'
      BY <2>3, <2>4 DEF inSyncAtGeneration
    <3> QED BY <2>1, <2>4, <3>1 DEF WorkerDrift
  <2>5. CASE view # NoClaim /\ cur' = view /\ StartApplying(view)
    <3>1. PICK c \in Claims : c = view /\ c = cur'
      BY <2>3, <2>5
    <3>2. inSyncAtGeneration(c) => Applied(c, linked)'
      BY <2>3, <2>5, <3>1
    <3> QED BY <2>1, <2>5, <3>1, <3>2, DriftStart
  <2> QED BY <1>4, <2>2, <2>4, <2>5 DEF Begin
<1>5. CASE AddFinalizer
  <2>1. /\ pc = "finalizer" /\ cur \in Claims /\ cur # NoClaim
        /\ ~ApplyNext /\ linked' = linked
    BY <1>5 DEF AddFinalizer, WorkerTypes, ApplyNext
  <2>2. CASE cur' = cur /\ StartApplying(cur)
    <3>1. PICK c \in Claims : c = cur /\ c = cur'
      BY <2>1, <2>2
    <3>2. inSyncAtGeneration(c) => Applied(c, linked)'
      BY <1>2, <1>3, <2>1, <3>1 DEF WorkerDrift
    <3> QED BY <2>1, <2>2, <3>1, <3>2, DriftStart
  <2>3. CASE Return(TRUE)
    BY <1>1, <2>3 DEF Return
  <2> QED BY <1>5, <2>2, <2>3 DEF AddFinalizer
<1>6. CASE ApplyNext
  BY <1>2, <1>6, DriftApply
<1>7. ASSUME ~ApplyNext, cur' = cur, innocent' = innocent, linked' = linked,
             \/ pc' = pc /\ todo' = todo /\ failed' = failed
             \/ pc' = "status" /\ failed' = TRUE
             \/ pc = "rollout" /\ pc' = "status" /\ failed' = failed
      PROVE  WorkerDrift'
  <2>1. CASE cur = NoClaim
    <3>1. pc = "idle" /\ innocent' = {} /\ cur' = NoClaim
      BY <1>2, <1>7, <2>1 DEF WorkerDrift, WorkerTypes
    <3>2. pc' \in {"idle", "status"} /\ (pc' = "status" => failed' = TRUE)
      BY <1>7, <3>1
    <3> QED BY <3>1, <3>2 DEF WorkerDrift
  <2>2. CASE cur # NoClaim
    <3>1. PICK c \in Claims : c = cur /\ c = cur'
      BY <1>7, <2>2 DEF WorkerTypes
    <3>2. pc # "idle" /\ pc' # "idle"
      BY <1>7, <2>2 DEF WorkerTypes
    <3>3. Applied(cur, linked) => Applied(cur, linked)'
      BY <1>3, <1>7, <3>1
    <3>4. inSyncAtGeneration(cur)' => inSyncAtGeneration(cur)
      BY <3>1 DEF inSyncAtGeneration
    <3>5. ASSUME pc' = "apply", NEW i \in Plan(cur, linked)' \ todo'
          PROVE  AsApplied(KindAt(cur, linked, i), cur.spec, linked)'
      <4>1. pc = "apply" /\ todo' = todo
        BY <1>7, <3>5
      <4>2. i \in Plan(cur, linked) \ todo
        BY <1>7, <3>5, <4>1
      <4>3. PICK k, s, l :
              /\ l = linked /\ l = linked'
              /\ k \in Tracked \cup {"Namespace"}
              /\ k = KindAt(cur, linked, i) /\ s = cur.spec
              /\ k = KindAt(cur, linked, i)' /\ s = cur'.spec
        BY <1>7, <4>2, PlanKinds
      <4>4. AsApplied(k, s, l)
        BY <1>2, <4>1, <4>2, <4>3 DEF WorkerDrift
      <4>6. k \in Tracked \cup {"Namespace"}
        BY <4>3
      <4>5. AsApplied(k, s, l)'
        BY <1>7, <4>4, <4>6, AsAppliedStep
      <4> QED BY <4>3, <4>5
    <3>6. pc' \in {"rollout", "status"} /\ ~failed' /\ Buildable(cur'.spec) => Applied(cur, linked)'
      BY <1>2, <1>7, <3>1, <3>3 DEF WorkerDrift
    <3>7. cur' # NoClaim /\ inSyncAtGeneration(cur)' => Applied(cur, linked)' /\ innocent' = {}
      BY <1>2, <1>7, <2>2, <3>3, <3>4 DEF WorkerDrift
    <3> QED BY <3>2, <3>5, <3>6, <3>7 DEF WorkerDrift
  <2> QED BY <2>1, <2>2
<1>8. CASE ApplyFails \/ ReadRollout
  <2>1. /\ cur' = cur /\ innocent' = innocent /\ pc' = "status" /\ linked' = linked
        /\ failed' = TRUE \/ (pc = "rollout" /\ failed' = failed)
    BY <1>8 DEF ApplyFails, ReadRollout
  <2> QED BY <1>6, <1>7, <2>1
<1>9. CASE WriteStatus \/ Finalize \/ Restart
  BY <1>1, <1>9 DEF WriteStatus, Finalize, Restart, Return
<1>10. CASE UNCHANGED <<pc, cur, innocent, todo, failed, linked>>
  BY <1>6, <1>7, <1>10
<1>11. CASE DeliverClaim \/ DeliverNamespace \/ CreateClaim \/ EditClaim \/ DeleteClaim
            \/ DeleteNamespace \/ RemoveNamespace \/ ArgoReports
  BY <1>10, <1>11 DEF DeliverClaim, DeliverNamespace, CreateClaim, EditClaim, DeleteClaim,
                      DeleteNamespace, RemoveNamespace, ArgoReports
<1>12. ASSUME NEW k \in Tracked, EditObject(k) \/ DeleteObject(k) \/ RemoveContent(k)
       PROVE  WorkerDrift'
  BY <1>10, <1>12 DEF EditObject, DeleteObject, RemoveContent
<1>13. CASE UNCHANGED vars
  BY <1>10, <1>13 DEF vars
<1> QED BY <1>4, <1>5, <1>6, <1>8, <1>9, <1>11, <1>12, <1>13 DEF Next

(* Only what changed under the controller is reported as drift, for every  *)
(* set of specs and of tracked kinds and any number of edits, tampers,     *)
(* faults and restarts: a status in sync at its generation is written only *)
(* when everything of that generation was applied, and before the next     *)
(* generation only others change it, or a restart that links the cluster   *)
(* to AWS or cuts the link, and that only for a claim with storage.        *)
THEOREM DriftIsReal ==
  ASSUME MaxClaims = 1
  PROVE  Spec => []NoFalseDrift
<1>1. Init => DriftInv
  <2> SUFFICES ASSUME Init PROVE DriftInv
    OBVIOUS
  <2>1. Versions = {0} /\ Version(0) = NoClaim
    BY DEF Init, Versions, Version
  <2> QED BY <2>1 DEF Init, DriftInv, WorkerDrift
<1>2. TypeOK /\ HoldInv /\ GenerationInv /\ DriftInv /\ [Next]_vars => DriftInv'
  <2> SUFFICES ASSUME TypeOK, HoldInv, GenerationInv, DriftInv, [Next]_vars PROVE DriftInv'
    OBVIOUS
  <2> QED BY DriftStep, DriftVersions DEF DriftInv
<1>3. TypeOK /\ DriftInv => NoFalseDrift
  BY DEF TypeOK, WorkerTypes, DriftInv, WorkerDrift, NoFalseDrift
<1> QED BY <1>1, <1>2, <1>3, TypeCorrect, HoldInvHolds, GenerationInvHolds, PTL DEF Spec
=============================================================================
