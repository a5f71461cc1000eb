------------------------------- MODULE Scaling -------------------------------
(***************************************************************************)
(* Who sets the replica count of a claim's Rollout: the controller's       *)
(* server-side applies or the HorizontalPodAutoscaler (DECISIONS.md,       *)
(* ADR-008).  This is the projection of the reconcile onto the Rollout's   *)
(* spec.replicas and the HPA object: it reads the claim from a cache that  *)
(* lags behind the edits, and may be cut off before either apply.  The     *)
(* HPA's controller is external.                                           *)
(***************************************************************************)
EXTENDS Builders, Functions

CONSTANTS
  Specs,       \* claim specs: tier, min and max vary
  NoHPA,       \* there is no HPA object
  MaxLag       \* bound: edits the informer has yet to deliver

ASSUME SpecsAssumption ==
  \A s \in Specs : s.tier \in Tiers /\ s.min \in Nat \ {0} /\ s.max \in Nat \ {0}
ASSUME LagAssumption == MaxLag \in Nat
ASSUME NoHPAAssumption == \A s \in Specs : BuildHPA(s) # NoHPA

VARIABLES
  spec,      \* the claim's spec
  view,      \* the spec in the informer's cache
  watch,     \* specs on their way to the cache, oldest first
  pc,        \* reconcile: "idle", "rollout" or "hpa", the object applied next
  cur,       \* the spec the reconcile read
  replicas,  \* the Rollout's replica count, 0 before there is a Rollout
  manager,   \* who set spec.replicas: "none", "paved" or "hpa"
  hpa        \* the HPA's bounds, or NoHPA

vars == <<spec, view, watch, pc, cur, replicas, manager, hpa>>

(* Argo Rollouts runs one replica when spec.replicas is unset. *)
DefaultReplicas == 1

Init ==
  /\ spec \in Specs /\ cur = spec
  /\ view = spec /\ watch = <<>>
  /\ pc = "idle"
  /\ replicas = 0 /\ manager = "none"
  /\ hpa = NoHPA

EditSpec ==
  /\ Len(watch) < MaxLag
  /\ spec' \in Specs \ {spec}
  /\ watch' = Append(watch, spec')
  /\ UNCHANGED <<view, pc, cur, replicas, manager, hpa>>

(* The informer's cache takes the next version. *)
DeliverClaim ==
  /\ watch # <<>>
  /\ view' = Head(watch)
  /\ watch' = Tail(watch)
  /\ UNCHANGED <<spec, pc, cur, replicas, manager, hpa>>

(* A reconcile gets the claim from the cache. *)
Read ==
  /\ pc = "idle"
  /\ cur' = view
  /\ pc' = "rollout"
  /\ UNCHANGED <<spec, view, watch, replicas, manager, hpa>>

(* A forced server-side apply of the Rollout.  Setting spec.replicas takes *)
(* it; leaving it out gives it up, which unsets a value only the           *)
(* controller had set.                                                     *)
ApplyRollout ==
  /\ pc = "rollout"
  /\ LET wanted == RolloutReplicas(cur) IN
       \/ /\ wanted # 0
          /\ replicas' = wanted
          /\ manager' = "paved"
       \/ /\ wanted = 0 /\ (manager = "paved" \/ replicas = 0)
          /\ replicas' = DefaultReplicas
          /\ manager' = "none"
       \/ /\ wanted = 0 /\ manager # "paved" /\ replicas # 0
          /\ UNCHANGED <<replicas, manager>>
  /\ pc' = "hpa"
  /\ UNCHANGED <<spec, view, watch, cur, hpa>>

(* A tier without an HPA applies none, and removes none. *)
ApplyHPA ==
  /\ pc = "hpa"
  /\ hpa' = IF HasAutoscaling(cur) THEN BuildHPA(cur) ELSE hpa
  /\ pc' = "idle"
  /\ UNCHANGED <<spec, view, watch, cur, replicas, manager>>

(* An apply fails, of these two objects or of one before them, or the      *)
(* controller restarts: the rest waits for the next reconcile.             *)
ApplyFails ==
  /\ pc \in {"rollout", "hpa"}
  /\ pc' = "idle"
  /\ UNCHANGED <<spec, view, watch, cur, replicas, manager, hpa>>

(* The HPA's controller moves the Rollout to a count within its bounds. *)
Scale ==
  /\ hpa # NoHPA /\ replicas # 0
  /\ \E n \in hpa.min .. hpa.max :
       /\ n # replicas
       /\ replicas' = n
  /\ manager' = "hpa"
  /\ UNCHANGED <<spec, view, watch, pc, cur, hpa>>

(* ... and keeps it there. *)
ScaleIntoBounds ==
  /\ Scale
  /\ replicas \notin hpa.min .. hpa.max

Next ==
  \/ EditSpec \/ DeliverClaim
  \/ Read \/ ApplyRollout \/ ApplyHPA \/ ApplyFails
  \/ Scale

(* The watch delivers, the claim is reconciled at least every minute, an   *)
(* apply that is tried again and again succeeds some time, and the HPA     *)
(* enforces its bounds whatever the load.                                  *)
Spec ==
  /\ Init /\ [][Next]_vars
  /\ WF_vars(DeliverClaim) /\ WF_vars(Read)
  /\ SF_vars(ApplyRollout) /\ SF_vars(ApplyHPA)
  /\ WF_vars(ScaleIntoBounds)

-----------------------------------------------------------------------------
(***************************************************************************)
(* The controller and the HPA never fight over a claim that has an HPA: no *)
(* apply of its Rollout changes a replica count the HPA chose, across      *)
(* edits of tier, min and max that land in the middle of a reconcile, are  *)
(* read late or applied by half, back from batch included (RolloutReplicas,*)
(* ADR-008).                                                               *)
(***************************************************************************)
NeverFight ==
  [][pc = "rollout" /\ pc' = "hpa" /\ manager = "hpa" /\ HasAutoscaling(cur)
       => replicas' = replicas]_vars

(***************************************************************************)
(* The API server never has to reject the HPA: whatever min and max a      *)
(* claim asks for, its bounds are in order (BuildHPA, MinReplicas).        *)
(***************************************************************************)
HPABoundsValid == hpa # NoHPA => 1 <= hpa.min /\ hpa.min <= hpa.max

(***************************************************************************)
(* A public service never settles below two pods: once a claim stays       *)
(* public its Rollout reaches the floor and stays there, from any tier and *)
(* any replica count it had before (MinReplicas, BuildHPA, ADR-008).       *)
(***************************************************************************)
PublicFloor == <>[](spec.tier = "public") => <>[](replicas >= publicMinReplicas)
=============================================================================
