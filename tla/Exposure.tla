------------------------------ MODULE Exposure ------------------------------
(***************************************************************************)
(* Who can reach a claim's pods, while the claim's tier, owner, port and   *)
(* image are edited, a reconcile applies the objects one at a time and may *)
(* fail half-way, nothing is ever pruned, and Argo Rollouts runs the old   *)
(* and the new pods side by side through a canary that may be aborted.     *)
(* A reconcile reads the claim from a cache that lags behind the edits.    *)
(*                                                                         *)
(* The projection of the reconcile onto the objects traffic depends on.    *)
(* Argo Rollouts, kube-proxy, Traefik and the enforcement of               *)
(* NetworkPolicies are external.  Someone else's edits of managed objects  *)
(* are the Reconciler module's.                                            *)
(***************************************************************************)
EXTENDS Builders, Functions

CONSTANTS
  Specs,   \* claim specs: tier, owner, port and image vary
  None,    \* no such object, pod or spec
  MaxLag   \* bound: edits the informer has yet to deliver

ASSUME ExposureSpecsAssumption == \A s \in Specs : s.tier \in Tiers

ASSUME ExposureLagAssumption == MaxLag \in Nat

VARIABLES
  spec,      \* the claim's spec
  view,      \* the spec in the informer's cache
  watch,     \* specs on their way to the cache, oldest first
  cur,       \* the spec the reconcile in progress read
  todo,      \* the places in Plan it has still to apply; empty between reconciles
  objs,      \* what each object holds, or None
  stable,    \* the pods of the version that serves, or None
  canary,    \* the pods of the version being tried, or None
  aborted,   \* the template whose canary was aborted, or None
  applied,   \* history: the spec every object was last applied for, or None
  settled    \* history: every object was applied for the tier and the port the
             \* claim has kept since, and so has every version not yet delivered

vars == <<spec, view, watch, cur, todo, objs, stable, canary, aborted, applied, settled>>

(* The kinds traffic depends on. *)
Kinds == {"Rollout", "NetworkPolicy", "ServiceMonitor", "Service",
          "PodDisruptionBudget", "Ingress"}

(* The places in Build of the objects of those kinds. *)
Plan(sc) == {i \in DOMAIN Build(sc, FALSE) : Build(sc, FALSE)[i] \in Kinds}

Rendered(sc) ==
  [Rollout |-> [pods |-> PodTemplate(sc), analysis |-> HasCanaryAnalysis(sc)],
   NetworkPolicy |-> BuildNetworkPolicy(sc),
   ServiceMonitor |-> BuildServiceMonitor(sc),
   Service |-> BuildService(sc),
   PodDisruptionBudget |-> BuildPodDisruptionBudget(sc),
   Ingress |-> BuildIngress(sc)]

ASSUME NoneAssumption ==
  None \notin Specs /\ \A s \in Specs, k \in Kinds : Rendered(s)[k] # None

SamePath(a, b) == a.tier = b.tier /\ a.port = b.port

Init ==
  /\ spec \in Specs /\ view = spec /\ watch = <<>>
  /\ cur = None /\ todo = {}
  /\ objs = [k \in Kinds |-> None]
  /\ stable = None /\ canary = None /\ aborted = None
  /\ applied = None /\ settled = FALSE

-----------------------------------------------------------------------------
(* The claim and its reconcile *)

EditSpec ==
  /\ Len(watch) < MaxLag
  /\ spec' \in Specs \ {spec}
  /\ watch' = Append(watch, spec')
  /\ settled' = (settled /\ SamePath(spec', spec))
  /\ UNCHANGED <<view, cur, todo, objs, stable, canary, aborted, applied>>

(* The informer's cache takes the next version. *)
DeliverClaim ==
  /\ watch # <<>>
  /\ view' = Head(watch)
  /\ watch' = Tail(watch)
  /\ UNCHANGED <<spec, cur, todo, objs, stable, canary, aborted, applied, settled>>

(* A reconcile gets the claim from the cache. *)
Read ==
  /\ todo = {}
  /\ cur' = view
  /\ todo' = Plan(view)
  /\ applied' = IF applied = view THEN view ELSE None
  /\ UNCHANGED <<spec, view, watch, objs, stable, canary, aborted, settled>>

(* The kind that Build puts at a place; objects are applied in its order. *)
KindAt(i) == Build(cur, FALSE)[i]

First(i) == \A j \in todo : i <= j

(* Mutant: the rules are added to those the policy has. *)
Content_added(k) ==
  IF k = "NetworkPolicy" /\ objs[k] # None THEN objs[k] \cup Rendered(cur)[k]
  ELSE Rendered(cur)[k]

(* What an apply leaves in the object, whatever was there: the controller  *)
(* owns all of these fields, by force.                                     *)
Content(k) == Rendered(cur)[k]

(* The claim, what the informer has of it and what is on its way to it are *)
(* all of one tier and port.                                               *)
Unanimous(sc) == \A v \in {spec, view} \cup Range(watch) : SamePath(sc, v)

ApplyNext ==
  /\ \E i \in todo :
       /\ First(i)
       /\ objs' = [objs EXCEPT ![KindAt(i)] = Content(KindAt(i))]
       /\ todo' = todo \ {i}
  /\ \/ /\ todo' # {}
        /\ UNCHANGED <<cur, applied, settled>>
     \/ /\ todo' = {}
        /\ cur' = None
        /\ applied' = cur
        /\ settled' = (settled \/ Unanimous(cur))
  /\ UNCHANGED <<spec, view, watch, stable, canary, aborted>>

(* An apply fails, or the controller restarts: the rest waits for the next *)
(* reconcile.                                                              *)
ApplyFails ==
  /\ todo # {}
  /\ todo' = {}
  /\ cur' = None
  /\ UNCHANGED <<spec, view, watch, objs, stable, canary, aborted, applied, settled>>

-----------------------------------------------------------------------------
(* Argo Rollouts (external) *)

Wanted == IF objs["Rollout"] = None THEN None ELSE objs["Rollout"].pods

(* The first version starts at once, a later one as a canary.  Going back  *)
(* to the stable version needs no canary.                                  *)
StartPods ==
  /\ Wanted # None
  /\ \/ stable = None /\ stable' = Wanted /\ canary' = None
     \/ /\ stable # None /\ Wanted \notin {stable, canary, aborted}
        /\ canary' = Wanted /\ UNCHANGED stable
     \/ /\ stable = Wanted /\ {canary, aborted} # {None}
        /\ canary' = None /\ UNCHANGED stable
  /\ aborted' = None
  /\ UNCHANGED <<spec, view, watch, cur, todo, objs, applied, settled>>

Promote ==
  /\ canary # None /\ canary = Wanted
  /\ stable' = canary
  /\ canary' = None
  /\ UNCHANGED <<spec, view, watch, cur, todo, objs, aborted, applied, settled>>

(* The analysis fails: the canary is scaled down, and not tried again      *)
(* until the Rollout changes.                                              *)
Abort ==
  /\ canary # None /\ canary = Wanted /\ objs["Rollout"].analysis
  /\ aborted' = canary
  /\ canary' = None
  /\ UNCHANGED <<spec, view, watch, cur, todo, objs, stable, applied, settled>>

Next ==
  \/ EditSpec \/ DeliverClaim \/ Read \/ ApplyNext \/ ApplyFails
  \/ StartPods \/ Promote \/ Abort

Spec == Init /\ [][Next]_vars

-----------------------------------------------------------------------------
(* Paths to a pod *)

Pods == {stable, canary} \ {None}

Exists(k) == objs[k] # None

(* Without a policy for its namespace a pod admits everyone. *)
Admits(pod, peer) ==
  Exists("NetworkPolicy") =>
    \E r \in objs["NetworkPolicy"] :
      peer \in r.from /\ r.ports \cap {AnyPort, pod.port} # {}

ThroughService(pod, peer) ==
  /\ Exists("Service") /\ objs["Service"].selector \subseteq pod.labels
  /\ Admits(pod, peer)

FromOutside(pod) == Exists("Ingress") /\ ThroughService(pod, "traefik")

(* Prometheus finds pods through the Services a ServiceMonitor selects. *)
Scraped(pod) ==
  /\ Exists("ServiceMonitor") /\ Exists("Service")
  /\ objs["ServiceMonitor"].selector \subseteq objs["Service"].labels
  /\ ThroughService(pod, "monitoring")

Covered(pod) ==
  /\ Exists("PodDisruptionBudget")
  /\ objs["PodDisruptionBudget"].selector \subseteq pod.labels

-----------------------------------------------------------------------------
(* Properties *)

TypeOK ==
  /\ spec \in Specs /\ view \in Specs /\ watch \in Seq(Specs)
  /\ cur \in Specs \cup {None} /\ applied \in Specs \cup {None}
  /\ (cur = None) <=> (todo = {})
  /\ \A i \in todo : KindAt(i) \in Kinds
  /\ DOMAIN objs = Kinds
  /\ \A k \in Kinds : objs[k] \in {Rendered(s)[k] : s \in Specs} \cup {None}
  /\ {stable, canary, aborted} \subseteq {PodTemplate(s) : s \in Specs} \cup {None}
  /\ settled \in BOOLEAN

(***************************************************************************)
(* Only a public claim is public: once everything was applied for a claim  *)
(* that is not, no pod of it, old or new, is reached through the ingress   *)
(* controller, though the Ingress and the Service of an earlier tier are   *)
(* still there (BuildNetworkPolicy, Build, applyObjects).                  *)
(***************************************************************************)
OnlyPublicIsPublic ==
  applied # None /\ applied.tier # "public" =>
    \A pod \in Pods : ~FromOutside(pod)

(***************************************************************************)
(* A service keeps serving: once everything was applied for a tier and a   *)
(* port that every version of the claim the informer has, or has yet to    *)
(* get, agrees on, and as long as the claim keeps them, every pod on that  *)
(* port is reached by those the tier lets in, scraped and counted by the   *)
(* disruption budget, at every step of a reconcile, a canary or an abort,  *)
(* whoever becomes the owner (SelectorLabels, BuildService, BuildIngress,  *)
(* BuildServiceMonitor, BuildNetworkPolicy, BuildPodDisruptionBudget).     *)
(* Pods that an edit of the port leaves on another one are cut off.        *)
(***************************************************************************)
KeepsServing ==
  settled /\ spec.tier # "batch" =>
    \A pod \in {p \in Pods : p.port = spec.port} :
      /\ ThroughService(pod, "platform-system")
      /\ spec.tier = "public" => FromOutside(pod)
      /\ Scraped(pod)
      /\ Covered(pod)
=============================================================================
