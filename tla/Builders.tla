------------------------------ MODULE Builders ------------------------------
(***************************************************************************)
(* What a claim's spec becomes: which objects Build returns, in the order  *)
(* the controller applies them, and the fields of those objects that the   *)
(* rest of the model tells apart.                                          *)
(*                                                                         *)
(* A spec is a record with tier, image, owner, port, min and max           *)
(* (spec.scale), storage and sli; a module's specs have the fields it      *)
(* uses.  An SLI has a type, the statuses that count as good, and a        *)
(* latency threshold: in milliseconds, 0 for text that is not a positive   *)
(* duration, which the schema lets through.                                *)
(***************************************************************************)
EXTENDS Integers, Sequences

Tiers == {"public", "internal", "batch"}

publicMinReplicas == 2

HasAutoscaling(sc) == sc.tier \in {"public", "internal"}

HasCanaryAnalysis(sc) == sc.tier # "batch"

(* linked: the cluster has an AWS account to create storage in. *)
HasStorage(sc, linked) == sc.storage /\ linked

Larger(a, b) == IF a > b THEN a ELSE b

(* Mutant: the public floor is not enforced. *)
MinReplicas_noFloor(sc) == IF sc.tier = "batch" THEN 1 ELSE sc.min

MinReplicas(sc) ==
  IF sc.tier = "public" THEN Larger(sc.min, publicMinReplicas)
  ELSE IF sc.tier = "internal" THEN sc.min
  ELSE 1

(* Whether the SLI can be turned into a rule; otherwise Build returns an   *)
(* error.  The schema checks the objective and the window, so the alerts   *)
(* add no error of their own.                                              *)
goodStatusPattern(statuses) == statuses # {}

LatencyBucket(threshold) == threshold > 0

ErrorRatioExpr(sli) ==
  \/ sli.type = "http-availability" /\ goodStatusPattern(sli.goodStatuses)
  \/ sli.type = "http-latency" /\ LatencyBucket(sli.latencyThreshold)

Buildable(sc) == ErrorRatioExpr(sc.sli)

When(condition, kinds) == IF condition THEN kinds ELSE <<>>

(* Mutant: the AnalysisTemplate after the Rollout that names it. *)
Build_templateLast(sc, linked) ==
  <<"Namespace", "ServiceAccount">>
  \o When(HasStorage(sc, linked), <<"Role", "Bucket">>)
  \o <<"Rollout", "NetworkPolicy", "PrometheusRule", "ServiceMonitor", "Dashboard", "Runbook">>
  \o When(HasCanaryAnalysis(sc), <<"AnalysisTemplate">>)
  \o When(HasAutoscaling(sc), <<"Service", "HPA", "PodDisruptionBudget">>)
  \o When(sc.tier = "public", <<"Ingress">>)

(***************************************************************************)
(* The objects of a valid claim, in the order they are applied.  An object *)
(* is named by its kind; the two ConfigMaps by what they hold.             *)
(***************************************************************************)
Build(sc, linked) ==
  <<"Namespace", "ServiceAccount">>
  \o When(HasStorage(sc, linked), <<"Role", "Bucket">>)
  \o When(HasCanaryAnalysis(sc), <<"AnalysisTemplate">>)
  \o <<"Rollout", "NetworkPolicy", "PrometheusRule", "ServiceMonitor", "Dashboard", "Runbook">>
  \o When(HasAutoscaling(sc), <<"Service", "HPA", "PodDisruptionBudget">>)
  \o When(sc.tier = "public", <<"Ingress">>)

(* Mutant: the controller sets the count whatever the tier. *)
RolloutReplicas_always(sc) == MinReplicas(sc)

(* spec.replicas of the Rollout; 0 when it is left to the HPA. *)
RolloutReplicas(sc) == IF HasAutoscaling(sc) THEN 0 ELSE MinReplicas(sc)

(* identity: the pods carry the AWS identity of the claim's role. *)
BuildRollout(sc, linked) ==
  [image |-> sc.image, analysis |-> HasCanaryAnalysis(sc), replicas |-> RolloutReplicas(sc),
   identity |-> HasStorage(sc, linked)]

(* Mutant: scale.max as the claim gives it. *)
BuildHPA_max(sc) == [min |-> MinReplicas(sc), max |-> sc.max]

BuildHPA(sc) ==
  [min |-> MinReplicas(sc), max |-> Larger(sc.max, MinReplicas(sc))]

(***************************************************************************)
(* Labels and selectors: sets of key-value pairs.  A selector matches what *)
(* carries all of its pairs.  Of the values only the owner can be edited.  *)
(***************************************************************************)
Labels(sc) ==
  {<<"name", "claim">>, <<"managed-by", "paved">>, <<"claim", "claim">>,
   <<"claim-namespace", "platform-claims">>, <<"owner", sc.owner>>}

(* Mutant: pods are selected by everything they are labelled with. *)
SelectorLabels_all(sc) == Labels(sc)

SelectorLabels(sc) == {<<"name", "claim">>}

(* A pod as the Rollout's template describes it.  Everything that reaches  *)
(* it goes to the container port called "http".                            *)
PodTemplate(sc) == [labels |-> Labels(sc), image |-> sc.image, port |-> sc.port]

BuildService(sc) == [labels |-> Labels(sc), selector |-> SelectorLabels(sc)]

BuildServiceMonitor(sc) == [selector |-> SelectorLabels(sc)]

BuildPodDisruptionBudget(sc) == [selector |-> SelectorLabels(sc)]

BuildIngress(sc) == [backend |-> "Service"]

(* Who a rule of the NetworkPolicy lets in, and on which ports.  A claim's *)
(* port is at least 1; 0 stands for a rule that names none.                *)
AnyPort == 0

Rule(from, ports) == [from |-> from, ports |-> ports]

(* Mutant: the ingress controller is let in wherever there is a Service. *)
BuildNetworkPolicy_service(sc) ==
  {Rule({"monitoring"}, {sc.port})}
  \cup (IF HasAutoscaling(sc)
        THEN {Rule({"own namespace", "platform-system"}, {AnyPort}),
              Rule({"traefik"}, {sc.port})}
        ELSE {})

BuildNetworkPolicy(sc) ==
  {Rule({"monitoring"}, {sc.port})}
  \cup (IF sc.tier \in {"public", "internal"}
        THEN {Rule({"own namespace", "platform-system"}, {AnyPort})} ELSE {})
  \cup (IF sc.tier = "public" THEN {Rule({"traefik"}, {sc.port})} ELSE {})

(***************************************************************************)
(* The ACK objects of a claim with storage, by the annotations ACK acts    *)
(* on: whether it may adopt what AWS already has under the name, and       *)
(* whether it keeps that when the object is deleted.  The names depend on  *)
(* the claim, the account and the region alone, so they outlive the claim. *)
(***************************************************************************)
(* Mutants: annotated like the bucket; its annotations left out. *)
BuildStorageRole_retained == [adopt |-> TRUE, retain |-> TRUE]
BuildStorageBucket_deleted == [adopt |-> TRUE, retain |-> FALSE]
BuildStorageBucket_created == [adopt |-> FALSE, retain |-> TRUE]

BuildStorageRole == [adopt |-> TRUE, retain |-> FALSE]

BuildStorageBucket == [adopt |-> TRUE, retain |-> TRUE]

(* What a builder puts in an object.  The kinds not listed depend on       *)
(* nothing this model lets a spec edit change.                             *)
Render(kind, sc, linked) ==
  IF kind = "Rollout" THEN BuildRollout(sc, linked)
  ELSE IF kind = "HPA" THEN BuildHPA(sc)
  ELSE [kind |-> kind]
=============================================================================
