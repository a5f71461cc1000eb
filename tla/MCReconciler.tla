---------------------------- MODULE MCReconciler ----------------------------
(***************************************************************************)
(* Instances of Reconciler for TLC.                                        *)
(***************************************************************************)
EXTENDS Reconciler

SLI(type, statuses) == [type |-> type, goodStatuses |-> statuses, latencyThreshold |-> 250]

Availability == SLI("http-availability", {200})

SpecOf(image, sli) ==
  [tier |-> "internal", image |-> image, min |-> 1, max |-> 2, storage |-> TRUE, sli |-> sli]

(* An image change of a claim with storage. *)
TwoImages == { SpecOf("v1", Availability), SpecOf("v2", Availability) }

(* For the run about deletion. *)
OneSpec == { SpecOf("v1", Availability) }

(* An SLI for which every request would be an error, which can't be built, *)
(* and the same service measured by latency.                               *)
FixableSpecs ==
  { SpecOf("v1", SLI("http-availability", {})), SpecOf("v1", SLI("http-latency", {})) }
=============================================================================
