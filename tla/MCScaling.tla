----------------------------- MODULE MCScaling ------------------------------
(* Instances of Scaling for TLC. *)
EXTENDS Scaling

SpecOf(tier, min, max) ==
  [tier |-> tier, image |-> "v1", min |-> min, max |-> max, storage |-> FALSE]

(* Every tier, with min below, at and above max and the public floor. *)
AllSpecs == {SpecOf(t, min, max) : t \in Tiers, min \in {1, 3}, max \in {1, 4}}
=============================================================================
