----------------------------- MODULE MCExposure -----------------------------
(* Claims for TLC.  A public claim gets another owner, or with it another  *)
(* image and port; of the other tiers there is one each.                   *)
EXTENDS Exposure

Original == [tier |-> "public", owner |-> "team-a", image |-> "v1", port |-> 8080,
             min |-> 1, max |-> 2, storage |-> FALSE]

PublicSpecs ==
  {Original, [Original EXCEPT !.owner = "team-b"],
   [Original EXCEPT !.owner = "team-b", !.image = "v2", !.port = 9090]}

EditedSpecs ==
  PublicSpecs \cup {[Original EXCEPT !.tier = "internal"], [Original EXCEPT !.tier = "batch"]}
=============================================================================
