------------------------------ MODULE MCStorage ------------------------------
(* Environments for TLC: nothing set, everything right, a setting missing, *)
(* a setting wrong.                                                        *)
EXTENDS Storage

Linked == [s \in Settings |-> "good"]
Unlinked == [s \in Settings |-> "unset"]

AnyEnvironment ==
  {Linked, Unlinked, [Linked EXCEPT !["issuer"] = "unset"],
   [Linked EXCEPT !["region"] = "bad"]}
=============================================================================
