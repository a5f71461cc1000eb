--------------------------- MODULE ClaimLifecycle ---------------------------
(***************************************************************************)
(* What the finalizer promises (DECISIONS.md, ADR-006), with no caches, no *)
(* work queue and no reconcile in progress: a claim is held before its     *)
(* Namespace is created, and let go only when the Namespace is gone.       *)
(***************************************************************************)

VARIABLES claim,      \* "none", "free", "held" by the finalizer, or "going": held and deleted
          namespace   \* "absent", "active" or "terminating"

Init == claim = "none" /\ namespace = "absent"

Create == claim = "none" /\ claim' = "free" /\ UNCHANGED namespace

Hold == claim = "free" /\ claim' = "held" /\ UNCHANGED namespace

Delete ==
  /\ \/ claim = "free" /\ claim' = "none"
     \/ claim = "held" /\ claim' = "going"
  /\ UNCHANGED namespace

Build ==
  /\ claim \in {"held", "going"}
  /\ namespace = "absent" /\ namespace' = "active"
  /\ UNCHANGED claim

Empty == namespace = "active" /\ namespace' = "terminating" /\ UNCHANGED claim

Remove == namespace = "terminating" /\ namespace' = "absent" /\ UNCHANGED claim

LetGo ==
  /\ claim = "going" /\ namespace = "absent"
  /\ claim' = "none"
  /\ UNCHANGED namespace

Next == Create \/ Hold \/ Delete \/ Build \/ Empty \/ Remove \/ LetGo

Spec == Init /\ [][Next]_<<claim, namespace>>
=============================================================================
