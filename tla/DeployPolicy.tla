---------------------------- MODULE DeployPolicy ----------------------------
(***************************************************************************)
(* What the deploy freeze promises (DECISIONS.md, ADR-017 and ADR-018),    *)
(* with no cache, no webhook request in flight and no control state.  The  *)
(* error budget is assessed in one step against the decision in force, and *)
(* an image changes either while deploys are open or under an audit entry  *)
(* for exactly that change.                                                *)
(***************************************************************************)
EXTENDS Conditions

CONSTANTS Images,   \* container images a claim may name
          Entries   \* audit entries: records with at least from and to

VARIABLES image,    \* spec.image of the stored claim
          frozen,   \* DeploysFrozen is True
          slo,      \* the SLO report frozen was last decided from
          audit     \* BreakGlassUsed Events recorded so far

policyVars == <<image, frozen, slo, audit>>

Init ==
  /\ image \in Images
  /\ frozen = FALSE
  /\ slo = Unmeasured("NoTraffic")
  /\ audit = {}

(* One reading of the budget moves the decision. *)
Assess ==
  /\ slo' \in Reports
  /\ frozen' = freezeCondition(frozen, slo')
  /\ UNCHANGED <<image, audit>>

Record(entry) ==
  /\ audit' = audit \cup {entry}
  /\ UNCHANGED <<image, frozen, slo>>

ChangeImage(i) ==
  /\ frozen => \E e \in audit : e.from = image /\ e.to = i
  /\ image' = i
  /\ UNCHANGED <<frozen, slo, audit>>

Next ==
  \/ Assess
  \/ \E entry \in Entries : Record(entry)
  \/ \E i \in Images : ChangeImage(i)

Spec == Init /\ [][Next]_policyVars
=============================================================================
