--------------------------- MODULE ExposureProofs ---------------------------
(***************************************************************************)
(* Who reaches a claim's pods, for any set of specs a claim may go         *)
(* through.  What is proved of the pods rests on what the objects held at  *)
(* each step of a reconcile that goes one object at a time and may be cut  *)
(* off.                                                                    *)
(***************************************************************************)
EXTENDS Exposure, InformerLemmas

-----------------------------------------------------------------------------
(* What Build returns *)

(* The kinds Build has a place for, of those traffic depends on. *)
Needed(sc) == {Build(sc, FALSE)[i] : i \in Plan(sc)}

(* A member of either part is a member of both put together. *)
LEMMA ConcatHas ==
  ASSUME NEW S, NEW s \in Seq(S), NEW t \in Seq(S)
  PROVE  /\ s \o t \in Seq(S)
         /\ \A i \in DOMAIN s : i \in DOMAIN (s \o t) /\ (s \o t)[i] = s[i]
         /\ \A i \in DOMAIN t : \E j \in DOMAIN (s \o t) : (s \o t)[j] = t[i]
<1>1. PICK u \in Seq(S) : /\ u = s \o t /\ Len(u) = Len(s) + Len(t)
                          /\ \A i \in 1 .. Len(u) :
                               u[i] = IF i <= Len(s) THEN s[i] ELSE t[i - Len(s)]
  <2>1. s \o t \in Seq(S)
    BY ConcatProperties
  <2>2. Len(s \o t) = Len(s) + Len(t)
    BY ConcatProperties
  <2>3. \A i \in 1 .. Len(s \o t) : (s \o t)[i] = IF i <= Len(s) THEN s[i] ELSE t[i - Len(s)]
    BY <2>2, ConcatProperties, Zenon
  <2> QED BY <2>1, <2>2, <2>3, Zenon
<1>2. Len(s) \in Nat /\ Len(t) \in Nat
  OBVIOUS
<1>3. DOMAIN s = 1 .. Len(s) /\ DOMAIN t = 1 .. Len(t) /\ DOMAIN u = 1 .. Len(u)
  OBVIOUS
<1>4. \A i \in DOMAIN s : i \in DOMAIN u /\ u[i] = s[i]
  BY <1>1, <1>2, <1>3
<1>5. ASSUME NEW i \in DOMAIN t PROVE \E j \in DOMAIN u : u[j] = t[i]
  <2>1. i + Len(s) \in DOMAIN u /\ u[i + Len(s)] = t[i]
    BY <1>1, <1>2, <1>3, <1>5
  <2> QED BY <2>1
<1> QED BY <1>1, <1>4, <1>5

(* Members of a concatenation, by value. *)
Has(s, x) == \E i \in DOMAIN s : s[i] = x

LEMMA HasConcat ==
  ASSUME NEW S, NEW s \in Seq(S), NEW t \in Seq(S), NEW x, Has(s, x) \/ Has(t, x)
  PROVE  Has(s \o t, x)
<1>1. PICK u \in Seq(S) :
        /\ u = s \o t
        /\ \A i \in DOMAIN s : i \in DOMAIN u /\ u[i] = s[i]
        /\ \A i \in DOMAIN t : \E j \in DOMAIN u : u[j] = t[i]
  <2>1. s \o t \in Seq(S)
    BY ConcatHas
  <2>2. \A i \in DOMAIN s : i \in DOMAIN (s \o t) /\ (s \o t)[i] = s[i]
    BY ConcatHas
  <2>3. \A i \in DOMAIN t : \E j \in DOMAIN (s \o t) : (s \o t)[j] = t[i]
    BY ConcatHas
  <2> QED BY <2>1, <2>2, <2>3, Zenon
<1> QED BY <1>1 DEF Has

(* Every claim has a policy and a monitor, one with pods to reach a        *)
(* Service and a budget, and a public one an Ingress (Build).              *)
LEMMA BuildHas ==
  ASSUME NEW sc \in Specs
  PROVE  /\ {"NetworkPolicy", "ServiceMonitor"} \subseteq Needed(sc)
         /\ sc.tier # "batch" => {"Service", "PodDisruptionBudget"} \subseteq Needed(sc)
         /\ sc.tier = "public" => "Ingress" \in Needed(sc)
<1> DEFINE first == <<"Namespace", "ServiceAccount">>
           storing == <<"Role", "Bucket">>
           template == <<"AnalysisTemplate">>
           always == <<"Rollout", "NetworkPolicy", "PrometheusRule", "ServiceMonitor",
                       "Dashboard", "Runbook">>
           serving == <<"Service", "HPA", "PodDisruptionBudget">>
           public == <<"Ingress">>
           All == {"Namespace", "ServiceAccount", "Role", "Bucket", "AnalysisTemplate",
                   "Rollout", "NetworkPolicy", "PrometheusRule", "ServiceMonitor", "Dashboard",
                   "Runbook", "Service", "HPA", "PodDisruptionBudget", "Ingress"}
<1>1. Build(sc, FALSE) =
        first \o When(HasStorage(sc, FALSE), storing) \o When(HasCanaryAnalysis(sc), template)
        \o always \o When(HasAutoscaling(sc), serving) \o When(sc.tier = "public", public)
  BY Zenon DEF Build
<1>2. /\ first \in Seq(All) /\ storing \in Seq(All) /\ template \in Seq(All)
      /\ always \in Seq(All) /\ serving \in Seq(All) /\ public \in Seq(All)
  OBVIOUS
<1>3. Has(always, "NetworkPolicy") /\ Has(always, "ServiceMonitor")
  <2>1. 2 \in DOMAIN always /\ always[2] = "NetworkPolicy"
    OBVIOUS
  <2>2. 4 \in DOMAIN always /\ always[4] = "ServiceMonitor"
    OBVIOUS
  <2> HIDE DEF always
  <2> QED BY <2>1, <2>2 DEF Has
<1>4. Has(serving, "Service") /\ Has(serving, "PodDisruptionBudget")
  <2>1. 1 \in DOMAIN serving /\ serving[1] = "Service"
    OBVIOUS
  <2>2. 3 \in DOMAIN serving /\ serving[3] = "PodDisruptionBudget"
    OBVIOUS
  <2> HIDE DEF serving
  <2> QED BY <2>1, <2>2 DEF Has
<1>5. Has(public, "Ingress")
  <2>1. 1 \in DOMAIN public /\ public[1] = "Ingress"
    OBVIOUS
  <2> HIDE DEF public
  <2> QED BY <2>1 DEF Has
<1> HIDE DEF first, storing, template, always, serving, public, All
<1>6. \A c : \A t \in Seq(All) : When(c, t) \in Seq(All)
  BY EmptySeq DEF When
<1>7. PICK a \in Seq(All) :
        a = first \o When(HasStorage(sc, FALSE), storing) \o When(HasCanaryAnalysis(sc), template)
  BY <1>2, <1>6, ConcatHas
<1>8. PICK b \in Seq(All), d \in Seq(All), e \in Seq(All) :
        /\ b = always /\ d = When(HasAutoscaling(sc), serving)
        /\ e = When(sc.tier = "public", public)
  BY <1>2, <1>6
<1>9. a \o b \in Seq(All) /\ (a \o b) \o d \in Seq(All)
  BY ConcatHas
<1>10. Build(sc, FALSE) = ((a \o b) \o d) \o e
  BY <1>1, <1>7, <1>8, Zenon
<1>11. \A x : Has(b, x) \/ Has(d, x) \/ Has(e, x) => Has(Build(sc, FALSE), x)
  BY <1>9, <1>10, HasConcat
<1>12. \A x \in Kinds : Has(Build(sc, FALSE), x) => x \in Needed(sc)
  BY DEF Has, Needed, Plan
<1>13. sc.tier # "batch" => d = serving
  BY <1>8, ExposureSpecsAssumption DEF Tiers, When, HasAutoscaling
<1>14. sc.tier = "public" => e = public
  BY <1>8 DEF When
<1>15. {"NetworkPolicy", "ServiceMonitor"} \subseteq Needed(sc)
  BY <1>3, <1>8, <1>11, <1>12 DEF Kinds
<1>16. sc.tier # "batch" => {"Service", "PodDisruptionBudget"} \subseteq Needed(sc)
  BY <1>4, <1>11, <1>12, <1>13 DEF Kinds
<1>17. sc.tier = "public" => "Ingress" \in Needed(sc)
  BY <1>5, <1>11, <1>12, <1>14 DEF Kinds
<1> QED BY <1>15, <1>16, <1>17

(* What Build returns depends on the tier alone, without storage. *)
LEMMA BuildByTier ==
  ASSUME NEW a \in Specs, NEW b \in Specs, a.tier = b.tier
  PROVE  Needed(a) = Needed(b)
<1>1. ~HasStorage(a, FALSE) /\ ~HasStorage(b, FALSE)
  BY DEF HasStorage
<1>2. Build(a, FALSE) = Build(b, FALSE)
  BY <1>1, Zenon DEF Build, When, HasCanaryAnalysis, HasAutoscaling
<1> QED BY <1>2 DEF Needed, Plan

-----------------------------------------------------------------------------
(* Types *)

Templates == {PodTemplate(s) : s \in Specs} \cup {None}

(* The object an apply writes, and what it leaves. *)
LEMMA Applied ==
  ASSUME TypeOK, ApplyNext
  PROVE  \E i \in todo :
           /\ cur \in Specs /\ KindAt(i) \in Kinds
           /\ todo' = todo \ {i}
           /\ DOMAIN objs' = Kinds
           /\ objs'[KindAt(i)] = Rendered(cur)[KindAt(i)]
           /\ \A k \in Kinds : k # KindAt(i) => objs'[k] = objs[k]
<1>1. PICK i \in todo : /\ objs' = [objs EXCEPT ![KindAt(i)] = Rendered(cur)[KindAt(i)]]
                        /\ todo' = todo \ {i}
  BY DEF ApplyNext, Content
<1>2. cur \in Specs /\ KindAt(i) \in Kinds /\ DOMAIN objs = Kinds
  BY <1>1 DEF TypeOK
<1>3. PICK k, x : k = KindAt(i) /\ x = Rendered(cur)[KindAt(i)]
  OBVIOUS
<1>4. objs' = [objs EXCEPT ![k] = x]
  BY <1>1, <1>3
<1>5. DOMAIN objs' = Kinds /\ objs'[k] = x /\ \A j \in Kinds : j # k => objs'[j] = objs[j]
  BY <1>2, <1>3, <1>4
<1> QED BY <1>1, <1>2, <1>3, <1>5

(* What Argo Rollouts is asked to run is some claim's pods. *)
LEMMA WantedType == ASSUME TypeOK PROVE Wanted \in Templates
<1>1. CASE objs["Rollout"] = None
  BY <1>1 DEF Wanted, Templates
<1>2. CASE objs["Rollout"] # None
  <2>1. PICK s \in Specs : objs["Rollout"] = Rendered(s)["Rollout"]
    BY <1>2 DEF TypeOK, Kinds
  <2>2. Rendered(s)["Rollout"].pods = PodTemplate(s)
    BY DEF Rendered
  <2> QED BY <1>2, <2>1, <2>2 DEF Wanted, Templates
<1> QED BY <1>1, <1>2

(* Steps that leave the reconcile and the objects alone. *)
LEMMA ReconcileHolds ==
  ASSUME TypeOK, UNCHANGED <<cur, todo, objs>>
  PROVE  /\ cur' \in Specs \cup {None} /\ ((cur = None) <=> (todo = {}))'
         /\ (\A i \in todo : KindAt(i) \in Kinds)' /\ DOMAIN objs' = Kinds
         /\ \A k \in Kinds : objs'[k] \in {Rendered(s)[k] : s \in Specs} \cup {None}
BY DEF TypeOK, KindAt

LEMMA TypeInit == ASSUME Init PROVE TypeOK
<1>1. view \in Specs /\ watch \in Seq(Specs)
  BY EmptySeq DEF Init
<1> QED BY <1>1 DEF Init, TypeOK

(* Steps that leave the claim and its cache alone. *)
LEMMA ClaimHolds ==
  ASSUME TypeOK, UNCHANGED <<spec, view, watch>>
  PROVE  spec' \in Specs /\ view' \in Specs /\ watch' \in Seq(Specs)
BY DEF TypeOK

(* A delivery takes the oldest version out of the watch, and an edit adds  *)
(* the newest to it.                                                       *)
LEMMA DeliverTypes ==
  ASSUME TypeOK, DeliverClaim
  PROVE  /\ view' \in Specs /\ watch' \in Seq(Specs)
         /\ {view'} \cup Range(watch') \subseteq Range(watch)
<1>1. PICK w \in Seq(Specs) : w = watch /\ w # <<>>
  BY DEF TypeOK, DeliverClaim
<1>2. PICK t \in Seq(Specs) : t = Tail(w) /\ Len(t) = Len(w) - 1
                             /\ \A i \in 1 .. Len(t) : t[i] = w[i + 1]
  BY <1>1, HeadTailProperties
<1>3. Len(w) \in Nat \ {0} /\ Len(t) \in Nat
  BY <1>1, EmptySeq, LenProperties
<1>4. Head(w) = w[1] /\ 1 \in DOMAIN w /\ DOMAIN w = 1 .. Len(w) /\ DOMAIN t = 1 .. Len(t)
  BY <1>1, <1>3
<1>5. Head(w) \in Range(w)
  BY <1>4 DEF Range
<1>6. ASSUME NEW x \in Range(t) PROVE x \in Range(w)
  <2>1. PICK i \in DOMAIN t : x = t[i]
    BY <1>6 DEF Range
  <2>2. i + 1 \in DOMAIN w /\ x = w[i + 1]
    BY <1>2, <1>3, <1>4, <2>1
  <2> QED BY <2>2 DEF Range
<1>7. Head(w) \in Specs
  BY <1>1, HeadTailProperties
<1>8. view' = Head(w) /\ watch' = t
  BY <1>1, <1>2 DEF DeliverClaim
<1> QED BY <1>1, <1>5, <1>6, <1>7, <1>8

LEMMA EditTypes ==
  ASSUME TypeOK, EditSpec
  PROVE  /\ spec' \in Specs /\ watch' \in Seq(Specs)
         /\ Range(watch') \subseteq Range(watch) \cup {spec'}
<1>1. spec' \in Specs /\ watch \in Seq(Specs) /\ watch' = Append(watch, spec')
  BY DEF TypeOK, EditSpec
<1>2. PICK x \in Specs, u \in Seq(Specs) : x = spec' /\ u = Append(watch, x) /\ u = watch'
  BY <1>1, AppendProperties
<1>3. /\ DOMAIN u = 1 .. Len(watch) + 1 /\ DOMAIN watch = 1 .. Len(watch) /\ Len(watch) \in Nat
      /\ u[Len(watch) + 1] = x /\ \A i \in 1 .. Len(watch) : u[i] = watch[i]
  BY <1>1, <1>2
<1>4. ASSUME NEW y \in Range(u) PROVE y \in Range(watch) \cup {x}
  <2>1. PICK i \in DOMAIN u : y = u[i]
    BY <1>4 DEF Range
  <2>2. i \in DOMAIN watch \/ i = Len(watch) + 1
    BY <1>3, <2>1
  <2> QED BY <1>3, <2>1, <2>2 DEF Range
<1> QED BY <1>1, <1>2, <1>4

LEMMA TypeStep == ASSUME TypeOK, [Next]_vars PROVE TypeOK'
<1>1. CASE EditSpec
  <2>1. settled' \in BOOLEAN
    BY <1>1 DEF EditSpec, TypeOK, SamePath
  <2>2. spec' \in Specs /\ view' \in Specs /\ watch' \in Seq(Specs)
    BY <1>1, EditTypes DEF EditSpec, TypeOK
  <2> QED BY <1>1, <2>1, <2>2, ReconcileHolds DEF EditSpec, TypeOK
<1>9. CASE DeliverClaim
  <2>1. spec' \in Specs /\ view' \in Specs /\ watch' \in Seq(Specs)
    BY <1>9, DeliverTypes DEF DeliverClaim, TypeOK
  <2> QED BY <1>9, <2>1, ReconcileHolds DEF DeliverClaim, TypeOK
<1>2. CASE Read
  <2>1. cur' = view /\ view \in Specs
    BY <1>2 DEF Read, TypeOK
  <2>2. todo' # {}
    <3>1. "NetworkPolicy" \in Needed(view)
      BY <2>1, BuildHas
    <3> QED BY <1>2, <3>1 DEF Needed, Read
  <2>3. (\A i \in todo : KindAt(i) \in Kinds)'
    BY <1>2, <2>1 DEF Read, Plan, KindAt
  <2>4. cur' # None
    BY <2>1, NoneAssumption
  <2> QED BY <1>2, <2>1, <2>2, <2>3, <2>4, ClaimHolds DEF Read, TypeOK
<1>3. CASE ApplyNext
  <2>1. PICK i \in todo :
          /\ cur \in Specs /\ KindAt(i) \in Kinds
          /\ todo' = todo \ {i}
          /\ DOMAIN objs' = Kinds
          /\ objs'[KindAt(i)] = Rendered(cur)[KindAt(i)]
          /\ \A k \in Kinds : k # KindAt(i) => objs'[k] = objs[k]
    BY <1>3, Applied
  <2>2. \A k \in Kinds : objs'[k] \in {Rendered(s)[k] : s \in Specs} \cup {None}
    BY <2>1 DEF TypeOK
  <2>3. /\ cur' \in Specs \cup {None} /\ applied' \in Specs \cup {None} /\ settled' \in BOOLEAN
        /\ (cur' = None) <=> (todo' = {})
    BY <1>3, <2>1 DEF ApplyNext, TypeOK, Unanimous
  <2>4. (\A j \in todo : KindAt(j) \in Kinds)'
    <3>1. todo' # {} => cur' = cur
      BY <1>3 DEF ApplyNext
    <3> QED BY <2>1, <3>1 DEF TypeOK, KindAt
  <2> QED BY <1>3, <2>1, <2>2, <2>3, <2>4, ClaimHolds DEF ApplyNext, TypeOK
<1>4. CASE ApplyFails
  BY <1>4, ClaimHolds DEF ApplyFails, TypeOK
<1>5. CASE StartPods
  <2>1. {stable', canary', aborted'} \subseteq Templates
    BY <1>5, WantedType DEF StartPods, TypeOK, Templates
  <2> QED BY <1>5, <2>1, ReconcileHolds, ClaimHolds DEF StartPods, TypeOK, Templates
<1>6. CASE Promote
  BY <1>6, ReconcileHolds, ClaimHolds DEF Promote, TypeOK
<1>7. CASE Abort
  BY <1>7, ReconcileHolds, ClaimHolds DEF Abort, TypeOK
<1>8. CASE UNCHANGED vars
  BY <1>8, ReconcileHolds, ClaimHolds DEF vars, TypeOK
<1> QED BY <1>1, <1>2, <1>3, <1>4, <1>5, <1>6, <1>7, <1>8, <1>9 DEF Next

(***************************************************************************)
(* The objects are always what Build makes of one spec or another, the     *)
(* pods what Argo Rollouts was once asked to run, and a reconcile keeps to *)
(* the kinds of the spec it read.                                          *)
(***************************************************************************)
THEOREM TypeCorrect == Spec => []TypeOK
<1>1. Init => TypeOK
  BY TypeInit
<1>2. TypeOK /\ [Next]_vars => TypeOK'
  BY TypeStep
<1> QED BY <1>1, <1>2, PTL DEF Spec

-----------------------------------------------------------------------------
(* What the objects hold *)

(* What the reconcile has applied so far is what it read. *)
ProgressInv ==
  cur # None =>
    \A i \in Plan(cur) \ todo : objs[KindAt(i)] = Rendered(cur)[KindAt(i)]

(* While every object was last applied for a spec, the policy is that      *)
(* spec's, and so is a reconcile in progress.                              *)
AppliedInv ==
  applied # None =>
    /\ objs["NetworkPolicy"] = BuildNetworkPolicy(applied)
    /\ cur \in {None, applied}

(* Object k holds what a spec with this tier and port makes of it. *)
HoldsFor(k, sc) == \E s \in Specs : SamePath(s, sc) /\ objs[k] = Rendered(s)[k]

(* While the tier and the port are settled, so are the objects they need.  *)
(* A reconcile in progress read them too, and so will any later one, from  *)
(* whatever version its cache has.                                         *)
SettledInv ==
  settled =>
    /\ Unanimous(spec)
    /\ cur # None => SamePath(cur, spec)
    /\ \A k \in Needed(spec) : HoldsFor(k, spec)

LEMMA ProgressStep ==
  ASSUME TypeOK, ProgressInv, [Next]_vars PROVE ProgressInv'
<1>1. CASE UNCHANGED <<cur, todo, objs>>
  BY <1>1 DEF ProgressInv, KindAt
<1>2. CASE Read
  BY <1>2 DEF Read, ProgressInv, KindAt
<1>3. CASE ApplyNext
  <2>1. PICK i \in todo :
          /\ cur \in Specs /\ KindAt(i) \in Kinds
          /\ todo' = todo \ {i}
          /\ DOMAIN objs' = Kinds
          /\ objs'[KindAt(i)] = Rendered(cur)[KindAt(i)]
          /\ \A k \in Kinds : k # KindAt(i) => objs'[k] = objs[k]
    BY <1>3, Applied
  <2>2. ASSUME cur' = cur, NEW j \in Plan(cur) \ todo'
        PROVE  objs'[KindAt(j)] = Rendered(cur)[KindAt(j)]
    <3>1. KindAt(j) \in Kinds
      BY <2>2 DEF Plan, KindAt
    <3>2. KindAt(j) # KindAt(i) => objs[KindAt(j)] = Rendered(cur)[KindAt(j)]
      BY <2>1, <2>2 DEF ProgressInv, TypeOK
    <3> QED BY <2>1, <3>1, <3>2
  <2>3. cur' # None => cur' = cur
    BY <1>3 DEF ApplyNext
  <2>4. ASSUME cur' # None, NEW j \in Plan(cur') \ todo'
        PROVE  objs'[KindAt(j)'] = Rendered(cur')[KindAt(j)']
    <3>1. cur' = cur
      BY <2>3, <2>4
    <3>2. KindAt(j)' = KindAt(j)
      BY <3>1 DEF KindAt
    <3> QED BY <2>2, <2>4, <3>1, <3>2
  <2> QED BY <2>4 DEF ProgressInv
<1>4. CASE ApplyFails
  BY <1>4 DEF ApplyFails, ProgressInv
<1> QED BY <1>1, <1>2, <1>3, <1>4
        DEF Next, EditSpec, DeliverClaim, StartPods, Promote, Abort, vars

(* The apply that ends a reconcile leaves every object it needs as read. *)
LEMMA LastApply ==
  ASSUME TypeOK, ProgressInv, ApplyNext, todo' = {}
  PROVE  cur \in Specs /\ \A k \in Needed(cur) : k \in Kinds /\ objs'[k] = Rendered(cur)[k]
<1>1. PICK i \in todo :
        /\ cur \in Specs /\ KindAt(i) \in Kinds
        /\ todo' = todo \ {i}
        /\ DOMAIN objs' = Kinds
        /\ objs'[KindAt(i)] = Rendered(cur)[KindAt(i)]
        /\ \A k \in Kinds : k # KindAt(i) => objs'[k] = objs[k]
  BY Applied
<1>2. ASSUME NEW k \in Needed(cur) PROVE k \in Kinds /\ objs'[k] = Rendered(cur)[k]
  <2>1. PICK j \in Plan(cur) : k = KindAt(j)
    BY <1>2 DEF Needed, KindAt
  <2>2. k \in Kinds
    BY <2>1 DEF Plan, KindAt
  <2>3. k # KindAt(i) => objs[k] = Rendered(cur)[k]
    BY <1>1, <2>1, NoneAssumption DEF ProgressInv
  <2> QED BY <1>1, <2>2, <2>3
<1> QED BY <1>1, <1>2

LEMMA AppliedStep ==
  ASSUME TypeOK, ProgressInv, AppliedInv, [Next]_vars PROVE AppliedInv'
<1>1. CASE UNCHANGED <<cur, objs, applied>>
  BY <1>1 DEF AppliedInv
<1>2. CASE Read
  BY <1>2 DEF Read, AppliedInv
<1>3. CASE ApplyNext
  <2>1. CASE todo' = {}
    <3>1. objs'["NetworkPolicy"] = Rendered(cur)["NetworkPolicy"]
      BY <1>3, <2>1, LastApply, BuildHas
    <3>2. Rendered(cur)["NetworkPolicy"] = BuildNetworkPolicy(cur)
      BY DEF Rendered
    <3> QED BY <1>3, <2>1, <3>1, <3>2 DEF ApplyNext, AppliedInv
  <2>2. CASE todo' # {}
    <3>1. cur' = cur /\ applied' = applied
      BY <1>3, <2>2 DEF ApplyNext
    <3>2. PICK i \in todo :
            /\ cur \in Specs /\ KindAt(i) \in Kinds
            /\ objs'[KindAt(i)] = Rendered(cur)[KindAt(i)]
            /\ \A k \in Kinds : k # KindAt(i) => objs'[k] = objs[k]
      BY <1>3, Applied
    <3>3. ASSUME applied # None PROVE objs'["NetworkPolicy"] = BuildNetworkPolicy(applied)
      <4>1. cur = applied
        BY <3>2, <3>3, NoneAssumption DEF AppliedInv
      <4>2. CASE KindAt(i) = "NetworkPolicy"
        BY <3>2, <4>1, <4>2 DEF Rendered
      <4>3. CASE KindAt(i) # "NetworkPolicy"
        BY <3>2, <3>3, <4>3 DEF AppliedInv, Kinds
      <4> QED BY <4>2, <4>3
    <3> QED BY <3>1, <3>3 DEF AppliedInv
  <2> QED BY <2>1, <2>2
<1>4. CASE ApplyFails
  BY <1>4 DEF ApplyFails, AppliedInv
<1> QED BY <1>1, <1>2, <1>3, <1>4
        DEF Next, EditSpec, DeliverClaim, StartPods, Promote, Abort, vars

(* A spec of the same path needs the same objects, and they hold for it    *)
(* too.                                                                    *)
LEMMA PathCarries ==
  ASSUME NEW a \in Specs, NEW b \in Specs, SamePath(a, b),
         \A k \in Needed(a) : HoldsFor(k, a)
  PROVE  \A k \in Needed(b) : HoldsFor(k, b)
<1>1. Needed(a) = Needed(b)
  BY BuildByTier DEF SamePath
<1> QED BY <1>1 DEF HoldsFor, SamePath

LEMMA SettledStep ==
  ASSUME TypeOK, ProgressInv, SettledInv, [Next]_vars PROVE SettledInv'
<1>1. CASE UNCHANGED <<spec, view, watch, cur, objs, settled>>
  BY <1>1 DEF SettledInv, HoldsFor, Unanimous
<1>6. CASE DeliverClaim
  <2>1. settled => Unanimous(spec)'
    BY <1>6, DeliverTypes DEF DeliverClaim, SettledInv, Unanimous
  <2> QED BY <1>6, <2>1 DEF DeliverClaim, SettledInv, HoldsFor
<1>2. CASE EditSpec
  <2>1. spec \in Specs /\ spec' \in Specs /\ UNCHANGED <<view, cur, objs>>
    BY <1>2 DEF EditSpec, TypeOK
  <2>2. ASSUME settled' PROVE settled /\ SamePath(spec, spec')
    BY <1>2, <2>2 DEF EditSpec, SamePath, TypeOK
  <2>3. ASSUME settled' PROVE \A k \in Needed(spec') : HoldsFor(k, spec')
    BY <2>1, <2>2, <2>3, PathCarries DEF SettledInv
  <2>4. ASSUME settled', cur' # None PROVE SamePath(cur', spec')
    BY <2>1, <2>2, <2>4 DEF SettledInv, SamePath
  <2>5. ASSUME settled' PROVE Unanimous(spec)'
    <3>1. \A v \in {spec, view} \cup Range(watch) : SamePath(spec, v)
      BY <2>2, <2>5 DEF SettledInv, Unanimous
    <3>2. ASSUME NEW v \in {spec', view'} \cup Range(watch') PROVE SamePath(spec', v)
      <4>1. v \in {spec, view} \cup Range(watch) \/ v = spec'
        BY <1>2, <2>1, <3>2, EditTypes
      <4> QED BY <2>2, <2>5, <3>1, <4>1 DEF SamePath
    <3> QED BY <3>2 DEF Unanimous
  <2> QED BY <2>1, <2>3, <2>4, <2>5 DEF SettledInv, HoldsFor
<1>3. CASE Read
  <2>1. settled => SamePath(view, spec)
    BY DEF SettledInv, Unanimous, SamePath
  <2> QED BY <1>3, <2>1 DEF Read, SettledInv, HoldsFor, Unanimous
<1>4. CASE ApplyNext
  <2>1. PICK i \in todo :
          /\ cur \in Specs /\ KindAt(i) \in Kinds
          /\ objs'[KindAt(i)] = Rendered(cur)[KindAt(i)]
          /\ \A k \in Kinds : k # KindAt(i) => objs'[k] = objs[k]
    BY <1>4, Applied
  <2>2. /\ spec \in Specs /\ spec' = spec /\ (cur' # None => cur' = cur)
        /\ Unanimous(spec)' <=> Unanimous(spec)
    BY <1>4 DEF ApplyNext, TypeOK, Unanimous
  <2>3. CASE settled
    <3>1. SamePath(cur, spec)
      BY <2>1, <2>3, NoneAssumption DEF SettledInv
    <3>2. ASSUME NEW k \in Needed(spec)
          PROVE  \E s \in Specs : SamePath(s, spec) /\ objs'[k] = Rendered(s)[k]
      <4>1. k \in Kinds
        BY <3>2 DEF Needed, Plan
      <4>2. CASE k = KindAt(i)
        BY <2>1, <3>1, <4>2
      <4>3. CASE k # KindAt(i)
        BY <2>1, <2>3, <3>2, <4>1, <4>3 DEF SettledInv, HoldsFor
      <4> QED BY <4>2, <4>3
    <3> QED BY <2>2, <2>3, <3>1, <3>2 DEF SettledInv, HoldsFor
  <2>4. CASE ~settled
    <3>1. CASE todo' # {}
      BY <1>4, <2>4, <3>1 DEF ApplyNext, SettledInv
    <3>2. CASE todo' = {}
      <4>1. cur' = None /\ settled' = (settled \/ Unanimous(cur))
        BY <1>4, <3>2 DEF ApplyNext
      <4>2. ASSUME settled', NEW k \in Needed(spec)
            PROVE  \E s \in Specs : SamePath(s, spec) /\ objs'[k] = Rendered(s)[k]
        <5>1. SamePath(cur, spec)
          BY <2>4, <4>1, <4>2 DEF Unanimous
        <5>2. k \in Needed(cur)
          BY <2>1, <2>2, <4>2, <5>1, BuildByTier DEF SamePath
        <5> QED BY <1>4, <2>1, <3>2, <5>1, <5>2, LastApply
      <4>3. settled' => Unanimous(spec)
        BY <2>4, <4>1 DEF Unanimous, SamePath
      <4> QED BY <2>2, <4>1, <4>2, <4>3 DEF SettledInv, HoldsFor
    <3> QED BY <3>1, <3>2
  <2> QED BY <2>3, <2>4
<1>5. CASE ApplyFails
  BY <1>5 DEF ApplyFails, SettledInv, HoldsFor, Unanimous
<1> QED BY <1>1, <1>2, <1>3, <1>4, <1>5, <1>6
        DEF Next, StartPods, Promote, Abort, vars

-----------------------------------------------------------------------------
(* Who reaches the pods *)

Inv == TypeOK /\ ProgressInv /\ AppliedInv /\ SettledInv

LEMMA InvHolds == Spec => []Inv
<1>1. Init => Inv
  BY TypeInit DEF Init, Inv, ProgressInv, AppliedInv, SettledInv
<1>2. Inv /\ [Next]_vars => Inv'
  BY TypeStep, ProgressStep, AppliedStep, SettledStep DEF Inv
<1> QED BY <1>1, <1>2, PTL DEF Spec

(***************************************************************************)
(* Whatever a claim was before, once everything was applied for a tier     *)
(* that is not public its policy lets the ingress controller reach no pod, *)
(* old or new, though nothing prunes the Ingress (BuildNetworkPolicy).     *)
(***************************************************************************)
THEOREM PublicOnly == Spec => []OnlyPublicIsPublic
<1>1. ASSUME Inv PROVE OnlyPublicIsPublic
  <2> SUFFICES ASSUME applied # None, applied.tier # "public", NEW pod \in Pods,
                      Admits(pod, "traefik")
               PROVE  FALSE
    BY DEF OnlyPublicIsPublic, FromOutside, ThroughService
  <2>1. objs["NetworkPolicy"] = BuildNetworkPolicy(applied) /\ applied \in Specs
    BY <1>1 DEF Inv, AppliedInv, TypeOK
  <2>2. Exists("NetworkPolicy")
    <3>1. Rendered(applied)["NetworkPolicy"] # None
      BY <2>1, NoneAssumption DEF Kinds
    <3>2. Rendered(applied)["NetworkPolicy"] = BuildNetworkPolicy(applied)
      BY DEF Rendered
    <3> QED BY <2>1, <3>1, <3>2 DEF Exists
  <2>3. PICK r \in BuildNetworkPolicy(applied) : "traefik" \in r.from
    BY <2>1, <2>2 DEF Admits
  <2>4. \/ r = Rule({"monitoring"}, {applied.port})
        \/ r = Rule({"own namespace", "platform-system"}, {AnyPort})
    BY <2>3 DEF BuildNetworkPolicy
  <2>5. r.from = {"monitoring"} \/ r.from = {"own namespace", "platform-system"}
    <3>1. \A f, p : Rule(f, p).from = f
      BY DEF Rule
    <3> QED BY <2>4, <3>1, Zenon
  <2>6. "traefik" \notin {"monitoring"} /\ "traefik" \notin {"own namespace", "platform-system"}
    OBVIOUS
  <2> QED BY <2>3, <2>5, <2>6, Zenon
<1> QED BY <1>1, InvHolds, PTL

(* A settled object is there. *)
LEMMA SettledExists ==
  ASSUME NEW k \in Kinds, NEW s \in Specs, objs[k] = Rendered(s)[k]
  PROVE  Exists(k)
BY NoneAssumption DEF Exists

(* Who a policy lets in, by its tier (BuildNetworkPolicy). *)
LEMMA PolicyAdmits ==
  ASSUME NEW s \in Specs, NEW pod, objs["NetworkPolicy"] = BuildNetworkPolicy(s)
  PROVE  /\ pod.port = s.port => Admits(pod, "monitoring")
         /\ s.tier # "batch" => Admits(pod, "platform-system")
         /\ s.tier = "public" /\ pod.port = s.port => Admits(pod, "traefik")
<1>1. s.tier \in Tiers
  BY ExposureSpecsAssumption
<1>2. Rule({"monitoring"}, {s.port}) \in BuildNetworkPolicy(s)
  BY DEF BuildNetworkPolicy
<1>3. s.tier # "batch" =>
        Rule({"own namespace", "platform-system"}, {AnyPort}) \in BuildNetworkPolicy(s)
  BY <1>1 DEF BuildNetworkPolicy, Tiers
<1>4. s.tier = "public" => Rule({"traefik"}, {s.port}) \in BuildNetworkPolicy(s)
  BY DEF BuildNetworkPolicy
<1>5. \A f, p : Rule(f, p).from = f /\ Rule(f, p).ports = p
  BY DEF Rule
<1>6. ASSUME pod.port = s.port PROVE Admits(pod, "monitoring")
  <2>1. PICK r \in BuildNetworkPolicy(s) : r.from = {"monitoring"} /\ r.ports = {s.port}
    BY <1>2, <1>5
  <2>2. "monitoring" \in r.from /\ r.ports \cap {AnyPort, pod.port} # {}
    BY <1>6, <2>1
  <2> QED BY <2>2 DEF Admits
<1>7. ASSUME s.tier # "batch" PROVE Admits(pod, "platform-system")
  <2>1. PICK r \in BuildNetworkPolicy(s) :
          r.from = {"own namespace", "platform-system"} /\ r.ports = {AnyPort}
    BY <1>3, <1>5, <1>7
  <2>2. "platform-system" \in r.from /\ r.ports \cap {AnyPort, pod.port} # {}
    BY <2>1
  <2> QED BY <2>2 DEF Admits
<1>8. ASSUME s.tier = "public", pod.port = s.port PROVE Admits(pod, "traefik")
  <2>1. PICK r \in BuildNetworkPolicy(s) : r.from = {"traefik"} /\ r.ports = {s.port}
    BY <1>4, <1>5, <1>8
  <2>2. "traefik" \in r.from /\ r.ports \cap {AnyPort, pod.port} # {}
    BY <1>8, <2>1
  <2> QED BY <2>2 DEF Admits
<1> QED BY <1>6, <1>7, <1>8

(***************************************************************************)
(* Through every edit, cut-off reconcile, canary and abort, whatever       *)
(* version of the claim the cache has, the pods on the port a claim has    *)
(* settled on keep being reached, scraped and counted: each object they    *)
(* depend on stays one that this tier and port make, and the selectors     *)
(* name nothing that can be edited (SelectorLabels).                       *)
(***************************************************************************)
THEOREM ServingKept == Spec => []KeepsServing
<1>1. ASSUME Inv PROVE KeepsServing
  <2> SUFFICES ASSUME settled, spec.tier # "batch", NEW pod \in Pods, pod.port = spec.port
               PROVE  /\ ThroughService(pod, "platform-system")
                      /\ spec.tier = "public" => FromOutside(pod)
                      /\ Scraped(pod)
                      /\ Covered(pod)
    BY DEF KeepsServing
  <2>1. spec \in Specs /\ \A k \in Needed(spec) : HoldsFor(k, spec)
    BY <1>1 DEF Inv, TypeOK, SettledInv
  <2>2. /\ HoldsFor("NetworkPolicy", spec) /\ HoldsFor("ServiceMonitor", spec)
        /\ HoldsFor("Service", spec) /\ HoldsFor("PodDisruptionBudget", spec)
        /\ spec.tier = "public" => HoldsFor("Ingress", spec)
    BY <2>1, BuildHas
  <2>3. /\ "NetworkPolicy" \in Kinds /\ "ServiceMonitor" \in Kinds /\ "Service" \in Kinds
        /\ "PodDisruptionBudget" \in Kinds /\ "Ingress" \in Kinds
    BY DEF Kinds
  <2>4. <<"name", "claim">> \in pod.labels
    <3>1. PICK s \in Specs : pod = PodTemplate(s)
      BY <1>1 DEF Inv, TypeOK, Pods
    <3> QED BY <3>1 DEF PodTemplate, Labels
  <2>5. /\ Admits(pod, "monitoring") /\ Admits(pod, "platform-system")
        /\ spec.tier = "public" => Admits(pod, "traefik")
    <3>1. PICK s \in Specs :
            SamePath(s, spec) /\ objs["NetworkPolicy"] = Rendered(s)["NetworkPolicy"]
      BY <2>2 DEF HoldsFor
    <3>2. Rendered(s)["NetworkPolicy"] = BuildNetworkPolicy(s)
      BY DEF Rendered
    <3> QED BY <3>1, <3>2, PolicyAdmits DEF SamePath
  <2>6. /\ Exists("Service") /\ objs["Service"].selector \subseteq pod.labels
        /\ <<"name", "claim">> \in objs["Service"].labels
    <3>1. PICK s \in Specs : objs["Service"] = Rendered(s)["Service"]
      BY <2>2 DEF HoldsFor
    <3>2. Rendered(s)["Service"] = BuildService(s)
      BY DEF Rendered
    <3>3. BuildService(s).selector = {<<"name", "claim">>} /\ BuildService(s).labels = Labels(s)
      BY DEF BuildService, SelectorLabels
    <3> QED BY <2>3, <2>4, <3>1, <3>2, <3>3, SettledExists DEF Labels
  <2>7. /\ Exists("ServiceMonitor")
        /\ objs["ServiceMonitor"].selector \subseteq objs["Service"].labels
    <3>1. PICK s \in Specs : objs["ServiceMonitor"] = Rendered(s)["ServiceMonitor"]
      BY <2>2 DEF HoldsFor
    <3>2. Rendered(s)["ServiceMonitor"] = BuildServiceMonitor(s)
      BY DEF Rendered
    <3>3. BuildServiceMonitor(s).selector = {<<"name", "claim">>}
      BY DEF BuildServiceMonitor, SelectorLabels
    <3> QED BY <2>3, <2>6, <3>1, <3>2, <3>3, SettledExists
  <2>8. Covered(pod)
    <3>1. PICK s \in Specs : objs["PodDisruptionBudget"] = Rendered(s)["PodDisruptionBudget"]
      BY <2>2 DEF HoldsFor
    <3>2. Rendered(s)["PodDisruptionBudget"] = BuildPodDisruptionBudget(s)
      BY DEF Rendered
    <3>3. BuildPodDisruptionBudget(s).selector = {<<"name", "claim">>}
      BY DEF BuildPodDisruptionBudget, SelectorLabels
    <3> QED BY <2>3, <2>4, <3>1, <3>2, <3>3, SettledExists DEF Covered
  <2>9. spec.tier = "public" => Exists("Ingress")
    BY <2>2, <2>3, SettledExists DEF HoldsFor
  <2> QED BY <2>5, <2>6, <2>7, <2>8, <2>9 DEF ThroughService, FromOutside, Scraped
<1> QED BY <1>1, InvHolds, PTL
=============================================================================
