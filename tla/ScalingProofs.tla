---------------------------- MODULE ScalingProofs ----------------------------
(***************************************************************************)
(* For every set of claim specs with positive bounds: the HPA's bounds are *)
(* in order, no apply of the Rollout changes a count the HPA chose, and a  *)
(* claim that stays public loses no stage on its way to two pods.          *)
(***************************************************************************)
EXTENDS Scaling, InformerLemmas

(* The bounds a builder gives the HPA, whatever the claim's min and max:   *)
(* at least one pod, and the ceiling raised to the floor (MinReplicas,     *)
(* BuildHPA).                                                              *)
LEMMA BuiltBounds ==
  ASSUME NEW s \in Specs
  PROVE  /\ BuildHPA(s).min \in Nat /\ BuildHPA(s).max \in Nat
         /\ 1 <= BuildHPA(s).min /\ BuildHPA(s).min <= BuildHPA(s).max
<1>1. s.min \in Nat \ {0} /\ s.max \in Nat \ {0}
  BY SpecsAssumption
<1>2. MinReplicas(s) \in Nat /\ 1 <= MinReplicas(s)
  BY <1>1 DEF MinReplicas, Larger, publicMinReplicas
<1> QED BY <1>1, <1>2 DEF BuildHPA, Larger

(* A tier with an HPA leaves the count to it (BuildRollout). *)
LEMMA LeftToHPA ==
  ASSUME NEW s, HasAutoscaling(s)
  PROVE  RolloutReplicas(s) = 0
BY DEF RolloutReplicas

(* The HPA's bounds come from a builder, and are numbers. *)
HPABuilt ==
  hpa # NoHPA =>
    /\ hpa.min \in Nat /\ hpa.max \in Nat
    /\ 1 <= hpa.min /\ hpa.min <= hpa.max

(* A count the HPA chose is never 0: an HPA that could scale to nothing    *)
(* would leave a Rollout the next apply takes for a new one.               *)
ScaledIsSet == manager = "hpa" => replicas # 0

(* The newest version, in the cache or on its way, is the stored one. *)
NewestIsStored ==
  /\ watch = <<>> => view = spec
  /\ watch # <<>> => watch[Len(watch)] = spec

ScalingInv ==
  /\ spec \in Specs /\ cur \in Specs
  /\ view \in Specs /\ watch \in Seq(Specs)
  /\ NewestIsStored
  /\ HPABuilt
  /\ ScaledIsSet

(* A cluster before the first reconcile has neither HPA nor count. *)
LEMMA ScalingInvInit == Init => ScalingInv
<1>1. Init => watch \in Seq(Specs)
  BY EmptySeq DEF Init
<1> QED BY <1>1 DEF Init, ScalingInv, NewestIsStored, HPABuilt, ScaledIsSet

(* An edit adds the newest version to the watch. *)
LEMMA EditAppends ==
  ASSUME ScalingInv, EditSpec
  PROVE  /\ spec' \in Specs /\ watch' \in Seq(Specs) /\ NewestIsStored'
         /\ Range(watch') \subseteq Range(watch) \cup {spec'}
<1>1. spec' \in Specs /\ watch \in Seq(Specs) /\ watch' = Append(watch, spec')
  BY DEF ScalingInv, EditSpec
<1>2. PICK x \in Specs, u \in Seq(Specs) : x = spec' /\ u = Append(watch, x) /\ u = watch'
  BY <1>1, AppendProperties
<1>3. /\ DOMAIN u = 1 .. Len(watch) + 1 /\ DOMAIN watch = 1 .. Len(watch) /\ Len(watch) \in Nat
      /\ Len(u) = Len(watch) + 1
      /\ u[Len(watch) + 1] = x /\ \A i \in 1 .. Len(watch) : u[i] = watch[i]
  BY <1>1, <1>2
<1>4. ASSUME NEW y \in Range(u) PROVE y \in Range(watch) \cup {x}
  <2>1. PICK i \in DOMAIN u : y = u[i]
    BY <1>4 DEF Range
  <2>2. i \in DOMAIN watch \/ i = Len(watch) + 1
    BY <1>3, <2>1
  <2> QED BY <1>3, <2>1, <2>2 DEF Range
<1>5. u # <<>> /\ u[Len(u)] = x
  BY <1>3, LastIndex
<1> QED BY <1>1, <1>2, <1>4, <1>5 DEF NewestIsStored

(* A delivery moves the oldest version into the cache. *)
LEMMA DeliverMoves ==
  ASSUME ScalingInv, DeliverClaim
  PROVE  /\ view' \in Specs /\ watch' \in Seq(Specs) /\ NewestIsStored'
         /\ {view'} \cup Range(watch') \subseteq Range(watch)
<1>1. PICK w \in Seq(Specs) : w = watch /\ w # <<>>
  BY DEF ScalingInv, DeliverClaim
<1>2. PICK t \in Seq(Specs) : t = Tail(w) /\ Len(t) = Len(w) - 1
                             /\ \A i \in 1 .. Len(t) : t[i] = w[i + 1]
  BY <1>1, HeadTailProperties
<1>3. Len(w) \in Nat \ {0} /\ Len(t) \in Nat
  BY <1>1, EmptySeq, LenProperties
<1>4. Head(w) = w[1] /\ 1 \in DOMAIN w /\ DOMAIN w = 1 .. Len(w) /\ DOMAIN t = 1 .. Len(t)
  BY <1>1, <1>3
<1>5. Head(w) \in Range(w)
  BY <1>4 DEF Range
<1>6. ASSUME NEW x \in Range(t) PROVE x \in Range(w)
  <2>1. PICK i \in DOMAIN t : x = t[i]
    BY <1>6 DEF Range
  <2>2. i + 1 \in DOMAIN w /\ x = w[i + 1]
    BY <1>2, <1>3, <1>4, <2>1
  <2> QED BY <2>2 DEF Range
<1>7. Head(w) \in Specs
  BY <1>1, HeadTailProperties
<1>8. view' = Head(w) /\ watch' = t /\ spec' = spec
  BY <1>1, <1>2 DEF DeliverClaim
<1>9. w[Len(w)] = spec
  BY <1>1 DEF ScalingInv, NewestIsStored
<1>10. NewestIsStored'
  <2>1. t = <<>> => Head(w) = w[Len(w)]
    BY <1>1, <1>2, WatchEnds
  <2>2. t # <<>> => t[Len(t)] = w[Len(w)]
    BY <1>1, <1>2, WatchEnds
  <2> QED BY <1>8, <1>9, <2>1, <2>2 DEF NewestIsStored
<1> QED BY <1>1, <1>5, <1>6, <1>7, <1>8, <1>10

(* Every step of reconcile, user or HPA keeps ScalingInv. *)
LEMMA ScalingInvStep ==
  ASSUME ScalingInv, [Next]_vars
  PROVE  ScalingInv'
<1> USE DEF ScalingInv
<1>1. CASE EditSpec
  BY <1>1, EditAppends DEF EditSpec, HPABuilt, ScaledIsSet
<1>2. CASE DeliverClaim
  BY <1>2, DeliverMoves DEF DeliverClaim, HPABuilt, ScaledIsSet
<1> DEFINE CacheHolds == UNCHANGED <<spec, view, watch>>
<1>7. ASSUME CacheHolds
      PROVE  /\ spec' \in Specs /\ view' \in Specs /\ watch' \in Seq(Specs)
             /\ NewestIsStored'
  BY <1>7 DEF NewestIsStored
<1>8. CASE Read \/ ApplyFails
  BY <1>7, <1>8 DEF Read, ApplyFails, HPABuilt, ScaledIsSet
<1>3. CASE ApplyRollout
  <2>1. HPABuilt' /\ cur' \in Specs /\ CacheHolds
    BY <1>3 DEF ApplyRollout, HPABuilt
  <2>2. ScaledIsSet'
    BY <1>3 DEF ApplyRollout, ScaledIsSet
  <2> QED BY <1>7, <2>1, <2>2
<1>4. CASE ApplyHPA
  <2>1. HPABuilt'
    BY <1>4, BuiltBounds DEF ApplyHPA, HPABuilt
  <2> QED BY <1>4, <1>7, <2>1 DEF ApplyHPA, ScaledIsSet
<1>5. CASE Scale
  <2>1. PICK n \in hpa.min .. hpa.max : replicas' = n
    BY <1>5 DEF Scale
  <2>2. n # 0
    BY <1>5, <2>1 DEF Scale, HPABuilt
  <2> QED BY <1>5, <1>7, <2>1, <2>2 DEF Scale, HPABuilt, ScaledIsSet
<1>6. CASE UNCHANGED vars
  BY <1>6, <1>7 DEF vars, HPABuilt, ScaledIsSet
<1> QED BY <1>1, <1>2, <1>3, <1>4, <1>5, <1>6, <1>8 DEF Next

(* ScalingInv is an invariant of every reconcile, edit and scaling. *)
THEOREM ScalingInvHolds == Spec => []ScalingInv
<1>1. ScalingInv /\ [Next]_vars => ScalingInv'
  BY ScalingInvStep
<1> QED BY <1>1, ScalingInvInit, PTL DEF Spec

(* Whatever min and max claims ask for, and however often tier and bounds  *)
(* are edited in the middle of a reconcile, the HPA is one the API server  *)
(* accepts (BuildHPA, MinReplicas).                                        *)
THEOREM BoundsAlwaysValid == Spec => []HPABoundsValid
<1>1. ScalingInv => HPABoundsValid
  BY DEF ScalingInv, HPABuilt, HPABoundsValid
<1> QED BY <1>1, ScalingInvHolds, PTL

(* The action of NeverFight. *)
LeavesCount ==
  pc = "rollout" /\ pc' = "hpa" /\ manager = "hpa" /\ HasAutoscaling(cur)
    => replicas' = replicas

(* An apply of the Rollout of a claim that has an HPA leaves the count the *)
(* HPA chose alone (BuildRollout, ADR-008).                                *)
THEOREM NeverFights == Spec => NeverFight
<1>1. ScalingInv /\ [Next]_vars => [LeavesCount]_vars
  <2> SUFFICES ASSUME ScalingInv, [Next]_vars,
                      pc = "rollout", pc' = "hpa", manager = "hpa", HasAutoscaling(cur)
               PROVE  replicas' = replicas
    BY DEF LeavesCount
  <2>1. CASE ApplyRollout
    <3>1. RolloutReplicas(cur) = 0
      BY LeftToHPA
    <3>2. replicas # 0
      BY DEF ScalingInv, ScaledIsSet
    <3> QED BY <2>1, <3>1, <3>2 DEF ApplyRollout
  <2>2. CASE EditSpec \/ DeliverClaim
    BY <2>2 DEF EditSpec, DeliverClaim
  <2>3. CASE Read \/ ApplyFails
    BY <2>3 DEF Read, ApplyFails
  <2>4. CASE ApplyHPA
    BY <2>4 DEF ApplyHPA
  <2>5. CASE Scale
    BY <2>5 DEF Scale
  <2>6. CASE UNCHANGED vars
    BY <2>6 DEF vars
  <2> QED BY <2>1, <2>2, <2>3, <2>4, <2>5, <2>6 DEF Next
<1> QED BY <1>1, ScalingInvHolds, PTL DEF Spec, NeverFight, LeavesCount

-----------------------------------------------------------------------------
(* How a claim that stays public comes to have two pods, and keeps them:   *)
(* the stages of PublicFloor.  Each one contains the next.                 *)

(* Both ends of a step see a public claim. *)
StaysPublic == spec.tier = "public" /\ spec'.tier = "public"

(* The cache has a version since the claim is public, and nothing older is *)
(* on its way to it.                                                       *)
CaughtUp == \A v \in {view} \cup Range(watch) : v.tier = "public"

(* No reconcile is left that still works from another tier. *)
ReadPublic == CaughtUp /\ (pc = "idle" \/ cur.tier = "public")

(* The Rollout exists, and the controller does not hold its count. *)
HandedOver == ReadPublic /\ manager # "paved" /\ replicas # 0

(* The HPA has the bounds of a public claim, not those of an earlier tier. *)
Bounded == HandedOver /\ hpa # NoHPA /\ hpa.min >= publicMinReplicas

AtFloor == Bounded /\ replicas >= publicMinReplicas

(* A step of a claim that stays public falls back to no earlier stage. *)
KeepsStages ==
  /\ CaughtUp => CaughtUp'
  /\ ReadPublic => ReadPublic'
  /\ HandedOver => HandedOver'
  /\ Bounded => Bounded'
  /\ AtFloor => AtFloor'

(* The step that leads from each stage to the next; to the first, any that *)
(* leaves nothing to deliver.                                              *)
ReachesStages ==
  /\ watch' = <<>> => CaughtUp'
  /\ CaughtUp /\ Read => ReadPublic'
  /\ ReadPublic /\ ApplyRollout => HandedOver'
  /\ HandedOver /\ ApplyHPA => Bounded'
  /\ Bounded /\ Scale => AtFloor'

(* A public claim's HPA does not go below two pods (MinReplicas). *)
LEMMA PublicBounds ==
  ASSUME NEW s \in Specs, s.tier = "public"
  PROVE  HasAutoscaling(s) /\ BuildHPA(s).min >= publicMinReplicas
<1>1. s.min \in Nat \ {0}
  BY SpecsAssumption
<1> QED BY <1>1 DEF HasAutoscaling, BuildHPA, MinReplicas, Larger, publicMinReplicas

(* The apply of a public claim's Rollout leaves a count it did not set,    *)
(* and gives one that it did set back to the default.                      *)
LEMMA RolloutHandsOver ==
  ASSUME ScalingInv, ApplyRollout, ReadPublic
  PROVE  HandedOver' /\ (HandedOver => replicas' = replicas)
<1>1. cur.tier = "public"
  BY DEF ReadPublic, ApplyRollout
<1>2. RolloutReplicas(cur) = 0
  BY <1>1, PublicBounds, LeftToHPA DEF ScalingInv
<1>3. ReadPublic'
  BY <1>1 DEF ApplyRollout, ReadPublic, CaughtUp
<1> QED BY <1>2, <1>3 DEF ApplyRollout, HandedOver, DefaultReplicas


(* The apply of its HPA gives that a public claim's bounds. *)
LEMMA HPABounds ==
  ASSUME ScalingInv, ApplyHPA, ReadPublic
  PROVE  ReadPublic' /\ hpa' # NoHPA /\ hpa'.min >= publicMinReplicas
<1>1. cur \in Specs /\ cur.tier = "public"
  BY DEF ReadPublic, ApplyHPA, ScalingInv
<1>2. hpa' = BuildHPA(cur) /\ hpa'.min >= publicMinReplicas
  BY <1>1, PublicBounds DEF ApplyHPA
<1> QED BY <1>1, <1>2, NoHPAAssumption DEF ApplyHPA, ReadPublic, CaughtUp

(* The HPA's controller stays above the floor of its bounds. *)
LEMMA ScaleReaches ==
  ASSUME ScalingInv, Scale, Bounded
  PROVE  AtFloor'
<1>1. PICK n \in hpa.min .. hpa.max : replicas' = n
  BY DEF Scale
<1>2. hpa.min \in Nat /\ hpa.max \in Nat /\ hpa.min >= 2
  BY DEF Bounded, ScalingInv, HPABuilt, publicMinReplicas
<1>3. n >= 2 /\ n # 0
  BY <1>2
<1>4. Bounded'
  BY <1>1, <1>3 DEF Scale, Bounded, HandedOver, ReadPublic, CaughtUp
<1> QED BY <1>1, <1>3, <1>4 DEF AtFloor, publicMinReplicas

(* What FloorStages says of one step. *)
LEMMA StagesStep ==
  ASSUME ScalingInv, [Next]_vars, StaysPublic
  PROVE  KeepsStages /\ ReachesStages
<1>1. ReachesStages
  <2>1. ASSUME watch' = <<>> PROVE CaughtUp'
    <3>1. view' = spec'
      BY <2>1, ScalingInvStep DEF ScalingInv, NewestIsStored
    <3>2. Range(watch') = {}
      BY <2>1, EmptySeq DEF Range
    <3> QED BY <3>1, <3>2 DEF CaughtUp, StaysPublic
  <2>2. ASSUME HandedOver, ApplyHPA PROVE Bounded'
    BY <2>2, HPABounds DEF ApplyHPA, HandedOver, Bounded
  <2>3. ASSUME CaughtUp, Read PROVE ReadPublic'
    BY <2>3 DEF Read, ReadPublic, CaughtUp
  <2> QED BY <2>1, <2>2, <2>3, RolloutHandsOver, ScaleReaches DEF ReachesStages
<1>2. KeepsStages
  <2>1. CASE EditSpec \/ DeliverClaim
    <3>1. CaughtUp => CaughtUp'
      BY <2>1, EditAppends, DeliverMoves DEF EditSpec, CaughtUp, StaysPublic
    <3> QED BY <2>1, <3>1
            DEF EditSpec, DeliverClaim, KeepsStages, ReadPublic, HandedOver, Bounded, AtFloor
  <2>2. CASE Read \/ ApplyFails
    <3>1. CaughtUp => CaughtUp' /\ ReadPublic'
      BY <2>2 DEF Read, ApplyFails, CaughtUp, ReadPublic
    <3>2. UNCHANGED <<replicas, manager, hpa>>
      BY <2>2 DEF Read, ApplyFails
    <3> QED BY <3>1, <3>2 DEF KeepsStages, ReadPublic, HandedOver, Bounded, AtFloor
  <2>7. ASSUME UNCHANGED <<view, watch>> PROVE CaughtUp => CaughtUp'
    BY <2>7 DEF CaughtUp
  <2>3. CASE ApplyRollout
    <3>1. ReadPublic => HandedOver' /\ (HandedOver => replicas' = replicas)
      BY <2>3, RolloutHandsOver
    <3>2. hpa' = hpa /\ UNCHANGED <<view, watch>>
      BY <2>3 DEF ApplyRollout
    <3> QED BY <2>7, <3>1, <3>2 DEF KeepsStages, HandedOver, Bounded, AtFloor
  <2>4. CASE ApplyHPA
    <3>1. ReadPublic => ReadPublic' /\ hpa' # NoHPA /\ hpa'.min >= publicMinReplicas
      BY <2>4, HPABounds
    <3>2. replicas' = replicas /\ manager' = manager /\ UNCHANGED <<view, watch>>
      BY <2>4 DEF ApplyHPA
    <3> QED BY <2>7, <3>1, <3>2 DEF KeepsStages, HandedOver, Bounded, AtFloor
  <2>5. CASE Scale
    <3>1. (CaughtUp => CaughtUp') /\ (ReadPublic => ReadPublic')
      BY <2>5, <2>7 DEF Scale, ReadPublic
    <3>2. HandedOver => HandedOver'
      BY <2>5, <3>1, ScalingInvStep DEF Scale, HandedOver, ScalingInv, ScaledIsSet
    <3> QED BY <2>5, <3>1, <3>2, ScaleReaches DEF KeepsStages, AtFloor
  <2>6. CASE UNCHANGED vars
    BY <2>6, <2>7 DEF vars, KeepsStages, ReadPublic, HandedOver, Bounded, AtFloor
  <2> QED BY <2>1, <2>2, <2>3, <2>4, <2>5, <2>6 DEF Next
<1> QED BY <1>1, <1>2

(* The safety half of PublicFloor, for every set of specs: while a claim   *)
(* stays public no step of edit, reconcile or HPA loses a stage on the way *)
(* to two pods, the pods themselves included, and the reconcile's steps    *)
(* and the HPA's, in their order, reach the stages: a reconcile from the   *)
(* time on when its cache has caught up (BuildRollout, BuildHPA,           *)
(* MinReplicas, ADR-008).                                                  *)
THEOREM FloorStages == Spec => [][StaysPublic => KeepsStages /\ ReachesStages]_vars
<1>1. ScalingInv /\ [Next]_vars => [StaysPublic => KeepsStages /\ ReachesStages]_vars
  BY StagesStep
<1> QED BY <1>1, ScalingInvHolds, PTL DEF Spec

(* The HPA that has a public claim's bounds has nothing to wait for: below *)
(* the floor, the count is out of its bounds and there is one within them. *)
THEOREM FloorCalls ==
  Spec => [](Bounded /\ ~AtFloor =>
               /\ replicas # 0 /\ replicas \notin hpa.min .. hpa.max
               /\ \E n \in hpa.min .. hpa.max : n # replicas)
<1>1. ASSUME ScalingInv, Bounded, ~AtFloor
      PROVE  /\ replicas # 0 /\ replicas \notin hpa.min .. hpa.max
             /\ \E n \in hpa.min .. hpa.max : n # replicas
  <2>1. hpa.min \in Nat /\ hpa.max \in Nat /\ hpa.min <= hpa.max /\ hpa.min >= 2
    BY <1>1 DEF Bounded, ScalingInv, HPABuilt, publicMinReplicas
  <2>2. replicas \notin hpa.min .. hpa.max
    BY <1>1, <2>1 DEF AtFloor, publicMinReplicas
  <2>3. replicas # 0
    BY <1>1 DEF Bounded, HandedOver
  <2> QED BY <2>1, <2>2, <2>3
<1> QED BY <1>1, ScalingInvHolds, PTL
=============================================================================
