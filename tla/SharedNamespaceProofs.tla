----------------------- MODULE SharedNamespaceProofs -----------------------
(***************************************************************************)
(* Machine-checked proofs about SharedNamespace, for every set of home     *)
(* namespaces and every bound: any number of claims of one name contend    *)
(* for the Namespace svc-<name>.                                           *)
(***************************************************************************)
EXTENDS SharedNamespace, InformerLemmas, TLAPS

-----------------------------------------------------------------------------
(* Type correctness *)

(* What a Namespace can be read as, from the cache or the API server. *)
MaybeNamespace == Namespaces \cup {Absent}

(* The cache shows a Namespace as it is, or not at all. *)
LEMMA VisibleType ==
  ASSUME NEW n \in MaybeNamespace
  PROVE  Visible(n) \in MaybeNamespace
BY DEF Visible, MaybeNamespace

(* Only homes are ever queued for a Namespace's event. *)
LEMMA ClaimForObjectType ==
  ASSUME NEW n \in MaybeNamespace
  PROVE  claimForObject(n) \subseteq Homes
BY DEF claimForObject, MaybeNamespace, Namespaces

(* Storing a Namespace keeps it, and its versions under way, well typed. *)
LEMMA StoreType ==
  ASSUME TypeOK, NEW n \in MaybeNamespace, StoreNamespace(n)
  PROVE  ns' \in MaybeNamespace /\ nsWatch' \in Seq(MaybeNamespace)
<1>1. ns' = n
  BY DEF StoreNamespace
<1>2. nsWatch \in Seq(MaybeNamespace)
  BY DEF TypeOK, MaybeNamespace
<1>3. CASE n = ns
  BY <1>1, <1>2, <1>3 DEF StoreNamespace
<1>4. CASE n # ns
  <2>1. Visible(n) \in MaybeNamespace
    BY VisibleType
  <2> QED BY <1>1, <1>2, <1>4, <2>1 DEF StoreNamespace
<1> QED BY <1>3, <1>4

(* What the controller, a user or the API server makes of a Namespace. *)
LEMMA NamespaceSteps ==
  ASSUME TypeOK
  PROVE  /\ Absent \in MaybeNamespace
         /\ \A h \in Homes : BuildNamespace(h) \in MaybeNamespace
         /\ ns # Absent =>
              /\ ns \in Namespaces
              /\ [ns EXCEPT !.phase = "terminating"] \in MaybeNamespace
              /\ [ns EXCEPT !.managed = FALSE] \in MaybeNamespace
              /\ [ns EXCEPT !.owner = NoLabel] \in MaybeNamespace
BY DEF TypeOK, MaybeNamespace, Namespaces, BuildNamespace

(* Every step keeps TypeOK. *)
LEMMA NextType ==
  ASSUME TypeOK, [Next]_vars
  PROVE  TypeOK'
<1> USE DEF TypeOK
<1>1. ASSUME NEW h \in Homes, Begin(h) PROVE TypeOK'
  BY <1>1 DEF Begin
<1>2. ASSUME NEW h \in Homes, CreateClaim(h) PROVE TypeOK'
  BY <1>2, SharedAssumption DEF CreateClaim
<1>3. ASSUME NEW h \in Homes, DeleteClaim(h) PROVE TypeOK'
  BY <1>3 DEF DeleteClaim
<1>4. CASE AddFinalizer
  BY <1>4 DEF AddFinalizer, Return
<1>5. CASE ApplyNamespace
  <2>1. ns' \in MaybeNamespace /\ nsWatch' \in Seq(MaybeNamespace)
    BY <1>5, NamespaceSteps, StoreType DEF ApplyNamespace
  <2> QED BY <1>5, <2>1 DEF ApplyNamespace, Return, MaybeNamespace
<1>6. CASE Finalize
  <2>1. ns' \in MaybeNamespace /\ nsWatch' \in Seq(MaybeNamespace)
    BY <1>6, NamespaceSteps, StoreType DEF Finalize, MaybeNamespace
  <2> QED BY <1>6, <2>1 DEF Finalize, Return, MaybeNamespace
<1>7. CASE DeliverNamespace
  <2>1. Head(nsWatch) \in MaybeNamespace /\ Tail(nsWatch) \in Seq(MaybeNamespace)
    BY <1>7 DEF DeliverNamespace, MaybeNamespace
  <2>2. queued' \subseteq Homes
    BY <1>7, <2>1, ClaimForObjectType DEF DeliverNamespace, MaybeNamespace
  <2> QED BY <1>7, <2>1, <2>2 DEF DeliverNamespace, MaybeNamespace
<1>8. CASE Restart
  <2>1. Visible(ns) \in MaybeNamespace
    BY VisibleType DEF MaybeNamespace
  <2> QED BY <1>8, <2>1, SharedAssumption DEF Restart, MaybeNamespace
<1>9. CASE TamperNamespace
  <2>1. ns' \in MaybeNamespace /\ nsWatch' \in Seq(MaybeNamespace)
    BY <1>9, NamespaceSteps, StoreType DEF TamperNamespace
  <2> QED BY <1>9, <2>1, SharedAssumption DEF TamperNamespace, MaybeNamespace
<1>10. CASE RemoveNamespace
  <2>1. ns' \in MaybeNamespace /\ nsWatch' \in Seq(MaybeNamespace)
    BY <1>10, NamespaceSteps, StoreType DEF RemoveNamespace
  <2> QED BY <1>10, <2>1 DEF RemoveNamespace, MaybeNamespace
<1>11. CASE UNCHANGED vars
  BY <1>11 DEF vars
<1> QED BY <1>1, <1>2, <1>3, <1>4, <1>5, <1>6, <1>7, <1>8, <1>9, <1>10, <1>11 DEF Next

(***************************************************************************)
(* Every reachable state is well typed; in particular an event about a     *)
(* Namespace without claim labels queues nobody (claimForObject).          *)
(***************************************************************************)
THEOREM TypeCorrect == Spec => []TypeOK
<1>1. Init => TypeOK
  BY SharedAssumption DEF Init, TypeOK
<1>2. TypeOK /\ [Next]_vars => TypeOK'
  BY NextType
<1> QED BY <1>1, <1>2, PTL DEF Spec

-----------------------------------------------------------------------------
(***************************************************************************)
(* Who holds the Namespace.  OwnerHoldsNamespace is not inductive: to      *)
(* apply the Namespace is safe only while the claim being reconciled is    *)
(* held, and to release a finalizer only if the cache shows what is        *)
(* stored.                                                                 *)
(***************************************************************************)

(* The claim a reconcile works on is still in the phase it began in, or    *)
(* further along.                                                          *)
WorkerKnowsClaim ==
  /\ pc = "apply" => claims[cur] \in {"held", "going"}
  /\ pc = "finalize" => claims[cur] = "going"

(* The newest version under way, or else the cached one, is what can be    *)
(* seen of the stored Namespace.                                           *)
NewestIsStored ==
  IF nsWatch = <<>> THEN nsView = Visible(ns) ELSE nsWatch[Len(nsWatch)] = Visible(ns)

OwnerInv == WorkerKnowsClaim /\ NewestIsStored /\ OwnerHoldsNamespace

(* Storing a Namespace puts what is visible of it last on its way. *)
LEMMA StoreNewest ==
  ASSUME TypeOK, NewestIsStored, NEW n \in MaybeNamespace, StoreNamespace(n),
         nsView' = nsView
  PROVE  NewestIsStored'
<1>1. CASE n = ns
  BY <1>1 DEF StoreNamespace, NewestIsStored, Visible
<1>2. CASE n # ns
  <2>1. nsWatch \in Seq(MaybeNamespace) /\ Visible(n) \in MaybeNamespace
    BY VisibleType DEF TypeOK, MaybeNamespace
  <2>2. nsWatch' = Append(nsWatch, Visible(n)) /\ ns' = n
    BY <1>2 DEF StoreNamespace
  <2>3. nsWatch' # <<>> /\ nsWatch'[Len(nsWatch')] = Visible(n)
    BY <2>1, <2>2
  <2> QED BY <2>2, <2>3 DEF NewestIsStored, Visible
<1> QED BY <1>1, <1>2

(* With nothing undelivered, a Namespace finalize may not touch is not the *)
(* claim's, and one it deletes is.                                         *)
LEMMA CacheDecides ==
  ASSUME NewestIsStored, nsWatch = <<>>
  PROVE  /\ Released => ~(ns # Absent /\ ns.managed /\ ns.owner = cur)
         /\ Deletable => ns # Absent /\ ns.managed /\ ns.owner = cur
BY DEF NewestIsStored, Released, Deletable, Mine, belongsTo, Visible

(* With an up-to-date cache in finalize, every step keeps OwnerInv. *)
LEMMA OwnerInvStep ==
  ASSUME ~NsLag, TypeOK, OwnerInv, [Next]_vars
  PROVE  OwnerInv'
<1> USE DEF OwnerInv
<1>1. ASSUME NEW h \in Homes, Begin(h) PROVE OwnerInv'
  <2>1. WorkerKnowsClaim'
    BY <1>1 DEF Begin, WorkerKnowsClaim, TypeOK
  <2> QED BY <1>1, <2>1 DEF Begin, NewestIsStored, OwnerHoldsNamespace, Visible
<1>2. ASSUME NEW h \in Homes, CreateClaim(h) PROVE OwnerInv'
  BY <1>2 DEF CreateClaim, WorkerKnowsClaim, NewestIsStored, OwnerHoldsNamespace, Visible, TypeOK,
              Namespaces
<1>3. ASSUME NEW h \in Homes, DeleteClaim(h) PROVE OwnerInv'
  BY <1>3 DEF DeleteClaim, WorkerKnowsClaim, NewestIsStored, OwnerHoldsNamespace, Visible, TypeOK,
              Namespaces
<1>4. CASE AddFinalizer
  BY <1>4 DEF AddFinalizer, Return, WorkerKnowsClaim, NewestIsStored, OwnerHoldsNamespace, Visible,
              TypeOK, Namespaces
<1>5. CASE ApplyNamespace
  <2>1. BuildNamespace(cur) \in MaybeNamespace
    BY NamespaceSteps DEF TypeOK
  <2>2. NewestIsStored'
    BY <1>5, <2>1, StoreNewest DEF ApplyNamespace
  <2>3. OwnerHoldsNamespace'
    BY <1>5 DEF ApplyNamespace, StoreNamespace, BuildNamespace, WorkerKnowsClaim, OwnerHoldsNamespace
  <2> QED BY <1>5, <2>2, <2>3 DEF ApplyNamespace, Return, WorkerKnowsClaim
<1>6. CASE Finalize
  <2>1. nsWatch = <<>> /\ pc' = "idle"
    BY <1>6 DEF Finalize, Return
  <2>2. CASE Released /\ claims' = [claims EXCEPT ![cur] = "none"] /\ UNCHANGED <<ns, nsWatch>>
    <3>1. ~(ns # Absent /\ ns.managed /\ ns.owner = cur)
      BY <2>1, <2>2, CacheDecides
    <3>2. OwnerHoldsNamespace'
      BY <2>2, <3>1 DEF OwnerHoldsNamespace, TypeOK, Namespaces
    <3> QED BY <1>6, <2>1, <2>2, <3>2 DEF Finalize, WorkerKnowsClaim, NewestIsStored, Visible
  <2>3. CASE /\ Deletable /\ UNCHANGED claims
             /\ StoreNamespace(IF ns = Absent THEN Absent ELSE [ns EXCEPT !.phase = "terminating"])
    <3> DEFINE n == IF ns = Absent THEN Absent ELSE [ns EXCEPT !.phase = "terminating"]
    <3>1. n \in MaybeNamespace
      BY NamespaceSteps
    <3>2. NewestIsStored'
      BY <1>6, <2>3, <3>1, StoreNewest DEF Finalize
    <3>3. OwnerHoldsNamespace'
      BY <2>3 DEF StoreNamespace, OwnerHoldsNamespace, TypeOK, Namespaces
    <3> QED BY <2>1, <3>2, <3>3 DEF WorkerKnowsClaim
  <2>4. CASE UNCHANGED <<claims, ns, nsWatch>>
    BY <1>6, <2>1, <2>4 DEF Finalize, WorkerKnowsClaim, NewestIsStored, OwnerHoldsNamespace, Visible
  <2> QED BY <1>6, <2>2, <2>3, <2>4 DEF Finalize
<1>7. CASE DeliverNamespace
  <2>1. NewestIsStored'
    BY <1>7, WatchEnds DEF DeliverNamespace, NewestIsStored, Visible, TypeOK, MaybeNamespace
  <2> QED BY <1>7, <2>1 DEF DeliverNamespace, WorkerKnowsClaim, OwnerHoldsNamespace
<1>8. CASE Restart
  BY <1>8 DEF Restart, WorkerKnowsClaim, NewestIsStored, OwnerHoldsNamespace, Visible
<1>9. CASE TamperNamespace
  <2>1. PICK n \in MaybeNamespace :
          /\ StoreNamespace(n)
          /\ n # Absent /\ n.managed /\ n.owner # NoLabel =>
               ns # Absent /\ ns.managed /\ ns.owner = n.owner
    <3>1. ns \in Namespaces
      BY <1>9, NamespaceSteps DEF TamperNamespace
    <3>2. CASE StoreNamespace([ns EXCEPT !.managed = FALSE])
      BY <1>9, <3>1, <3>2, NamespaceSteps DEF TamperNamespace, Namespaces
    <3>3. CASE StoreNamespace([ns EXCEPT !.owner = NoLabel])
      BY <1>9, <3>1, <3>3, NamespaceSteps DEF TamperNamespace, Namespaces
    <3>4. CASE StoreNamespace([ns EXCEPT !.phase = "terminating"])
      BY <1>9, <3>1, <3>4, NamespaceSteps DEF TamperNamespace, Namespaces
    <3> QED BY <1>9, <3>2, <3>3, <3>4 DEF TamperNamespace
  <2>2. NewestIsStored'
    BY <1>9, <2>1, StoreNewest DEF TamperNamespace
  <2>3. ns' = n
    BY <2>1 DEF StoreNamespace
  <2> QED BY <1>9, <2>1, <2>2, <2>3 DEF TamperNamespace, WorkerKnowsClaim, OwnerHoldsNamespace
<1>10. CASE RemoveNamespace
  <2>1. NewestIsStored'
    BY <1>10, NamespaceSteps, StoreNewest DEF RemoveNamespace
  <2> QED BY <1>10, <2>1 DEF RemoveNamespace, StoreNamespace, WorkerKnowsClaim, OwnerHoldsNamespace
<1>11. CASE UNCHANGED vars
  BY <1>11 DEF vars, WorkerKnowsClaim, NewestIsStored, OwnerHoldsNamespace, Visible
<1> QED BY <1>1, <1>2, <1>3, <1>4, <1>5, <1>6, <1>7, <1>8, <1>9, <1>10, <1>11 DEF Next

(* At first there is neither a claim nor a Namespace. *)
LEMMA OwnerInvInit == Init => OwnerInv
BY DEF Init, OwnerInv, WorkerKnowsClaim, NewestIsStored, OwnerHoldsNamespace, Visible

(***************************************************************************)
(* If finalize reads an up-to-date Namespace cache, a Namespace that       *)
(* carries the platform's labels is held by the claim they name, however   *)
(* many claims of the name relabel it, are deleted and come back           *)
(* (finalize, belongsTo, BuildNamespace).                                  *)
(***************************************************************************)
THEOREM NamespaceHeld ==
  ASSUME ~NsLag
  PROVE  Spec => []OwnerHoldsNamespace
<1>1. Init => OwnerInv
  BY OwnerInvInit
<1>2. TypeOK /\ OwnerInv /\ [Next]_vars => OwnerInv'
  BY OwnerInvStep
<1>3. OwnerInv => OwnerHoldsNamespace
  BY DEF OwnerInv
<1> QED BY <1>1, <1>2, <1>3, TypeCorrect, PTL DEF Spec
=============================================================================
