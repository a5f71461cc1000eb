--------------------------- MODULE SharedNamespace ---------------------------
(***************************************************************************)
(* Claims of one name in different namespaces.  They are reconciled into   *)
(* the same Namespace, svc-<name>, whose labels say which of them it       *)
(* belongs to.  Nothing keeps such claims from being created, so the       *)
(* reconciles of two of them, and the finalizer of either, share it.       *)
(*                                                                         *)
(* One worker reconciles all claims, one at a time.  Its cache of          *)
(* Namespaces lags, and holds only those labelled managed-by=paved.  The   *)
(* lag of the claim cache, and all that a reconcile does inside the        *)
(* Namespace, are left to Reconciler.                                      *)
(***************************************************************************)
EXTENDS Naturals, Sequences

CONSTANTS
  Homes,       \* namespaces a claim of the name can be created in
  NoLabel,     \* the Namespace has no claim labels
  Absent,      \* there is no Namespace
  NsLag,       \* whether finalize may read a Namespace cache that lags
  MaxClaims,   \* bound: claims created
  MaxTampers,  \* bound: labels others remove from the Namespace, or its deletions
  MaxRestarts, \* bound: restarts of the controller
  MaxLag       \* bound: versions the informer has yet to deliver

ASSUME SharedAssumption ==
  /\ NsLag \in BOOLEAN
  /\ {MaxClaims, MaxTampers, MaxRestarts, MaxLag} \subseteq Nat
  /\ NoLabel \notin Homes

VARIABLES
  claims,   \* each home's claim: "none", "new" (no finalizer yet), "held" or "going"
  ns,       \* the Namespace, or Absent
  nsView,   \* the Namespace in the cache
  nsWatch,  \* versions of it on their way to the cache
  queued,   \* homes whose claim is in the work queue or due to be
  pc,       \* where the worker is
  cur,      \* the home of the claim it reconciles
  created, tampers, restarts

vars == <<claims, ns, nsView, nsWatch, queued, pc, cur, created, tampers, restarts>>

Namespaces == [phase : {"active", "terminating"}, owner : Homes \cup {NoLabel}, managed : BOOLEAN]

TypeOK ==
  /\ claims \in [Homes -> {"none", "new", "held", "going"}]
  /\ ns \in Namespaces \cup {Absent}
  /\ nsView \in Namespaces \cup {Absent} /\ nsWatch \in Seq(Namespaces \cup {Absent})
  /\ queued \subseteq Homes
  /\ pc \in {"idle", "finalizer", "apply", "finalize"} /\ cur \in Homes
  /\ created \in 0 .. MaxClaims /\ tampers \in 0 .. MaxTampers
  /\ restarts \in 0 .. MaxRestarts

Init ==
  /\ claims = [h \in Homes |-> "none"]
  /\ ns = Absent /\ nsView = Absent /\ nsWatch = <<>>
  /\ queued = {} /\ pc = "idle" /\ cur \in Homes
  /\ created = 0 /\ tampers = 0 /\ restarts = 0

-----------------------------------------------------------------------------
(* The Namespace and its cache *)

(* What the cache holds of a version: one without the managed-by label is  *)
(* not there (managedObjectCache).                                         *)
Visible(n) == IF n # Absent /\ n.managed THEN n ELSE Absent

StoreNamespace(n) ==
  /\ n # ns => Len(nsWatch) < MaxLag
  /\ ns' = n
  /\ nsWatch' = IF n = ns THEN nsWatch ELSE Append(nsWatch, Visible(n))

(* Mutant: the managed-by label is only set on a new Namespace. *)
BuildNamespace_once(h) ==
  [phase |-> IF ns = Absent THEN "active" ELSE ns.phase, owner |-> h,
   managed |-> ns = Absent \/ ns.managed]

(* The Namespace a reconcile of h's claim applies: its own labels, by      *)
(* force, on whatever is there.                                            *)
BuildNamespace(h) ==
  [phase |-> IF ns = Absent THEN "active" ELSE ns.phase, owner |-> h, managed |-> TRUE]

belongsTo(n, h) == n.owner = h

(* Mutant: no check that the labels are there. *)
claimForObject_unlabelled(n) == IF n = Absent THEN {} ELSE {n.owner}

(* The claims an event about a version queues. *)
claimForObject(n) == IF n = Absent THEN {} ELSE {n.owner} \ {NoLabel}

-----------------------------------------------------------------------------
(* Reconcile *)

Return(requeue) ==
  /\ pc' = "idle"
  /\ queued' = IF requeue THEN queued \cup {cur} ELSE queued
  /\ UNCHANGED cur

Begin(h) ==
  /\ pc = "idle" /\ h \in queued
  /\ queued' = queued \ {h}
  /\ cur' = h
  /\ pc' = CASE claims[h] = "none" -> "idle"
             [] claims[h] = "new" -> "finalizer"
             [] claims[h] = "held" -> "apply"
             [] claims[h] = "going" -> "finalize"
  /\ UNCHANGED <<claims, ns, nsView, nsWatch, created, tampers, restarts>>

(* The finalizer precedes the Namespace.  A claim that is gone by now is   *)
(* an error, and the key is tried again.                                   *)
AddFinalizer ==
  /\ pc = "finalizer"
  /\ \/ /\ claims[cur] = "new"
        /\ claims' = [claims EXCEPT ![cur] = "held"]
        /\ pc' = "apply"
        /\ UNCHANGED <<queued, cur>>
     \/ /\ claims[cur] = "none"
        /\ Return(TRUE)
        /\ UNCHANGED claims
  /\ UNCHANGED <<ns, nsView, nsWatch, created, tampers, restarts>>

(* The rest of the reconcile follows.  Whether it succeeds, which it can't *)
(* in a Namespace that is terminating, the claim is reconciled again.      *)
ApplyNamespace ==
  /\ pc = "apply"
  /\ StoreNamespace(BuildNamespace(cur))
  /\ Return(TRUE)
  /\ UNCHANGED <<claims, nsView, created, tampers, restarts>>

(* The cached Namespace is there, and labelled for the claim. *)
Mine == nsView # Absent /\ belongsTo(nsView, cur)

(* And nobody has deleted it yet. *)
Deletable == Mine /\ nsView.phase = "active"

(* Mutants: a Namespace that is going is not waited for; one that is       *)
(* another's is waited for too.                                            *)
Released_going == ~Deletable
Released_absent == nsView = Absent

(* Nothing is left to wait for: there is no Namespace, or it is another's. *)
Released == ~Mine

(* The cached Namespace decides.  Not there, or another claim's: the       *)
(* finalizer is released.  Active: it is deleted, by name and whatever its *)
(* labels are now.  Terminating: look again later.                         *)
Finalize ==
  /\ pc = "finalize"
  /\ NsLag \/ nsWatch = <<>>
  /\ \/ /\ Released
        /\ claims' = [claims EXCEPT ![cur] = "none"]
        /\ Return(FALSE)
        /\ UNCHANGED <<ns, nsWatch>>
     \/ /\ Deletable
        /\ StoreNamespace(IF ns = Absent THEN Absent ELSE [ns EXCEPT !.phase = "terminating"])
        /\ Return(TRUE)
        /\ UNCHANGED claims
     \/ /\ ~Released /\ ~Deletable
        /\ Return(TRUE)
        /\ UNCHANGED <<claims, ns, nsWatch>>
  /\ UNCHANGED <<nsView, created, tampers, restarts>>

-----------------------------------------------------------------------------
(* The informer and the process *)

(* An event about a Namespace queues the claim it is labelled for, and on  *)
(* a change of labels the one it was labelled for too.                     *)
DeliverNamespace ==
  /\ nsWatch # <<>>
  /\ nsView' = Head(nsWatch)
  /\ nsWatch' = Tail(nsWatch)
  /\ queued' = queued \cup claimForObject(nsView) \cup claimForObject(Head(nsWatch))
  /\ UNCHANGED <<claims, ns, pc, cur, created, tampers, restarts>>

(* A new process lists the Namespaces it may cache, and queues every claim. *)
Restart ==
  /\ restarts < MaxRestarts
  /\ restarts' = restarts + 1
  /\ pc' = "idle"
  /\ queued' = {h \in Homes : claims[h] # "none"}
  /\ nsView' = Visible(ns) /\ nsWatch' = <<>>
  /\ UNCHANGED <<claims, ns, cur, created, tampers>>

-----------------------------------------------------------------------------
(* Users and the namespace controller *)

CreateClaim(h) ==
  /\ claims[h] = "none" /\ created < MaxClaims
  /\ claims' = [claims EXCEPT ![h] = "new"]
  /\ created' = created + 1
  /\ queued' = queued \cup {h}
  /\ UNCHANGED <<ns, nsView, nsWatch, pc, cur, tampers, restarts>>

DeleteClaim(h) ==
  /\ claims[h] \in {"new", "held"}
  /\ claims' = [claims EXCEPT ![h] = IF claims[h] = "new" THEN "none" ELSE "going"]
  /\ queued' = queued \cup {h}
  /\ UNCHANGED <<ns, nsView, nsWatch, pc, cur, created, tampers, restarts>>

(* Somebody removes the managed-by label or the claim labels, or deletes   *)
(* the Namespace.                                                          *)
TamperNamespace ==
  /\ ns # Absent /\ tampers < MaxTampers
  /\ tampers' = tampers + 1
  /\ \/ StoreNamespace([ns EXCEPT !.managed = FALSE])
     \/ StoreNamespace([ns EXCEPT !.owner = NoLabel])
     \/ StoreNamespace([ns EXCEPT !.phase = "terminating"])
  /\ UNCHANGED <<claims, nsView, queued, pc, cur, created, restarts>>

RemoveNamespace ==
  /\ ns # Absent /\ ns.phase = "terminating"
  /\ StoreNamespace(Absent)
  /\ UNCHANGED <<claims, nsView, queued, pc, cur, created, tampers, restarts>>

-----------------------------------------------------------------------------
Next ==
  \/ \E h \in Homes : Begin(h) \/ CreateClaim(h) \/ DeleteClaim(h)
  \/ AddFinalizer \/ ApplyNamespace \/ Finalize
  \/ DeliverNamespace \/ Restart \/ TamperNamespace \/ RemoveNamespace

Spec == Init /\ [][Next]_vars

(***************************************************************************)
(* Every queued claim gets its turn, a reconcile runs to its end, the      *)
(* watch delivers and a terminating Namespace is removed.                  *)
(***************************************************************************)
Fairness ==
  /\ \A h \in Homes : SF_vars(Begin(h))
  /\ WF_vars(AddFinalizer \/ ApplyNamespace \/ Finalize)
  /\ WF_vars(DeliverNamespace) /\ WF_vars(RemoveNamespace)

FairSpec == Spec /\ Fairness

-----------------------------------------------------------------------------
(* Properties *)

(***************************************************************************)
(* A Namespace that carries the platform's labels has the claim they name, *)
(* and that claim's finalizer is on it, so somebody will delete it: in     *)
(* whatever order two claims relabel it, are deleted and come back         *)
(* (finalize, belongsTo, BuildNamespace).                                  *)
(***************************************************************************)
OwnerHoldsNamespace ==
  ns # Absent /\ ns.managed /\ ns.owner # NoLabel => claims[ns.owner] \in {"held", "going"}

(***************************************************************************)
(* Every deleted claim goes away, though another claim keeps relabelling   *)
(* or recreating the Namespace it waits for (finalize, claimForObject).    *)
(***************************************************************************)
EachDeletionCompletes == \A h \in Homes : claims[h] = "going" ~> claims[h] # "going"

(***************************************************************************)
(* A claim that is left as the only one ends up with the Namespace, its    *)
(* labels on it, though it was another's, or was deleted or stripped of    *)
(* its labels meanwhile (Reconcile's requeue, ForceOwnership).             *)
(***************************************************************************)
LastClaimOwnsNamespace ==
  <>[](\A h \in Homes :
        claims[h] = "held" /\ (\A g \in Homes \ {h} : claims[g] = "none") =>
          ns = [phase |-> "active", owner |-> h, managed |-> TRUE])
=============================================================================
