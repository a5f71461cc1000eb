--------------------------- MODULE InformerLemmas ---------------------------
(***************************************************************************)
(* Facts about the queue between an API object and its informer's cache,   *)
(* on which the proofs about stale caches rest.  The queue holds the       *)
(* versions on their way, oldest first.  The second half is about a claim: *)
(* what its versions tell of the finalizer, which a lagging cache hides.   *)
(***************************************************************************)
EXTENDS Integers, Sequences, SequenceTheorems, TLAPS

(* An undelivered version means there is a newest one. *)
LEMMA LastIndex ==
  ASSUME NEW S, NEW t \in Seq(S)
  PROVE  /\ t = <<>> => Len(t) = 0
         /\ t # <<>> => Len(t) \in Nat \ {0} /\ Len(t) \in 1 .. Len(t)
<1>1. t # <<>> => Len(t) \in Nat \ {0}
  BY EmptySeq
<1>2. t # <<>> => Len(t) \in 1 .. Len(t)
  BY <1>1
<1>3. t = <<>> => Len(t) = 0
  BY EmptySeq, Zenon
<1> QED BY <1>1, <1>2, <1>3

(* Delivering the oldest version, as an informer does, leaves the newest   *)
(* one where it was, and in the cache if it was the only one.              *)
LEMMA WatchEnds ==
  ASSUME NEW S, NEW w \in Seq(S), w # <<>>
  PROVE  /\ Tail(w) = <<>> => Head(w) = w[Len(w)]
         /\ Tail(w) # <<>> => Tail(w)[Len(Tail(w))] = w[Len(w)]
<1>1. PICK t \in Seq(S) : t = Tail(w)
  BY HeadTailProperties
<1>2. Len(w) \in Nat
  BY LenProperties
<1>3. Len(t) = Len(w) - 1
  BY <1>1, HeadTailProperties
<1>4. \A i \in 1 .. Len(t) : t[i] = w[i + 1]
  BY <1>1, HeadTailProperties
<1>5. t = <<>> => Head(w) = w[Len(w)]
  <2>1. t = <<>> => Len(t) = 0
    BY LastIndex
  <2>2. t = <<>> => Len(w) = 1
    BY <1>2, <1>3, <2>1
  <2>3. Len(w) = 1 => Head(w) = w[Len(w)]
    OBVIOUS
  <2> QED BY <2>2, <2>3
<1>6. ASSUME t # <<>> PROVE t[Len(t)] = w[Len(w)]
  BY <1>2, <1>3, <1>4, <1>6, LastIndex
<1> QED BY <1>1, <1>5, <1>6

-----------------------------------------------------------------------------
(* The phases that versions 0 .. n of a claim are in, oldest first, are    *)
(* given by the function p.                                                *)

(* The finalizer has not been released since version 0. *)
UnreleasedIn(p, n) ==
  \A i, j \in 0 .. n : i < j =>
    /\ p[i] = "going" => p[j] = "going"
    /\ p[i] = "held" => p[j] \in {"held", "going"}

(* It may have been, and the claim is not held again. *)
NotHeldAgainIn(p, n) ==
  /\ \A i \in 0 .. n : p[i] # "held"
  /\ \A i, j \in 0 .. n : i < j /\ p[i] \in {"none", "free"} => p[j] \in {"none", "free"}

(* What a new version must be to keep either description, given the newest *)
(* one so far.                                                             *)
LEMMA VersionAdded ==
  ASSUME NEW n \in Nat, NEW p, NEW q, \A i \in 0 .. n : q[i] = p[i]
  PROVE  /\ /\ UnreleasedIn(p, n)
            /\ p[n] = "going" => q[n + 1] = "going"
            /\ p[n] = "held" => q[n + 1] \in {"held", "going"}
            => UnreleasedIn(q, n + 1)
         /\ /\ NotHeldAgainIn(p, n)
            /\ q[n + 1] # "held"
            /\ p[n] \in {"none", "free"} => q[n + 1] \in {"none", "free"}
            => NotHeldAgainIn(q, n + 1)
<1>1. \A i \in 0 .. n + 1 : i \in 0 .. n \/ i = n + 1
  OBVIOUS
<1>2. \A i, j \in 0 .. n + 1 : i < j => i \in 0 .. n
  OBVIOUS
<1>3. \A i \in 0 .. n : i < n \/ i = n
  OBVIOUS
<1>4. n \in 0 .. n
  OBVIOUS
<1>5. ASSUME UnreleasedIn(p, n),
             p[n] = "going" => q[n + 1] = "going",
             p[n] = "held" => q[n + 1] \in {"held", "going"}
      PROVE  UnreleasedIn(q, n + 1)
  <2> SUFFICES ASSUME NEW i \in 0 .. n + 1, NEW j \in 0 .. n + 1, i < j
               PROVE  /\ q[i] = "going" => q[j] = "going"
                      /\ q[i] = "held" => q[j] \in {"held", "going"}
    BY DEF UnreleasedIn
  <2>1. i \in 0 .. n /\ q[i] = p[i]
    BY <1>2
  <2>2. CASE j \in 0 .. n
    BY <1>5, <2>1, <2>2 DEF UnreleasedIn
  <2>3. CASE j = n + 1
    BY <1>3, <1>4, <1>5, <2>1, <2>3 DEF UnreleasedIn
  <2> QED BY <1>1, <2>2, <2>3
<1>6. ASSUME NotHeldAgainIn(p, n),
             q[n + 1] # "held",
             p[n] \in {"none", "free"} => q[n + 1] \in {"none", "free"}
      PROVE  NotHeldAgainIn(q, n + 1)
  <2>1. \A i \in 0 .. n + 1 : q[i] # "held"
    BY <1>1, <1>6 DEF NotHeldAgainIn
  <2>2. ASSUME NEW i \in 0 .. n + 1, NEW j \in 0 .. n + 1, i < j, q[i] \in {"none", "free"}
        PROVE  q[j] \in {"none", "free"}
    <3>1. i \in 0 .. n /\ q[i] = p[i]
      BY <1>2, <2>2
    <3>2. CASE j \in 0 .. n
      BY <1>6, <2>2, <3>1, <3>2 DEF NotHeldAgainIn
    <3>3. CASE j = n + 1
      BY <1>3, <1>4, <1>6, <2>2, <3>1, <3>3 DEF NotHeldAgainIn
    <3> QED BY <1>1, <3>2, <3>3
  <2> QED BY <2>1, <2>2 DEF NotHeldAgainIn
<1> QED BY <1>5, <1>6

(* Both are about what is left as well when the oldest version goes. *)
LEMMA VersionDelivered ==
  ASSUME NEW n \in Nat, NEW p, NEW q, \A i \in 0 .. n : q[i] = p[i + 1]
  PROVE  /\ UnreleasedIn(p, n + 1) => UnreleasedIn(q, n)
         /\ NotHeldAgainIn(p, n + 1) => NotHeldAgainIn(q, n)
<1>1. \A i \in 0 .. n : i + 1 \in 0 .. n + 1
  OBVIOUS
<1>2. \A i, j \in 0 .. n : i < j => i + 1 < j + 1
  OBVIOUS
<1>3. UnreleasedIn(p, n + 1) => UnreleasedIn(q, n)
  BY <1>1, <1>2 DEF UnreleasedIn
<1>4. NotHeldAgainIn(p, n + 1) => NotHeldAgainIn(q, n)
  BY <1>1, <1>2 DEF NotHeldAgainIn
<1> QED BY <1>3, <1>4

(* What the cached version tells: a claim that is going is not held again  *)
(* behind the cache's back; one that is held is held still, or going;      *)
(* behind one that is neither, nothing was released.                       *)
LEMMA CachedTells ==
  ASSUME NEW n \in Nat, NEW p, UnreleasedIn(p, n) \/ NotHeldAgainIn(p, n),
         p[0] \in {"none", "free", "held", "going"}
  PROVE  /\ p[0] = "going" => NotHeldAgainIn(p, n)
         /\ p[0] # "going" => UnreleasedIn(p, n)
         /\ p[0] = "held" => p[n] \in {"held", "going"}
<1>1. 0 \in 0 .. n /\ n \in 0 .. n /\ \A i \in 0 .. n : i = 0 \/ 0 < i
  OBVIOUS
<1>2. p[0] = "going" => NotHeldAgainIn(p, n)
  BY <1>1 DEF UnreleasedIn, NotHeldAgainIn
<1>3. p[0] = "held" => UnreleasedIn(p, n)
  BY <1>1 DEF NotHeldAgainIn
<1>4. ASSUME p[0] \in {"none", "free"}, NotHeldAgainIn(p, n) PROVE UnreleasedIn(p, n)
  <2>1. \A i \in 0 .. n : p[i] \in {"none", "free"}
    BY <1>1, <1>4 DEF NotHeldAgainIn
  <2> QED BY <2>1 DEF UnreleasedIn
<1>5. p[0] = "held" => p[n] \in {"held", "going"}
  BY <1>1, <1>3 DEF UnreleasedIn
<1> QED BY <1>2, <1>3, <1>4, <1>5

(* A single version tells nothing of a release. *)
LEMMA NothingReleased == ASSUME NEW p PROVE UnreleasedIn(p, 0)
<1>1. \A i, j \in 0 .. 0 : ~(i < j)
  OBVIOUS
<1> QED BY <1>1 DEF UnreleasedIn

=============================================================================
