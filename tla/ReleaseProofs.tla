--------------------------- MODULE ReleaseProofs ---------------------------
(***************************************************************************)
(* Proofs about Release: for every number of intervals, releases and       *)
(* troubles, every traffic and budget and every length of the windows.     *)
(*                                                                         *)
(* The safety properties rest on where in an interval the scrape, the      *)
(* recording rules and the alerts fall.  ScheduleInv says how far each may *)
(* be behind the one it reads, for every order of theirs; TallyInv that    *)
(* the counters only grow; SeriesInv that no request is lost to the        *)
(* creation of a series.  From these, BurnInv carries NoSilentBurn, and    *)
(* FreshInv, QuietInv and FiringInv carry AbortHasCause and AlertsClear.   *)
(*                                                                         *)
(* BadReleaseStopped depends on how the pauses, the window and the traffic *)
(* compare.  LoadInv and GrowthInv bound what a window can count, and      *)
(* CanaryInv is how many failures of a broken canary must have been        *)
(* counted at each of its eight intervals, whatever restarts have cost.    *)
(***************************************************************************)
EXTENDS Release, InformerLemmas, TLAPS

-----------------------------------------------------------------------------
(* The interval: whose turn it is *)

Events == {"scrape", "record", "alert", "measure"}

(* The place of an event in the order of an interval, and the place of the *)
(* one that comes next; 5 when all have been.                              *)
Place(x) == CHOOSE i \in 1 .. 4 : order[i] = x
Turn == 5 - Len(due)

(* What is still due is the end of the order. *)
DueInv ==
  /\ due \in Seq(Events) /\ Len(due) \in 0 .. 4
  /\ \A k \in 1 .. Len(due) : due[k] = order[4 - Len(due) + k]

(* Scrape, rule groups and measurement each have one place in the order. *)
LEMMA Places ==
  ASSUME order \in Orders
  PROVE  \A x \in Events : /\ Place(x) \in 1 .. 4
                           /\ \A i \in 1 .. 4 : order[i] = x <=> i = Place(x)
<1>1. /\ \A i \in {1, 2, 3, 4} : order[i] \in Events
      /\ \A i, j \in {1, 2, 3, 4} : order[i] = order[j] => i = j
  <2>1. 1 .. 4 = {1, 2, 3, 4}
    OBVIOUS
  <2> QED BY <2>1 DEF Orders, Events
<1>2. ASSUME NEW x \in Events PROVE \E i \in 1 .. 4 : order[i] = x
  <2>1. x \in {order[1], order[2], order[3], order[4]}
    BY <1>1, <1>2 DEF Events
  <2> QED BY <2>1
<1>3. ASSUME NEW x \in Events PROVE Place(x) \in 1 .. 4 /\ order[Place(x)] = x
  BY <1>2, <1>3 DEF Place
<1>4. \A i, j \in 1 .. 4 : order[i] = order[j] => i = j
  BY DEF Orders
<1> QED BY <1>3, <1>4

(* The next event is the one whose turn it is. *)
LEMMA TurnOf ==
  ASSUME order \in Orders, DueInv
  PROVE  /\ Turn \in 1 .. 5
         /\ due = <<>> <=> Turn = 5
         /\ due # <<>> => Head(due) \in Events /\ Turn = Place(Head(due))
<1>1. due # <<>> => Len(due) \in 1 .. 4
  BY LastIndex DEF DueInv
<1>2. due = <<>> => Len(due) = 0
  BY LastIndex DEF DueInv
<1>3. ASSUME due # <<>> PROVE Head(due) \in Events /\ Turn = Place(Head(due))
  <2>1. Head(due) = due[1] /\ Head(due) \in Events
    BY <1>1, <1>3, HeadTailProperties DEF DueInv
  <2>4. PICK n \in 1 .. 4 : n = Len(due)
    BY <1>1, <1>3, Zenon
  <2>2. 1 \in 1 .. Len(due) /\ 4 - Len(due) + 1 = 5 - Len(due) /\ 5 - Len(due) \in 1 .. 4
    BY <2>4
  <2>3. due[1] = order[4 - Len(due) + 1]
    BY <2>2 DEF DueInv
  <2> QED BY <2>1, <2>2, <2>3, Places DEF Turn
<1>4. PICK n \in 0 .. 4 : n = Len(due) /\ Turn = 5 - n
  BY DEF DueInv, Turn
<1>5. Turn \in 1 .. 5 /\ (n = 0 => Turn = 5) /\ (n \in 1 .. 4 => Turn # 5)
  <2>1. Turn = 5 - n /\ n \in 0 .. 4
    BY <1>4
  <2>2. Turn \in 1 .. 5
    BY <2>1
  <2>3. n = 0 => Turn = 5
    BY <2>1
  <2>4. n \in 1 .. 4 => Turn # 5
    BY <2>1
  <2> QED BY <2>2, <2>3, <2>4
<1>6. due = <<>> <=> Turn = 5
  BY <1>1, <1>2, <1>4, <1>5, Zenon
<1> QED BY <1>3, <1>5, <1>6, Zenon

(* When it has been, it is the turn of the one after it. *)
LEMMA NextTurn ==
  ASSUME order \in Orders, DueInv, due # <<>>, due' = Tail(due), order' = order
  PROVE  DueInv' /\ Turn' = Turn + 1
<1>1. Len(due) \in 1 .. 4
  BY LastIndex DEF DueInv
<1>2. PICK t : t = Tail(due)
  OBVIOUS
<1>8. t \in Seq(Events) /\ Len(t) = Len(due) - 1
  BY <1>2, HeadTailProperties DEF DueInv
<1>9. \A k \in 1 .. Len(t) : t[k] = due[k + 1]
  BY <1>2, HeadTailProperties DEF DueInv
<1>3. Len(t) \in 0 .. 4
  BY <1>1, <1>8
<1>4. ASSUME NEW k \in 1 .. Len(t) PROVE t[k] = order[4 - Len(t) + k]
  <2>1. k + 1 \in 1 .. Len(due) /\ 4 - Len(due) + (k + 1) = 4 - Len(t) + k
    BY <1>1, <1>8
  <2>2. due[k + 1] = order[4 - Len(due) + (k + 1)]
    BY <2>1 DEF DueInv
  <2> QED BY <1>9, <2>1, <2>2
<1>5. due' = t
  BY <1>2
<1>6. DueInv'
  BY <1>3, <1>4, <1>5, <1>8, Zenon DEF DueInv
<1>7. Turn' = Turn + 1
  BY <1>1, <1>5, <1>8 DEF Turn
<1> QED BY <1>6, <1>7

(* A new interval starts with the first. *)
LEMMA FirstTurn ==
  ASSUME order \in Orders, due' = order, order' = order
  PROVE  DueInv' /\ Turn' = 1
<1>1. order \in [1 .. 4 -> Events]
  BY DEF Orders, Events
<1>2. order = [i \in 1 .. 4 |-> order[i]] /\ \A i \in 1 .. 4 : order[i] \in Events
  BY <1>1
<1>3. [i \in 1 .. 4 |-> order[i]] \in Seq(Events) /\ Len([i \in 1 .. 4 |-> order[i]]) = 4
  BY <1>2
<1>4. order \in Seq(Events) /\ Len(order) = 4
  BY <1>2, <1>3, Zenon
<1> QED BY <1>4 DEF DueInv, Turn

-----------------------------------------------------------------------------
(* Types *)

Processes ==
  [exposed : SUBSET Codes, known : SUBSET Codes, fresh : [Codes -> Nat], scraped : BOOLEAN]
Tallies == [bad : Nat, total : Nat]

(* A canary is at one of its steps. *)
RolloutTypes ==
  /\ rollout \in [stable : Releases, canary : Releases \cup {None},
                  step : 0 .. Len(canarySteps), wait : 0 .. canaryPause,
                  errors : 0 .. consecutiveErrorLimit]
  /\ rollout.canary # None => rollout.step # 0

CountTypes ==
  /\ counts \in Seq(Tallies)
  /\ recorded \in 1 .. Len(counts) /\ judged \in 1 .. recorded

AlertTypes == firing \subseteq fired /\ fired \subseteq burnRateAlerts

(* No more intervals are calm than there have been. *)
ClockTypes ==
  /\ time \in 0 .. MaxTime /\ calm \in 0 .. time
  /\ releases \in 0 .. MaxReleases /\ troubles \in 0 .. MaxTroubles
  /\ lost \in 0 .. MaxLost

TypeInv ==
  /\ RolloutTypes
  /\ procs \in [Sides -> Processes]
  /\ order \in Orders /\ DueInv
  /\ CountTypes /\ AlertTypes /\ ClockTypes

(* The constants are what ReleaseAssumption says, one by one. *)
LEMMA Constants ==
  /\ Initial \in Releases /\ None \notin Releases /\ Traffic \in Nat /\ Budget \in Nat
  /\ MaxTime \in Nat /\ MaxReleases \in Nat /\ MaxTroubles \in Nat /\ MaxLost \in Nat
  /\ \A a \in burnRateAlerts : /\ a.rate \in Nat
                               /\ Intervals[a.long] \in Nat /\ Intervals[a.long] >= 2
                               /\ Intervals[a.short] \in Nat /\ Intervals[a.short] >= 2
  /\ Intervals["5m"] \in Nat /\ Intervals["5m"] >= 2
<1>1. \A w \in {"5m", "30m", "1h", "2h", "6h", "1d", "3d"} :
        Intervals[w] \in Nat /\ Intervals[w] >= 2
  BY ReleaseAssumption
<1>2. \A a \in burnRateAlerts : /\ a.rate \in Nat
                                /\ a.long \in {"5m", "30m", "1h", "2h", "6h", "1d", "3d"}
                                /\ a.short \in {"5m", "30m", "1h", "2h", "6h", "1d", "3d"}
  BY DEF burnRateAlerts
<1>3. Initial \in Releases /\ None \notin Releases /\ Traffic \in Nat /\ Budget \in Nat
  BY ReleaseAssumption
<1>4. MaxTime \in Nat /\ MaxReleases \in Nat /\ MaxTroubles \in Nat /\ MaxLost \in Nat
  BY ReleaseAssumption
<1> QED BY <1>1, <1>2, <1>3, <1>4

(* A process that has just started has no requests. *)
LEMMA NewProcessType ==
  ASSUME NEW known \in SUBSET Codes, NEW p, p \in {NewProcess, [NewProcess EXCEPT !.known = known]}
  PROVE  /\ p \in Processes /\ p.exposed = Codes /\ ~p.scraped
         /\ \A c \in Codes : p.fresh[c] = 0
<1>1. [c \in Codes |-> 0] \in [Codes -> Nat] /\ \A c \in Codes : [d \in Codes |-> 0][c] = 0
  OBVIOUS
<1>2. PICK z \in [Codes -> Nat] : z = [c \in Codes |-> 0] /\ \A c \in Codes : z[c] = 0
  BY <1>1
<1>3. NewProcess = [exposed |-> Codes, known |-> {}, fresh |-> z, scraped |-> FALSE]
  BY <1>2 DEF NewProcess, statuses, Codes
<1>4. PICK k \in SUBSET Codes :
        p = [exposed |-> Codes, known |-> k, fresh |-> z, scraped |-> FALSE]
  <2>1. CASE p = NewProcess
    BY <1>3, <2>1
  <2>2. CASE p = [NewProcess EXCEPT !.known = known]
    BY <1>3, <2>2
  <2> QED BY <2>1, <2>2
<1> QED BY <1>2, <1>4 DEF Processes

(* Requests are counted, and change nothing else a scrape will see. *)
LEMMA HandleType ==
  ASSUME NEW p \in Processes, NEW code \in Codes, NEW n \in Nat
  PROVE  /\ Handle(p, code, n) \in Processes
         /\ Handle(p, code, n).known = p.known /\ Handle(p, code, n).scraped = p.scraped
         /\ p.exposed \subseteq Handle(p, code, n).exposed
         /\ \A c \in Codes : c # code => Handle(p, code, n).fresh[c] = p.fresh[c]
<1>1. CASE n = 0
  BY <1>1 DEF Handle
<1>2. CASE n # 0
  <2>1. PICK q : q = [p EXCEPT !.exposed = @ \cup {code}, !.fresh[code] = @ + n]
    OBVIOUS
  <2>2. /\ q.exposed = p.exposed \cup {code} /\ q.known = p.known /\ q.scraped = p.scraped
        /\ q.fresh = [p.fresh EXCEPT ![code] = @ + n]
        /\ q = [exposed |-> q.exposed, known |-> q.known, fresh |-> q.fresh, scraped |-> q.scraped]
    BY <2>1 DEF Processes
  <2>3. p.fresh \in [Codes -> Nat]
    BY DEF Processes
  <2>4. q.fresh \in [Codes -> Nat] /\ \A c \in Codes : c # code => q.fresh[c] = p.fresh[c]
    BY <2>2, <2>3
  <2>5. q \in Processes
    BY <2>2, <2>4 DEF Processes
  <2>6. Handle(p, code, n) = q
    BY <1>2, <2>1 DEF Handle
  <2> QED BY <2>2, <2>4, <2>5, <2>6
<1> QED BY <1>1, <1>2

(* After a scrape Prometheus knows every series the process exposes. *)
LEMMA SampledType ==
  ASSUME NEW p \in Processes
  PROVE  /\ Sampled(p) \in Processes
         /\ Sampled(p).exposed = p.exposed /\ Sampled(p).known = p.known \cup p.exposed
         /\ \A c \in Codes : Sampled(p).fresh[c] = 0
<1>1. [c \in Codes |-> 0] \in [Codes -> Nat] /\ \A c \in Codes : [d \in Codes |-> 0][c] = 0
  OBVIOUS
<1>2. PICK z \in [Codes -> Nat] : z = [c \in Codes |-> 0] /\ \A c \in Codes : z[c] = 0
  BY <1>1
<1>3. Sampled(p) = [p EXCEPT !.known = p.known \cup p.exposed, !.fresh = z, !.scraped = TRUE]
  BY <1>2 DEF Sampled
<1> QED BY <1>2, <1>3 DEF Processes

(* A rollout an interval later is a rollout (canarySteps, canaryPause). *)
LEMMA AdvancedType ==
  ASSUME RolloutTypes, rollout' = Advanced
  PROVE  RolloutTypes'
<1> USE DEF canarySteps, canaryPause, consecutiveErrorLimit
<1>1. CASE rollout.canary = None
  BY <1>1 DEF Advanced, RolloutTypes
<1>2. CASE rollout.canary # None /\ rollout.wait > 0
  BY <1>2 DEF Advanced, RolloutTypes
<1>3. CASE rollout.canary # None /\ ~(rollout.wait > 0) /\ rollout.step < Len(canarySteps)
  <2>1. PICK r : r = [rollout EXCEPT !.step = @ + 1, !.wait = canaryPause - 1]
    OBVIOUS
  <2>2. PICK n : n = rollout.step
    OBVIOUS
  <2>3. Len(canarySteps) = 2
    OBVIOUS
  <2>4. n + 1 \in 1 .. 2
    BY <1>3, <2>2, <2>3 DEF RolloutTypes
  <2>5. r = [stable |-> rollout.stable, canary |-> rollout.canary, step |-> n + 1, wait |-> 3,
             errors |-> rollout.errors]
    <3>1. r = [rollout EXCEPT !.step = n + 1, !.wait = 3]
      BY <2>1, <2>2
    <3>2. rollout = [stable |-> rollout.stable, canary |-> rollout.canary, step |-> n,
                     wait |-> rollout.wait, errors |-> rollout.errors]
      BY <2>2 DEF RolloutTypes
    <3> QED BY <3>1, <3>2, Zenon
  <2>6. rollout' = r
    BY <1>3, <2>1 DEF Advanced
  <2>7. /\ r \in [stable : Releases, canary : Releases \cup {None}, step : 0 .. 2, wait : 0 .. 4,
                   errors : 0 .. 4]
        /\ r.step # 0
    BY <2>4, <2>5 DEF RolloutTypes
  <2> QED BY <2>3, <2>6, <2>7 DEF RolloutTypes
<1>4. CASE rollout.canary # None /\ ~(rollout.wait > 0) /\ ~(rollout.step < Len(canarySteps))
  BY <1>4 DEF Advanced, RolloutTypes, Serving
<1> QED BY <1>1, <1>2, <1>3, <1>4

(* A measurement, answered or not. *)
Measured == Measure \/ QueryFails

(* What the rollout is if only the count of errors changes. *)
WithErrors(e) ==
  [stable |-> rollout.stable, canary |-> rollout.canary, step |-> rollout.step,
   wait |-> rollout.wait, errors |-> e]

(* A measurement leaves the rollout alone, but for the errors in a row, or *)
(* ends it.                                                                *)
LEMMA Analysed ==
  ASSUME RolloutTypes, Measured
  PROVE  /\ due # <<>> /\ Head(due) = "measure" /\ due' = Tail(due)
         /\ UNCHANGED <<procs, order, counts, recorded, firing, fired, judged, calm, time,
                        releases, troubles>>
         /\ lost' = lost \/ (lost' = lost + 1 /\ lost < MaxLost)
         /\ \/ rollout' = Serving(rollout.stable)
            \/ \E e \in 0 .. consecutiveErrorLimit :
                 rollout' = WithErrors(e) /\ (QueryFails => e > 0)
<1>1. rollout = WithErrors(rollout.errors) /\ rollout.errors \in 0 .. 4
  BY DEF RolloutTypes, WithErrors, consecutiveErrorLimit
<1>2. \A e : [rollout EXCEPT !.errors = e] = WithErrors(e)
  BY DEF RolloutTypes, WithErrors
<1>3. CASE QueryFails
  <2>1. CASE rollout.errors = consecutiveErrorLimit
    BY <1>3, <2>1 DEF QueryFails
  <2>2. CASE rollout.errors # consecutiveErrorLimit
    <3>1. PICK e \in 0 .. 3 : e = rollout.errors
      BY <1>1, <2>2 DEF consecutiveErrorLimit
    <3>2. rollout' = [rollout EXCEPT !.errors = e + 1]
      BY <1>3, <2>2, <3>1 DEF QueryFails
    <3>3. rollout' = WithErrors(e + 1) /\ e + 1 \in 0 .. 4 /\ e + 1 > 0
      BY <1>2, <3>1, <3>2
    <3> QED BY <1>3, <3>3 DEF QueryFails, consecutiveErrorLimit
  <2> QED BY <2>1, <2>2
<1>4. CASE Measure /\ ~QueryFails
  <2>1. 0 \in 0 .. consecutiveErrorLimit /\ rollout.errors \in 0 .. consecutiveErrorLimit
    BY <1>1 DEF consecutiveErrorLimit
  <2>2. \/ rollout' = rollout \/ rollout' = Serving(rollout.stable)
        \/ rollout' = [rollout EXCEPT !.errors = 0]
    BY <1>4 DEF Measure
  <2>3. \/ rollout' = Serving(rollout.stable)
        \/ \E e \in 0 .. consecutiveErrorLimit : rollout' = WithErrors(e)
    BY <1>1, <1>2, <2>1, <2>2
  <2> QED BY <1>4, <2>3 DEF Measure
<1> QED BY <1>3, <1>4 DEF Measured

(* The share of the traffic a canary gets. *)
LEMMA ShareType ==
  ASSUME NEW r, r.canary # None => r.step \in {1, 2}
  PROVE  (Traffic * (IF r.canary = None THEN 0 ELSE canarySteps[r.step])) \div 100
           \in 0 .. Traffic
<1>1. PICK w : w = IF r.canary = None THEN 0 ELSE canarySteps[r.step]
  OBVIOUS
<1>2. w \in {0, 20, 50}
  BY <1>1 DEF canarySteps
<1>3. (Traffic * 0) \div 100 \in 0 .. Traffic
  BY Constants
<1>4. (Traffic * 20) \div 100 \in 0 .. Traffic
  BY Constants
<1>5. (Traffic * 50) \div 100 \in 0 .. Traffic
  BY Constants
<1> QED BY <1>1, <1>2, <1>3, <1>4, <1>5

-----------------------------------------------------------------------------
(* The processes *)

(* Every series a process will ever have it has from the start, so that    *)
(* its first scrape knows them all.                                        *)
SeriesInv ==
  \A s \in Sides : /\ procs[s].exposed = Codes
                   /\ procs[s].scraped => procs[s].known = Codes

(* A failure that no scrape has counted yet is one of this interval. *)
FreshInv ==
  \A s \in Running : procs[s].fresh[500] > 0 => calm = 0 /\ Turn <= Place("scrape")

(* An interval's requests. *)
LEMMA ServeProcesses ==
  ASSUME TypeInv, SeriesInv, NEW down \in BOOLEAN, Serve(down), RolloutTypes'
  PROVE  procs' \in [Sides -> Processes] /\ SeriesInv'
<1> DEFINE weight == IF rollout'.canary = None THEN 0 ELSE canarySteps[rollout'.step]
           toCanary == (Traffic * weight) \div 100
           stable == IF Promoted THEN procs["canary"] ELSE procs["stable"]
           answer == [s \in Sides |-> Answer(rollout'[s], down)]
<1>1. procs' = [procs EXCEPT
                  !["stable"] = Handle(stable, answer["stable"], Traffic - toCanary),
                  !["canary"] = Handle(@, answer["canary"], toCanary)]
  BY Zenon DEF Serve
<1>2. rollout'.canary # None => rollout'.step \in {1, 2}
  BY DEF RolloutTypes, canarySteps
<1>3. PICK n \in 0 .. Traffic : n = toCanary
  BY <1>2, ShareType
<1>4. n \in Nat /\ Traffic - n \in Nat
  BY <1>3, Constants
<1>5. answer["stable"] \in Codes /\ answer["canary"] \in Codes
  BY DEF Answer, Codes, Sides
<1>6. procs \in [Sides -> Processes]
  BY DEF TypeInv
<1>7. procs["stable"] \in Processes /\ procs["canary"] \in Processes /\ stable \in Processes
  BY <1>6 DEF Sides
<1>8. stable.exposed = Codes /\ (stable.scraped => stable.known = Codes)
  BY DEF SeriesInv, Sides
<1> HIDE DEF weight, toCanary, stable, answer
<1>9. /\ procs'["stable"] = Handle(stable, answer["stable"], Traffic - n)
      /\ procs'["canary"] = Handle(procs["canary"], answer["canary"], n)
      /\ DOMAIN procs' = Sides
  BY <1>1, <1>3, <1>6 DEF Sides
<1>10. \A p \in Processes : p.exposed \subseteq Codes
  BY DEF Processes
<1>11. /\ procs'["stable"] \in Processes
       /\ Codes \subseteq procs'["stable"].exposed
       /\ procs'["stable"].scraped => procs'["stable"].known = Codes
  <2>1. PICK p \in Processes, c \in Codes, k \in Nat :
          p = stable /\ c = answer["stable"] /\ k = Traffic - n
    BY <1>4, <1>5, <1>7, Zenon
  <2>2. procs'["stable"] = Handle(p, c, k)
    BY <1>9, <2>1
  <2>3. /\ Handle(p, c, k) \in Processes /\ p.exposed \subseteq Handle(p, c, k).exposed
        /\ Handle(p, c, k).known = p.known /\ Handle(p, c, k).scraped = p.scraped
    BY <2>1, HandleType
  <2> QED BY <1>8, <2>1, <2>2, <2>3, Zenon
<1>12. /\ procs'["canary"] \in Processes
       /\ Codes \subseteq procs'["canary"].exposed
       /\ procs'["canary"].scraped => procs'["canary"].known = Codes
  <2>1. procs["canary"].exposed = Codes /\ (procs["canary"].scraped => procs["canary"].known = Codes)
    BY DEF SeriesInv, Sides
  <2>2. PICK p \in Processes, c \in Codes, k \in Nat :
          p = procs["canary"] /\ c = answer["canary"] /\ k = n
    BY <1>4, <1>5, <1>7, Zenon
  <2>3. procs'["canary"] = Handle(p, c, k)
    BY <1>9, <2>2
  <2>4. /\ Handle(p, c, k) \in Processes /\ p.exposed \subseteq Handle(p, c, k).exposed
        /\ Handle(p, c, k).known = p.known /\ Handle(p, c, k).scraped = p.scraped
    BY <2>2, HandleType
  <2> QED BY <2>1, <2>2, <2>3, <2>4, Zenon
<1>13. SeriesInv'
  BY <1>10, <1>11, <1>12 DEF SeriesInv, Sides
<1>14. procs' = [s \in Sides |-> procs'[s]]
  BY <1>1, <1>6
<1> QED BY <1>11, <1>12, <1>13, <1>14 DEF Sides

(* In a calm interval nothing fails that is still running. *)
LEMMA ServeFresh ==
  ASSUME TypeInv, SeriesInv, FreshInv, NEW down \in BOOLEAN, Serve(down), RolloutTypes',
         Turn > Place("scrape"), Turn' <= Place("scrape"), Place("scrape")' = Place("scrape")
  PROVE  FreshInv'
<1> DEFINE weight == IF rollout'.canary = None THEN 0 ELSE canarySteps[rollout'.step]
           toCanary == (Traffic * weight) \div 100
           stable == IF Promoted THEN procs["canary"] ELSE procs["stable"]
           answer == [s \in Sides |-> Answer(rollout'[s], down)]
<1>1. procs' = [procs EXCEPT
                  !["stable"] = Handle(stable, answer["stable"], Traffic - toCanary),
                  !["canary"] = Handle(@, answer["canary"], toCanary)]
  BY Zenon DEF Serve
<1>2. rollout'.canary # None => rollout'.step \in {1, 2}
  BY DEF RolloutTypes, canarySteps
<1>3. PICK n \in 0 .. Traffic : n = toCanary
  BY <1>2, ShareType
<1>4. n \in Nat /\ Traffic - n \in Nat
  BY <1>3, Constants
<1>5. answer["stable"] \in Codes /\ answer["canary"] \in Codes
  BY DEF Answer, Codes, Sides
<1>6. procs \in [Sides -> Processes]
  BY DEF TypeInv
<1>7. procs["stable"] \in Processes /\ procs["canary"] \in Processes /\ stable \in Processes
  BY <1>6 DEF Sides
<1>8. \A s \in Running : ~(procs[s].fresh[500] > 0)
  <2>1. Place("scrape") \in 1 .. 4
    BY Places DEF Events, TypeInv
  <2>2. Turn \in 1 .. 5
    BY TurnOf DEF TypeInv
  <2> QED BY <2>1, <2>2 DEF FreshInv
<1>9. /\ ~(stable.fresh[500] > 0)
      /\ rollout'.canary # None => ~(procs["canary"].fresh[500] > 0)
  <2>1. "stable" \in Running /\ (rollout.canary # None => "canary" \in Running)
    BY DEF Running
  <2>2. Promoted => rollout.canary # None
    BY DEF Promoted
  <2>3. rollout'.canary # None => rollout.canary # None
    BY DEF Serve, Advanced
  <2> QED BY <1>8, <2>1, <2>2, <2>3
<1>10. calm' # 0 => /\ answer["stable"] = 200
                    /\ rollout'.canary # None => answer["canary"] = 200
  BY DEF Serve, goodStatuses
<1> HIDE DEF weight, toCanary, stable, answer
<1>11. /\ procs'["stable"] = Handle(stable, answer["stable"], Traffic - n)
       /\ procs'["canary"] = Handle(procs["canary"], answer["canary"], n)
  BY <1>1, <1>3, <1>6 DEF Sides
<1>12. ASSUME calm' # 0, NEW s \in Running' PROVE ~(procs'[s].fresh[500] > 0)
  <2>1. 500 \in Codes /\ 500 # 200
    BY DEF Codes
  <2>2. CASE s = "stable"
    <3>2. PICK p \in Processes, c \in Codes, k \in Nat :
            p = stable /\ c = answer["stable"] /\ k = Traffic - n
      BY <1>4, <1>5, <1>7, Zenon
    <3>3. 500 # c
      BY <1>10, <1>12, <2>1, <3>2
    <3>4. Handle(p, c, k).fresh[500] = p.fresh[500]
      <4>1. \A d \in Codes : d # c => Handle(p, c, k).fresh[d] = p.fresh[d]
        BY <3>2, HandleType
      <4>2. PICK f : f = Handle(p, c, k).fresh
        OBVIOUS
      <4>3. \A d \in Codes : d # c => f[d] = p.fresh[d]
        BY <4>1, <4>2, Zenon
      <4>4. f[500] = p.fresh[500]
        BY <2>1, <3>3, <4>3
      <4> QED BY <4>2, <4>4, Zenon
    <3>1. procs'["stable"].fresh[500] = stable.fresh[500]
      BY <1>11, <3>2, <3>4
    <3> QED BY <1>9, <2>2, <3>1
  <2>3. CASE s = "canary" /\ rollout'.canary # None
    <3>2. PICK p \in Processes, c \in Codes, k \in Nat :
            p = procs["canary"] /\ c = answer["canary"] /\ k = n
      BY <1>4, <1>5, <1>7, Zenon
    <3>3. 500 # c
      BY <1>10, <1>12, <2>3, <2>1, <3>2
    <3>4. Handle(p, c, k).fresh[500] = p.fresh[500]
      <4>1. \A d \in Codes : d # c => Handle(p, c, k).fresh[d] = p.fresh[d]
        BY <3>2, HandleType
      <4>2. PICK f : f = Handle(p, c, k).fresh
        OBVIOUS
      <4>3. \A d \in Codes : d # c => f[d] = p.fresh[d]
        BY <4>1, <4>2, Zenon
      <4>4. f[500] = p.fresh[500]
        BY <2>1, <3>3, <4>3
      <4> QED BY <4>2, <4>4, Zenon
    <3>1. procs'["canary"].fresh[500] = procs["canary"].fresh[500]
      BY <1>11, <3>2, <3>4
    <3> QED BY <1>9, <2>3, <3>1
  <2> QED BY <1>12, <2>2, <2>3 DEF Running
<1> QED BY <1>12 DEF FreshInv

-----------------------------------------------------------------------------
(* The scrapes *)

(* A scrape gains no more failures than requests, and none but fresh ones. *)
LEMMA GainType ==
  ASSUME procs \in [Sides -> Processes], NEW s \in Sides
  PROVE  /\ GainedBy(s) \in Tallies /\ GainedBy(s).bad <= GainedBy(s).total
         /\ ~(procs[s].fresh[500] > 0) => GainedBy(s).bad = 0
<1>1. procs[s].fresh \in [Codes -> Nat]
  BY DEF Processes
<1>2. procs[s].fresh[500] \in Nat /\ procs[s].fresh[200] \in Nat
  BY <1>1 DEF Codes
<1>3. PICK b \in Nat, g \in Nat : b = Gained(s, 500) /\ g = Gained(s, 200)
  BY <1>2 DEF Gained
<1>4. ~(procs[s].fresh[500] > 0) => b = 0
  BY <1>2, <1>3 DEF Gained
<1>5. GainedBy(s) = [bad |-> b, total |-> g + b]
  BY <1>3 DEF GainedBy
<1> QED BY <1>3, <1>4, <1>5 DEF Tallies

(* A scrape appends a tally: no less than the last, with no more failures  *)
(* gained than requests, and none if none were fresh.                      *)
LEMMA ScrapeCounts ==
  ASSUME TypeInv, Scrape
  PROVE  \E t \in Tallies :
           /\ counts' = Append(counts, t)
           /\ counts[Len(counts)].bad <= t.bad
           /\ t.bad - counts[Len(counts)].bad <= t.total - counts[Len(counts)].total
           /\ (\A s \in Running : ~(procs[s].fresh[500] > 0)) => t.bad = counts[Len(counts)].bad
<1>1. PICK last \in Tallies : last = counts[Len(counts)]
  <2>1. counts \in Seq(Tallies) /\ Len(counts) \in 1 .. Len(counts)
    BY DEF TypeInv, CountTypes
  <2> QED BY <2>1
<1>2. PICK gain : gain = [s \in Sides |-> IF s \in Running THEN GainedBy(s) ELSE Zero]
  OBVIOUS
<1>3. procs \in [Sides -> Processes]
  BY DEF TypeInv
<1>4. ASSUME NEW s \in Sides
      PROVE  /\ gain[s].bad \in Nat /\ gain[s].total \in Nat /\ gain[s].bad <= gain[s].total
             /\ (\A u \in Running : ~(procs[u].fresh[500] > 0)) => gain[s].bad = 0
  <2>1. CASE s \in Running
    <3>1. gain[s] = GainedBy(s)
      BY <1>2, <2>1
    <3>2. GainedBy(s) \in Tallies /\ GainedBy(s).bad <= GainedBy(s).total
      BY <1>3, GainType
    <3>3. ~(procs[s].fresh[500] > 0) => GainedBy(s).bad = 0
      BY <1>3, GainType
    <3>4. (\A u \in Running : ~(procs[u].fresh[500] > 0)) => GainedBy(s).bad = 0
      BY <2>1, <3>3, Zenon
    <3> QED BY <3>1, <3>2, <3>4 DEF Tallies
  <2>2. CASE s \notin Running
    <3>1. gain[s] = Zero
      BY <1>2, <2>2
    <3> QED BY <3>1 DEF Zero
  <2> QED BY <2>1, <2>2
<1>5. PICK b1 \in Nat, b2 \in Nat, n1 \in Nat, n2 \in Nat :
        /\ b1 = gain["stable"].bad /\ b2 = gain["canary"].bad
        /\ n1 = gain["stable"].total /\ n2 = gain["canary"].total
        /\ b1 <= n1 /\ b2 <= n2
        /\ (\A u \in Running : ~(procs[u].fresh[500] > 0)) => b1 = 0 /\ b2 = 0
  BY <1>4 DEF Sides
<1>6. counts' = Append(counts, [bad |-> last.bad + b1 + b2, total |-> last.total + n1 + n2])
  BY <1>1, <1>2, <1>5 DEF Scrape
<1>7. PICK t : t = [bad |-> last.bad + b1 + b2, total |-> last.total + n1 + n2]
  OBVIOUS
<1>8. last.bad \in Nat /\ last.total \in Nat
  BY <1>1 DEF Tallies
<1>9. t \in Tallies /\ t.bad = last.bad + b1 + b2 /\ t.total = last.total + n1 + n2
  BY <1>5, <1>7, <1>8 DEF Tallies
<1>10. last.bad <= t.bad /\ t.bad - last.bad <= t.total - last.total
  BY <1>5, <1>8, <1>9
<1>11. (\A s \in Running : ~(procs[s].fresh[500] > 0)) => t.bad = last.bad
  <2>1. b1 = 0 /\ b2 = 0 => t.bad = last.bad
    BY <1>8, <1>9
  <2> QED BY <1>5, <2>1
<1> QED BY <1>1, <1>6, <1>7, <1>9, <1>10, <1>11

(* After it, nothing that runs has fresh requests. *)
LEMMA ScrapeProcesses ==
  ASSUME TypeInv, SeriesInv, Scrape
  PROVE  /\ procs' \in [Sides -> Processes] /\ SeriesInv'
         /\ \A s \in Running : procs'[s].fresh[500] = 0
<1>1. procs' = [s \in Sides |-> IF s \in Running THEN Sampled(procs[s]) ELSE procs[s]]
  BY DEF Scrape
<1>2. ASSUME NEW s \in Sides
      PROVE  /\ procs'[s] \in Processes /\ procs'[s].exposed = Codes
             /\ procs'[s].scraped => procs'[s].known = Codes
             /\ s \in Running => procs'[s].fresh[500] = 0
  <2>1. PICK p \in Processes : p = procs[s]
    BY DEF TypeInv
  <2>2. p.exposed = Codes /\ (p.scraped => p.known = Codes)
    BY <2>1 DEF SeriesInv
  <2>3. CASE s \in Running
    <3>1. procs'[s] = Sampled(p)
      BY <1>1, <2>1, <2>3
    <3>2. Sampled(p) \in Processes /\ Sampled(p).exposed = p.exposed
      BY SampledType
    <3>3. Sampled(p).known = p.known \cup p.exposed /\ \A c \in Codes : Sampled(p).fresh[c] = 0
      BY SampledType
    <3>4. p.known \subseteq Codes /\ 500 \in Codes
      BY DEF Processes, Codes
    <3>5. Sampled(p).known = Codes
      BY <2>2, <3>3, <3>4
    <3>6. Sampled(p).fresh[500] = 0
      BY <3>3, <3>4
    <3> QED BY <2>2, <3>1, <3>2, <3>5, <3>6, Zenon
  <2>4. CASE s \notin Running
    <3>1. procs'[s] = p
      BY <1>1, <2>1, <2>4
    <3> QED BY <2>2, <2>4, <3>1
  <2> QED BY <2>3, <2>4
<1>3. SeriesInv'
  BY <1>2 DEF SeriesInv
<1>4. Running \subseteq Sides
  BY DEF Running, Sides
<1>5. procs' \in [Sides -> Processes]
  BY <1>1, <1>2
<1> QED BY <1>2, <1>3, <1>4, <1>5

(* A new process takes the place of another. *)
LEMMA NewProcesses ==
  ASSUME procs \in [Sides -> Processes], SeriesInv, NEW s \in Sides, NEW p,
         NEW known \in SUBSET Codes, p \in {NewProcess, [NewProcess EXCEPT !.known = known]},
         procs' = [procs EXCEPT ![s] = p]
  PROVE  /\ procs' \in [Sides -> Processes] /\ SeriesInv'
         /\ procs'[s].fresh[500] = 0
<1>1. p \in Processes /\ p.exposed = Codes /\ ~p.scraped
  BY NewProcessType
<1>2. p.fresh[500] = 0
  <2>1. \A c \in Codes : p.fresh[c] = 0
    BY NewProcessType
  <2> QED BY <2>1 DEF Codes
<1>3. procs' \in [Sides -> Processes] /\ procs'[s] = p /\ \A u \in Sides : u # s => procs'[u] = procs[u]
  BY <1>1
<1>4. SeriesInv'
  BY <1>1, <1>3 DEF SeriesInv
<1> QED BY <1>2, <1>3, <1>4

-----------------------------------------------------------------------------
(* Type correctness *)

(* The types hold initially: one scrape of zeros, nothing firing. *)
LEMMA TypeInit ==
  ASSUME Init
  PROVE  TypeInv /\ SeriesInv
<1>1. RolloutTypes
  <2>1. rollout = [stable |-> Initial, canary |-> None, step |-> 0, wait |-> 0, errors |-> 0]
    BY DEF Init, Serving
  <2> QED BY <2>1, Constants DEF RolloutTypes, canarySteps, canaryPause, consecutiveErrorLimit
<1>2. procs \in [Sides -> Processes] /\ SeriesInv
  <2>1. NewProcess \in Processes /\ NewProcess.exposed = Codes /\ ~NewProcess.scraped
    BY NewProcessType
  <2>2. procs = [s \in Sides |-> NewProcess]
    BY DEF Init
  <2> QED BY <2>1, <2>2 DEF SeriesInv
<1>3. order \in Orders
  BY DEF Init
<1>4. DueInv
  <2>1. due = <<>>
    BY DEF Init
  <2>2. due \in Seq(Events) /\ Len(due) = 0
    BY <2>1
  <2> QED BY <2>2 DEF DueInv
<1>5. CountTypes
  <2>1. Zero \in Tallies
    BY DEF Zero, Tallies
  <2>2. counts = <<Zero>> /\ recorded = 1 /\ judged = 1
    BY DEF Init
  <2>3. counts \in Seq(Tallies) /\ Len(counts) = 1
    BY <2>1, <2>2
  <2> QED BY <2>2, <2>3 DEF CountTypes
<1>6. AlertTypes
  BY DEF Init, AlertTypes
<1>7. ClockTypes
  BY Constants DEF Init, ClockTypes
<1> QED BY <1>1, <1>2, <1>3, <1>4, <1>5, <1>6, <1>7 DEF TypeInv

(* Every step keeps the types and the series: one step per action. *)
LEMMA TypeStep ==
  ASSUME TypeInv, SeriesInv, [Next]_vars
  PROVE  TypeInv' /\ SeriesInv'
<1> USE DEF TypeInv
<1>1. ASSUME NEW down \in BOOLEAN, Serve(down) PROVE TypeInv' /\ SeriesInv'
  <2>1. RolloutTypes'
    BY <1>1, AdvancedType DEF Serve
  <2>2. procs' \in [Sides -> Processes] /\ SeriesInv'
    BY <1>1, <2>1, ServeProcesses
  <2>3. order' = order /\ due' = order /\ DueInv'
    BY <1>1, FirstTurn DEF Serve
  <2>4. CountTypes' /\ AlertTypes'
    BY <1>1 DEF Serve, CountTypes, AlertTypes
  <2>5. ClockTypes'
    <3>1. /\ calm' \in {0, calm + 1} /\ time' = time + 1 /\ time < MaxTime
          /\ releases' = releases /\ lost' = lost
      BY <1>1 DEF Serve
    <3>2. troubles' = troubles \/ (troubles' = troubles + 1 /\ troubles < MaxTroubles)
      BY <1>1 DEF Serve
    <3> QED BY <3>1, <3>2, Constants DEF ClockTypes
  <2> QED BY <2>1, <2>2, <2>3, <2>4, <2>5
<1>2. ASSUME Scrape PROVE TypeInv' /\ SeriesInv'
  <2>1. procs' \in [Sides -> Processes] /\ SeriesInv'
    BY <1>2, ScrapeProcesses
  <2>2. order' = order /\ DueInv'
    BY <1>2, NextTurn DEF Scrape
  <2>3. CountTypes'
    <3>1. PICK t \in Tallies : counts' = Append(counts, t)
      BY <1>2, ScrapeCounts
    <3>2. counts' \in Seq(Tallies) /\ Len(counts') = Len(counts) + 1
      BY <3>1, AppendProperties DEF CountTypes
    <3>3. recorded' = recorded /\ judged' = judged /\ Len(counts) \in Nat
      BY <1>2, LenProperties DEF Scrape, CountTypes
    <3> QED BY <3>2, <3>3 DEF CountTypes
  <2>4. RolloutTypes' /\ AlertTypes' /\ ClockTypes'
    BY <1>2 DEF Scrape, RolloutTypes, AlertTypes, ClockTypes
  <2> QED BY <2>1, <2>2, <2>3, <2>4
<1>3. ASSUME Record PROVE TypeInv' /\ SeriesInv'
  <2>1. order' = order /\ DueInv'
    BY <1>3, NextTurn DEF Record
  <2>2. CountTypes'
    <3>1. counts' = counts /\ judged' = judged /\ recorded' = Len(counts)
      BY <1>3 DEF Record
    <3>2. Len(counts) \in Nat
      BY LenProperties DEF CountTypes
    <3> QED BY <3>1, <3>2 DEF CountTypes
  <2>3. RolloutTypes' /\ AlertTypes' /\ ClockTypes' /\ procs' = procs
    BY <1>3 DEF Record, RolloutTypes, AlertTypes, ClockTypes
  <2> QED BY <2>1, <2>2, <2>3 DEF SeriesInv
<1>4. ASSUME Alert PROVE TypeInv' /\ SeriesInv'
  <2>1. order' = order /\ DueInv'
    BY <1>4, NextTurn DEF Alert
  <2>2. CountTypes'
    <3>1. counts' = counts /\ judged' = recorded /\ recorded' = recorded
      BY <1>4 DEF Alert
    <3> QED BY <3>1, LenProperties DEF CountTypes
  <2>3. AlertTypes'
    BY <1>4 DEF Alert, AlertTypes, AlertRules
  <2>4. RolloutTypes' /\ ClockTypes' /\ procs' = procs
    BY <1>4 DEF Alert, RolloutTypes, ClockTypes
  <2> QED BY <2>1, <2>2, <2>3, <2>4 DEF SeriesInv
<1>5. ASSUME Measured PROVE TypeInv' /\ SeriesInv'
  <2>1. order' = order /\ DueInv'
    BY <1>5, Analysed, NextTurn
  <2>2. RolloutTypes'
    <3>1. rollout.stable \in Releases
      BY DEF RolloutTypes
    <3>2. CASE rollout' = Serving(rollout.stable)
      BY <3>1, <3>2 DEF Serving, RolloutTypes, canarySteps, canaryPause, consecutiveErrorLimit
    <3>3. ASSUME NEW e \in 0 .. consecutiveErrorLimit, rollout' = WithErrors(e)
          PROVE  RolloutTypes'
      BY <3>3 DEF WithErrors, RolloutTypes, consecutiveErrorLimit
    <3> QED BY <1>5, <3>2, <3>3, Analysed
  <2>3. CountTypes' /\ AlertTypes' /\ procs' = procs
    BY <1>5, Analysed DEF CountTypes, AlertTypes
  <2>4. ClockTypes'
    BY <1>5, Analysed, Constants DEF ClockTypes
  <2> QED BY <2>1, <2>2, <2>3, <2>4 DEF SeriesInv
<1>6. ASSUME NEW release \in Releases, Deploy(release) PROVE TypeInv' /\ SeriesInv'
  <2>1. order' = order /\ due' = due
    BY <1>6 DEF Deploy
  <2>2. RolloutTypes'
    <3>1. CASE rollout' = Serving(release)
      BY <3>1 DEF Serving, RolloutTypes, canarySteps, canaryPause, consecutiveErrorLimit
    <3>2. CASE rollout' = Starting(release)
      <4>1. rollout' = [stable |-> rollout.stable, canary |-> release, step |-> 1, wait |-> 4,
                        errors |-> 0]
        BY <3>2 DEF Starting, canaryPause, RolloutTypes
      <4>2. rollout.stable \in Releases
        BY DEF RolloutTypes
      <4> QED BY <4>1, <4>2 DEF RolloutTypes, canarySteps, canaryPause, consecutiveErrorLimit
    <3> QED BY <1>6, <3>1, <3>2 DEF Deploy
  <2>3. procs' \in [Sides -> Processes] /\ SeriesInv'
    <3>1. procs' = [procs EXCEPT !["canary"] = NewProcess] /\ "canary" \in Sides
      BY <1>6 DEF Deploy, Sides
    <3> QED BY <3>1, NewProcesses
  <2>4. ClockTypes'
    BY <1>6, Constants DEF Deploy, ClockTypes
  <2>5. CountTypes' /\ AlertTypes' /\ DueInv'
    BY <1>6 DEF Deploy, CountTypes, AlertTypes, DueInv
  <2> QED BY <2>1, <2>2, <2>3, <2>4, <2>5
<1>7. ASSUME NEW s \in Sides, Restart(s) PROVE TypeInv' /\ SeriesInv'
  <2>1. PICK known \in {{}, procs[s].known} :
          procs' = [procs EXCEPT ![s] = [NewProcess EXCEPT !.known = known]]
    BY <1>7 DEF Restart
  <2>2. known \in SUBSET Codes
    BY <2>1 DEF Processes
  <2>3. procs' \in [Sides -> Processes] /\ SeriesInv'
    BY <2>1, <2>2, NewProcesses
  <2>4. ClockTypes'
    BY <1>7, Constants DEF Restart, ClockTypes
  <2>5. RolloutTypes' /\ CountTypes' /\ AlertTypes' /\ DueInv' /\ order' = order
    BY <1>7 DEF Restart, RolloutTypes, CountTypes, AlertTypes, DueInv
  <2> QED BY <2>3, <2>4, <2>5
<1>8. ASSUME UNCHANGED vars PROVE TypeInv' /\ SeriesInv'
  <2>1. RolloutTypes' /\ CountTypes' /\ AlertTypes' /\ DueInv' /\ ClockTypes'
    BY <1>8 DEF vars, RolloutTypes, CountTypes, AlertTypes, DueInv, ClockTypes
  <2>2. order' = order /\ procs' = procs
    BY <1>8 DEF vars
  <2> QED BY <2>1, <2>2 DEF SeriesInv
<1> QED BY <1>1, <1>2, <1>3, <1>4, <1>5, <1>6, <1>7, <1>8 DEF Next, Measured

(* What is due is a tail of the order. *)
LEMMA DueIsTail ==
  ASSUME order \in Orders, DueInv
  PROVE  due \in {<<>>} \cup { SubSeq(order, i, 4) : i \in 1 .. 4 }
<1>1. CASE due = <<>>
  BY <1>1
<1>2. CASE due # <<>>
  <2>1. PICK n \in 1 .. 4 : n = Len(due)
    BY <1>2, LastIndex DEF DueInv
  <2>2. 5 - n \in 1 .. 4
    <3>1. \A k \in 1 .. 4 : 5 - k \in 1 .. 4
      OBVIOUS
    <3> QED BY <2>1, <3>1, Zenon
  <2>3. \A i \in 5 - n .. 4 : order[i] \in Events
    BY <2>1 DEF Orders, Events
  <2>4. PICK t : t = SubSeq(order, 5 - n, 4)
    OBVIOUS
  <2>5. t \in Seq(Events)
    BY <2>1, <2>3, <2>4, SubSeqProperties
  <2>6. Len(t) = IF 5 - n <= 4 THEN 4 - (5 - n) + 1 ELSE 0
    BY <2>1, <2>3, <2>4, SubSeqProperties
  <2>7. \A i \in 1 .. 4 - (5 - n) + 1 : t[i] = order[(5 - n) + i - 1]
    BY <2>1, <2>3, <2>4, SubSeqProperties
  <2>8. Len(t) = n /\ 4 - (5 - n) + 1 = n
    BY <2>1, <2>6
  <2>9. \A i \in 1 .. n : t[i] = order[4 - n + i]
    <3>1. ASSUME NEW i \in 1 .. n PROVE t[i] = order[4 - n + i]
      <4>1. (5 - n) + i - 1 = 4 - n + i /\ i \in 1 .. 4 - (5 - n) + 1
        BY <2>1, <2>8, <3>1
      <4> QED BY <2>7, <4>1
    <3> QED BY <3>1
  <2>10. \A i \in 1 .. n : due[i] = order[4 - n + i]
    BY <2>1 DEF DueInv
  <2>11. due = t
    <3>1. due \in Seq(Events) /\ Len(due) = Len(t)
      BY <2>1, <2>8 DEF DueInv
    <3>2. \A i \in 1 .. Len(due) : due[i] = t[i]
      BY <2>1, <2>9, <2>10
    <3> QED BY <2>5, <3>1, <3>2, SeqEqual
  <2> QED BY <2>2, <2>4, <2>11
<1> QED BY <1>1, <1>2

(* Every state of the service is of its type. *)
THEOREM TypeCorrect == Spec => []TypeOK
<1>1. Init => TypeInv /\ SeriesInv
  BY TypeInit
<1>2. (TypeInv /\ SeriesInv) /\ [Next]_vars => (TypeInv /\ SeriesInv)'
  BY TypeStep
<1>3. TypeInv => TypeOK
  <2> SUFFICES ASSUME TypeInv PROVE TypeOK
    OBVIOUS
  <2>1. /\ rollout \in [stable : Releases, canary : Releases \cup {None},
                        step : 0 .. Len(canarySteps), wait : 0 .. canaryPause,
                        errors : 0 .. consecutiveErrorLimit]
    BY DEF TypeInv, RolloutTypes
  <2>2. procs \in [Sides -> [exposed : SUBSET Codes, known : SUBSET Codes,
                             fresh : [Codes -> Nat], scraped : BOOLEAN]]
    BY DEF TypeInv, Processes
  <2>3. order \in Orders /\ due \in {<<>>} \cup { SubSeq(order, i, 4) : i \in 1 .. 4 }
    BY DueIsTail DEF TypeInv
  <2>4. counts \in Seq([bad : Nat, total : Nat])
    BY DEF TypeInv, CountTypes, Tallies
  <2>5. recorded \in DOMAIN counts /\ judged \in 1 .. recorded
    BY <2>4, LenProperties DEF TypeInv, CountTypes
  <2>6. firing \subseteq fired /\ fired \subseteq burnRateAlerts
    BY DEF TypeInv, AlertTypes
  <2>7. /\ calm \in 0 .. MaxTime + 1 /\ time \in 0 .. MaxTime
        /\ releases \in 0 .. MaxReleases /\ troubles \in 0 .. MaxTroubles
        /\ lost \in 0 .. MaxLost
    BY Constants DEF TypeInv, ClockTypes
  <2> QED BY <2>1, <2>2, <2>3, <2>4, <2>5, <2>6, <2>7 DEF TypeOK
<1> QED BY <1>1, <1>2, <1>3, PTL DEF Spec

(* No failure hides in the creation of its series (newHandler). *)
THEOREM Counted == Spec => []AnswersAreCounted
<1>1. Init => TypeInv /\ SeriesInv
  BY TypeInit
<1>2. (TypeInv /\ SeriesInv) /\ [Next]_vars => (TypeInv /\ SeriesInv)'
  BY TypeStep
<1>3. SeriesInv => AnswersAreCounted
  BY DEF SeriesInv, AnswersAreCounted, Running, Sides
<1> QED BY <1>1, <1>2, <1>3, PTL DEF Spec

-----------------------------------------------------------------------------
(* Scrape, record, alert: how far each is behind the other *)

(* Recording rules and alerts are at most a round behind what they read,   *)
(* and not behind at all between their own turn and its next one.  This is *)
(* where the order of the interval matters.                                *)
ScheduleInv ==
  /\ Len(counts) <= recorded + 1 /\ recorded <= judged + 1
  /\ Place("scrape") < Place("record") =>
       (Turn <= Place("scrape") \/ Turn > Place("record") => Len(counts) = recorded)
  /\ Place("record") < Place("scrape") =>
       (Place("record") < Turn /\ Turn <= Place("scrape") => Len(counts) = recorded)
  /\ Place("record") < Place("alert") =>
       (Turn <= Place("record") \/ Turn > Place("alert") => recorded = judged)
  /\ Place("alert") < Place("record") =>
       (Place("alert") < Turn /\ Turn <= Place("record") => recorded = judged)

(* The places of scrape, record and alert are three places, and record and *)
(* alert are next to each other.                                           *)
LEMMA Apart ==
  ASSUME order \in Orders
  PROVE  /\ Place("scrape") \in 1 .. 4 /\ Place("record") \in 1 .. 4
         /\ Place("alert") \in 1 .. 4 /\ Place("measure") \in 1 .. 4
         /\ Place("scrape") # Place("record") /\ Place("scrape") # Place("alert")
         /\ Place("scrape") # Place("measure") /\ Place("record") # Place("measure")
         /\ Place("alert") # Place("measure")
         /\ Place("alert") \in {Place("record") - 1, Place("record") + 1}
<1>1. \A x \in Events : Place(x) \in 1 .. 4 /\ order[Place(x)] = x
  BY Places
<1>2. {"scrape", "record", "alert", "measure"} \subseteq Events
  BY DEF Events
<1>3. \A i, j \in 1 .. 4 : order[i] = "record" /\ order[j] = "alert" => j \in {i - 1, i + 1}
  BY DEF Orders
<1>4. /\ Place("scrape") \in 1 .. 4 /\ Place("record") \in 1 .. 4
      /\ Place("alert") \in 1 .. 4 /\ Place("measure") \in 1 .. 4
  BY <1>1, <1>2
<1>5. /\ order[Place("scrape")] = "scrape" /\ order[Place("record")] = "record"
      /\ order[Place("alert")] = "alert" /\ order[Place("measure")] = "measure"
  BY <1>1, <1>2
<1>6. /\ Place("scrape") # Place("record") /\ Place("scrape") # Place("alert")
      /\ Place("scrape") # Place("measure") /\ Place("record") # Place("measure")
      /\ Place("alert") # Place("measure")
  BY <1>5
<1>7. Place("alert") \in {Place("record") - 1, Place("record") + 1}
  BY <1>3, <1>4, <1>5
<1> QED BY <1>4, <1>6, <1>7

(* At first nothing is behind: all have seen the one tally. *)
LEMMA ScheduleInit ==
  ASSUME Init, TypeInv
  PROVE  ScheduleInv
<1>1. Turn = 5
  BY TurnOf DEF Init, TypeInv
<1>2. Len(counts) = 1 /\ recorded = 1 /\ judged = 1
  BY DEF Init
<1>3. order \in Orders
  BY DEF TypeInv
<1> QED BY <1>1, <1>2, <1>3, Apart DEF ScheduleInv

(* What each step does to the interval's turn and to the three positions. *)
LEMMA Rounds ==
  ASSUME TypeInv, [Next]_vars
  PROVE  /\ order' = order
         /\ \/ /\ \E down \in BOOLEAN : Serve(down)
               /\ Turn = 5 /\ Turn' = 1
               /\ counts' = counts /\ recorded' = recorded /\ judged' = judged
            \/ /\ Scrape /\ Turn = Place("scrape") /\ Turn' = Turn + 1
               /\ Len(counts') = Len(counts) + 1 /\ recorded' = recorded /\ judged' = judged
            \/ /\ Record /\ Turn = Place("record") /\ Turn' = Turn + 1
               /\ counts' = counts /\ recorded' = Len(counts) /\ judged' = judged
            \/ /\ Alert /\ Turn = Place("alert") /\ Turn' = Turn + 1
               /\ counts' = counts /\ recorded' = recorded /\ judged' = recorded
            \/ /\ Measured /\ Turn = Place("measure") /\ Turn' = Turn + 1
               /\ counts' = counts /\ recorded' = recorded /\ judged' = judged
            \/ /\ Turn' = Turn
               /\ counts' = counts /\ recorded' = recorded /\ judged' = judged
<1> USE DEF TypeInv
<1>1. ASSUME NEW down \in BOOLEAN, Serve(down)
      PROVE  /\ order' = order /\ Turn = 5 /\ Turn' = 1
             /\ counts' = counts /\ recorded' = recorded /\ judged' = judged
  <2>1. due = <<>> /\ order' = order /\ due' = order
    BY <1>1 DEF Serve
  <2>2. Turn = 5
    BY <2>1, TurnOf
  <2>3. Turn' = 1
    BY <2>1, FirstTurn
  <2> QED BY <1>1, <2>1, <2>2, <2>3 DEF Serve
<1>2. ASSUME Scrape
      PROVE  /\ order' = order /\ Turn = Place("scrape") /\ Turn' = Turn + 1
             /\ Len(counts') = Len(counts) + 1 /\ recorded' = recorded /\ judged' = judged
  <2>1. due # <<>> /\ Head(due) = "scrape" /\ order' = order /\ due' = Tail(due)
    BY <1>2 DEF Scrape
  <2>2. Turn = Place("scrape")
    BY <2>1, TurnOf
  <2>3. Turn' = Turn + 1
    BY <2>1, NextTurn
  <2>4. Len(counts') = Len(counts) + 1
    BY <1>2, ScrapeCounts, AppendProperties DEF CountTypes
  <2> QED BY <1>2, <2>1, <2>2, <2>3, <2>4 DEF Scrape
<1>3. ASSUME Record
      PROVE  /\ order' = order /\ Turn = Place("record") /\ Turn' = Turn + 1
             /\ counts' = counts /\ recorded' = Len(counts) /\ judged' = judged
  <2>1. due # <<>> /\ Head(due) = "record" /\ order' = order /\ due' = Tail(due)
    BY <1>3 DEF Record
  <2>2. Turn = Place("record")
    BY <2>1, TurnOf
  <2>3. Turn' = Turn + 1
    BY <2>1, NextTurn
  <2> QED BY <1>3, <2>1, <2>2, <2>3 DEF Record
<1>4. ASSUME Alert
      PROVE  /\ order' = order /\ Turn = Place("alert") /\ Turn' = Turn + 1
             /\ counts' = counts /\ recorded' = recorded /\ judged' = recorded
  <2>1. due # <<>> /\ Head(due) = "alert" /\ order' = order /\ due' = Tail(due)
    BY <1>4 DEF Alert
  <2>2. Turn = Place("alert")
    BY <2>1, TurnOf
  <2>3. Turn' = Turn + 1
    BY <2>1, NextTurn
  <2> QED BY <1>4, <2>1, <2>2, <2>3 DEF Alert
<1>5. ASSUME Measured
      PROVE  /\ order' = order /\ Turn = Place("measure") /\ Turn' = Turn + 1
             /\ counts' = counts /\ recorded' = recorded /\ judged' = judged
  <2>1. due # <<>> /\ Head(due) = "measure" /\ order' = order /\ due' = Tail(due)
    BY <1>5, Analysed
  <2>2. Turn = Place("measure")
    BY <2>1, TurnOf
  <2>3. Turn' = Turn + 1
    BY <2>1, NextTurn
  <2> QED BY <1>5, <2>1, <2>2, <2>3, Analysed
<1>6. ASSUME NEW release \in Releases, Deploy(release)
      PROVE  /\ order' = order /\ Turn' = Turn
             /\ counts' = counts /\ recorded' = recorded /\ judged' = judged
  BY <1>6 DEF Deploy, Turn
<1>7. ASSUME NEW s \in Sides, Restart(s)
      PROVE  /\ order' = order /\ Turn' = Turn
             /\ counts' = counts /\ recorded' = recorded /\ judged' = judged
  BY <1>7 DEF Restart, Turn
<1>8. ASSUME UNCHANGED vars
      PROVE  /\ order' = order /\ Turn' = Turn
             /\ counts' = counts /\ recorded' = recorded /\ judged' = judged
  BY <1>8 DEF vars, Turn
<1> QED BY <1>1, <1>2, <1>3, <1>4, <1>5, <1>6, <1>7, <1>8 DEF Next, Measured

(* Whoever is up reads the newest of what it reads, and the order is fixed. *)
LEMMA ScheduleStep ==
  ASSUME TypeInv, ScheduleInv, [Next]_vars
  PROVE  ScheduleInv'
<1>1. order' = order /\ Place("scrape")' = Place("scrape") /\ Place("record")' = Place("record")
      /\ Place("alert")' = Place("alert")
  BY Rounds DEF Place
<1>2. PICK s \in 1 .. 4, r \in 1 .. 4, a \in 1 .. 4, m \in 1 .. 4 :
        /\ s = Place("scrape") /\ r = Place("record") /\ a = Place("alert") /\ m = Place("measure")
        /\ s # r /\ s # a /\ s # m /\ r # m /\ a # m /\ a \in {r - 1, r + 1}
  BY Apart DEF TypeInv
<1>3. PICK L \in Nat, R \in Nat, J \in Nat, T \in 1 .. 5 :
        L = Len(counts) /\ R = recorded /\ J = judged /\ T = Turn /\ R <= L /\ J <= R
  <2>1. Len(counts) \in Nat /\ recorded \in 1 .. Len(counts) /\ judged \in 1 .. recorded
    BY LenProperties DEF TypeInv, CountTypes
  <2>2. Turn \in 1 .. 5
    BY TurnOf DEF TypeInv
  <2>3. recorded \in Nat /\ recorded <= Len(counts)
    BY <2>1
  <2>4. judged \in Nat /\ judged <= recorded
    BY <2>1, <2>3
  <2> QED BY <2>1, <2>2, <2>3, <2>4, Zenon
<1>4. PICK l, u, j, t : l = Len(counts') /\ u = recorded' /\ j = judged' /\ t = Turn'
  OBVIOUS
<1>5. \/ T = 5 /\ t = 1 /\ l = L /\ u = R /\ j = J
      \/ T = s /\ t = T + 1 /\ l = L + 1 /\ u = R /\ j = J
      \/ T = r /\ t = T + 1 /\ l = L /\ u = L /\ j = J
      \/ T = a /\ t = T + 1 /\ l = L /\ u = R /\ j = R
      \/ T = m /\ t = T + 1 /\ l = L /\ u = R /\ j = J
      \/ t = T /\ l = L /\ u = R /\ j = J
  BY <1>2, <1>3, <1>4, Rounds
<1>6. /\ L <= R + 1 /\ R <= J + 1
      /\ s < r => (T <= s \/ T > r => L = R)
      /\ r < s => (r < T /\ T <= s => L = R)
      /\ r < a => (T <= r \/ T > a => R = J)
      /\ a < r => (a < T /\ T <= r => R = J)
  BY <1>2, <1>3 DEF ScheduleInv
<1>7. /\ l <= u + 1 /\ u <= j + 1
      /\ s < r => (t <= s \/ t > r => l = u)
      /\ r < s => (r < t /\ t <= s => l = u)
      /\ r < a => (t <= r \/ t > a => u = j)
      /\ a < r => (a < t /\ t <= r => u = j)
  <2>1. CASE T = 5 /\ t = 1 /\ l = L /\ u = R /\ j = J
    BY <1>2, <1>3, <1>6, <2>1
  <2>2. CASE T = s /\ t = T + 1 /\ l = L + 1 /\ u = R /\ j = J
    BY <1>2, <1>3, <1>6, <2>2
  <2>3. CASE T = r /\ t = T + 1 /\ l = L /\ u = L /\ j = J
    BY <1>2, <1>3, <1>6, <2>3
  <2>4. CASE T = a /\ t = T + 1 /\ l = L /\ u = R /\ j = R
    BY <1>2, <1>3, <1>6, <2>4
  <2>5. CASE T = m /\ t = T + 1 /\ l = L /\ u = R /\ j = J
    BY <1>2, <1>3, <1>6, <2>5
  <2>6. CASE t = T /\ l = L /\ u = R /\ j = J
    BY <1>2, <1>3, <1>6, <2>6
  <2> QED BY <1>5, <2>1, <2>2, <2>3, <2>4, <2>5, <2>6, Zenon
<1> QED BY <1>1, <1>2, <1>4, <1>7 DEF ScheduleInv

-----------------------------------------------------------------------------
(* The tallies *)

(* The counters start at zero and never go back, and count no more         *)
(* failures than requests, over any stretch of scrapes.                    *)
TallyInv ==
  /\ counts[1] = Zero
  /\ \A m, n \in 1 .. Len(counts) : m <= n =>
       /\ counts[m].bad <= counts[n].bad
       /\ counts[n].bad - counts[m].bad <= counts[n].total - counts[m].total

(* A tally once taken stays; only a scrape takes one. *)
LEMMA CountsGrow ==
  ASSUME TypeInv, [Next]_vars
  PROVE  /\ Len(counts) \in Nat \ {0} /\ Len(counts) <= Len(counts')
         /\ \A i \in 1 .. Len(counts) : counts'[i] = counts[i] /\ counts[i] \in Tallies
         /\ counts' = counts \/ Scrape
<1>1. Len(counts) \in Nat \ {0} /\ counts \in Seq(Tallies)
  BY LenProperties DEF TypeInv, CountTypes
<1>2. CASE counts' = counts
  BY <1>1, <1>2
<1>3. CASE Scrape
  <2>1. PICK t \in Tallies : counts' = Append(counts, t)
    BY <1>3, ScrapeCounts
  <2>2. Len(counts') = Len(counts) + 1 /\ \A i \in 1 .. Len(counts) : counts'[i] = counts[i]
    BY <1>1, <2>1, AppendProperties
  <2>3. \A i \in 1 .. Len(counts) : counts[i] \in Tallies
    BY <1>1, ElementOfSeq
  <2> QED BY <1>1, <1>3, <2>2, <2>3
<1>4. counts' = counts \/ Scrape
  BY Rounds
<1> QED BY <1>2, <1>3, <1>4

(* Only a scrape adds a tally, and it adds to the last. *)
LEMMA TallyStep ==
  ASSUME TypeInv, TallyInv, [Next]_vars
  PROVE  TallyInv'
<1>1. CASE counts' = counts
  BY <1>1 DEF TallyInv
<1>2. CASE Scrape
  <2>1. PICK t \in Tallies :
          /\ counts' = Append(counts, t)
          /\ counts[Len(counts)].bad <= t.bad
          /\ t.bad - counts[Len(counts)].bad <= t.total - counts[Len(counts)].total
    BY <1>2, ScrapeCounts
  <2>2. PICK L \in Nat \ {0} : L = Len(counts)
    BY CountsGrow
  <2>3. counts \in Seq(Tallies)
    BY DEF TypeInv, CountTypes
  <2>4. PICK c : c = Append(counts, t)
    OBVIOUS
  <2>5. Len(c) = L + 1
    BY <2>1, <2>2, <2>3, <2>4, AppendProperties
  <2>6. \A i \in 1 .. L : c[i] = counts[i]
    BY <2>1, <2>2, <2>3, <2>4, AppendProperties
  <2>7. c[L + 1] = t
    BY <2>1, <2>2, <2>3, <2>4, AppendProperties
  <2>8. \A i \in 1 .. L : counts[i] \in Tallies
    BY <2>2, <2>3, ElementOfSeq
  <2>9. c[1] = Zero
    BY <2>2, <2>6 DEF TallyInv
  <2>10. ASSUME NEW m \in 1 .. L + 1, NEW n \in 1 .. L + 1, m <= n
         PROVE  c[m].bad <= c[n].bad /\ c[n].bad - c[m].bad <= c[n].total - c[m].total
    <3>1. CASE n <= L
      <4>1. m \in 1 .. L /\ n \in 1 .. L
        BY <2>2, <2>10, <3>1
      <4> QED BY <2>2, <2>6, <2>10, <4>1 DEF TallyInv
    <3>2. CASE n = L + 1 /\ m <= L
      <4>1. m \in 1 .. L /\ L \in 1 .. L /\ m <= L
        BY <2>2, <2>10, <3>2
      <4>2. /\ counts[m].bad <= counts[L].bad
            /\ counts[L].bad - counts[m].bad <= counts[L].total - counts[m].total
        BY <2>2, <4>1 DEF TallyInv
      <4>3. counts[L].bad <= t.bad /\ t.bad - counts[L].bad <= t.total - counts[L].total
        BY <2>1, <2>2
      <4>4. PICK p \in Tallies, q \in Tallies : p = counts[m] /\ q = counts[L]
        BY <2>8, <4>1
      <4>5. /\ p.bad \in Nat /\ p.total \in Nat /\ q.bad \in Nat /\ q.total \in Nat
            /\ t.bad \in Nat /\ t.total \in Nat
        BY <2>1, <4>4 DEF Tallies
      <4>6. p.bad <= t.bad /\ t.bad - p.bad <= t.total - p.total
        BY <4>2, <4>3, <4>4, <4>5
      <4> QED BY <2>6, <2>7, <3>2, <4>1, <4>4, <4>6
    <3>3. CASE n = L + 1 /\ m = L + 1
      <4>1. t.bad \in Nat /\ t.total \in Nat
        BY <2>1 DEF Tallies
      <4> QED BY <2>7, <3>3, <4>1
    <3> QED BY <2>2, <2>10, <3>1, <3>2, <3>3
  <2>11. counts' = c
    BY <2>1, <2>4
  <2> QED BY <2>5, <2>9, <2>10, <2>11 DEF TallyInv
<1> QED BY <1>1, <1>2, CountsGrow

-----------------------------------------------------------------------------
(* No burn without an alert *)

(* A budget that had been overspent at some evaluation has been alerted. *)
BurnInv ==
  \A n \in 1 .. judged, a \in burnRateAlerts : AboveThreshold(a, counts[n]) => a \in fired

(* The first sample of a window of n scrapes. *)
FirstOf(n, w) == IF n < w THEN 1 ELSE n - w + 1

(* What an alert's threshold means in whole requests. *)
LEMMA Above ==
  ASSUME NEW a \in burnRateAlerts, NEW b \in Nat, NEW n \in Nat
  PROVE  /\ a.rate * Budget \in Nat
         /\ AboveThreshold(a, [bad |-> b, total |-> n]) <=> n > 0 /\ b * 10000 > (a.rate * Budget) * n
<1>1. a.rate \in Nat /\ Budget \in Nat
  BY Constants
<1>2. PICK th \in Nat : th = a.rate * Budget
  BY <1>1
<1>3. PICK c : c = [bad |-> b, total |-> n]
  OBVIOUS
<1>4. c.bad = b /\ c.total = n
  BY <1>3
<1>7. AboveThreshold(a, c) <=> (n > 0 /\ b * 10000 > th * n)
  BY <1>2, <1>4 DEF AboveThreshold, Exceeds
<1>8. a.rate * Budget \in Nat
  BY <1>1
<1>9. AboveThreshold(a, [bad |-> b, total |-> n]) <=> (n > 0 /\ b * 10000 > th * n)
  BY <1>3, <1>7
<1> QED BY <1>2, <1>8, <1>9

(* The first time the tally is above the threshold, so is every window     *)
(* that starts before: what it leaves out is below.                        *)
LEMMA FirstBurn ==
  ASSUME NEW th \in Nat, NEW b \in Nat, NEW n \in Nat, NEW x \in Nat, NEW y \in Nat,
         n > 0, b * 10000 > th * n, ~(y > 0 /\ x * 10000 > th * y),
         x <= b, x <= y, b - x <= n - y
  PROVE  n - y > 0 /\ (b - x) * 10000 > th * (n - y)
<1>1. x * 10000 <= th * y
  <2>1. CASE y > 0
    <3>1. th * y \in Nat
      OBVIOUS
    <3> QED BY <2>1, <3>1
  <2>2. CASE y = 0
    <3>1. x = 0 /\ th * y = 0
      BY <2>2
    <3> QED BY <3>1
  <2> QED BY <2>1, <2>2
<1>2. PICK p \in Nat, q \in Nat : p = th * n /\ q = th * y
  OBVIOUS
<1>3. PICK d \in Nat : d = n - y
  OBVIOUS
<1>4. th * d = p - q
  <2>1. n = y + d
    BY <1>3
  <2>2. th * (y + d) = th * y + th * d
    BY <1>3
  <2>3. th * d \in Nat
    BY <1>3
  <2> QED BY <1>2, <2>1, <2>2, <2>3
<1>5. (b - x) * 10000 > p - q
  BY <1>1, <1>2
<1>6. d > 0
  <2>1. CASE d = 0
    <3>1. b = x /\ n = y
      BY <1>3, <2>1
    <3> QED BY <1>1, <3>1
  <2> QED BY <1>3, <2>1
<1> QED BY <1>3, <1>4, <1>5, <1>6

(* An evaluation that sees a burn for the first time fires (FirstBurn). *)
LEMMA BurnStep ==
  ASSUME TypeInv, ScheduleInv, TallyInv, BurnInv, [Next]_vars
  PROVE  BurnInv'
<1>1. PICK R \in Nat \ {0}, J \in Nat \ {0}, L \in Nat \ {0} :
        R = recorded /\ J = judged /\ L = Len(counts) /\ R <= L /\ J <= R /\ R <= J + 1
  <2>1. Len(counts) \in Nat /\ recorded \in 1 .. Len(counts) /\ judged \in 1 .. recorded
    BY LenProperties DEF TypeInv, CountTypes
  <2>2. recorded \in Nat \ {0} /\ recorded <= Len(counts) /\ Len(counts) \in Nat \ {0}
    BY <2>1
  <2>3. judged \in Nat \ {0} /\ judged <= recorded
    BY <2>1, <2>2
  <2>4. recorded <= judged + 1
    BY DEF ScheduleInv
  <2> QED BY <2>2, <2>3, <2>4, Zenon
<1>2. CASE Alert
  <2>1. fired' = fired \cup AlertRules /\ judged' = R /\ counts' = counts
    BY <1>1, <1>2 DEF Alert
  <2>2. ASSUME NEW a \in burnRateAlerts, R = J + 1, AboveThreshold(a, counts[R]), a \notin fired
        PROVE  a \in AlertRules
    <3>1. ASSUME NEW w \in Nat, w >= 2 PROVE AboveThreshold(a, Increase(recorded, w))
      <4>1. PICK f : f = FirstOf(R, w)
        OBVIOUS
      <4>2. f \in 1 .. J
        BY <1>1, <2>2, <3>1, <4>1 DEF FirstOf
      <4>3. f \in 1 .. L /\ R \in 1 .. L /\ 1 \in 1 .. L /\ f <= R /\ 1 <= f /\ 1 <= R
        BY <1>1, <4>2
      <4>4. PICK c \in Tallies, d \in Tallies : c = counts[f] /\ d = counts[R]
        BY <1>1, <4>3, CountsGrow
      <4>5. PICK x \in Nat, y \in Nat, b \in Nat, n \in Nat :
              c = [bad |-> x, total |-> y] /\ d = [bad |-> b, total |-> n]
        BY DEF Tallies
      <4>6. x <= b /\ b - x <= n - y
        <5>1. /\ counts[f].bad <= counts[R].bad
              /\ counts[R].bad - counts[f].bad <= counts[R].total - counts[f].total
          BY <1>1, <4>3 DEF TallyInv
        <5>2. c.bad = x /\ c.total = y /\ d.bad = b /\ d.total = n
          BY <4>5
        <5> QED BY <4>4, <5>1, <5>2, Zenon
      <4>7. x <= y
        <5>1. counts[1].bad = 0 /\ counts[1].total = 0
          BY DEF TallyInv, Zero
        <5>2. counts[f].bad - counts[1].bad <= counts[f].total - counts[1].total
          BY <1>1, <4>3 DEF TallyInv
        <5>3. x - 0 <= y - 0
          BY <4>4, <4>5, <5>1, <5>2
        <5> QED BY <4>5, <5>3
      <4>8. ~AboveThreshold(a, [bad |-> x, total |-> y])
        BY <1>1, <2>2, <4>2, <4>4, <4>5 DEF BurnInv
      <4>9. AboveThreshold(a, [bad |-> b, total |-> n])
        BY <2>2, <4>4, <4>5
      <4>10. PICK th \in Nat : th = a.rate * Budget
        <5>1. a.rate \in Nat /\ Budget \in Nat
          BY <2>2, Constants
        <5> QED BY <5>1
      <4>11. ~(y > 0 /\ x * 10000 > th * y)
        BY <2>2, <4>5, <4>8, <4>10, Above
      <4>12. n > 0 /\ b * 10000 > th * n
        BY <2>2, <4>5, <4>9, <4>10, Above
      <4>13. n - y > 0 /\ (b - x) * 10000 > th * (n - y)
        BY <4>5, <4>6, <4>7, <4>10, <4>11, <4>12, FirstBurn
      <4>14. PICK u \in Nat, v \in Nat : u = b - x /\ v = n - y
        BY <4>5, <4>6, <4>13
      <4>15. v > 0 /\ u * 10000 > th * v
        BY <4>13, <4>14
      <4>16. AboveThreshold(a, [bad |-> u, total |-> v])
        BY <2>2, <4>10, <4>14, <4>15, Above
      <4>17. Increase(recorded, w) = [bad |-> u, total |-> v]
        BY <1>1, <4>1, <4>4, <4>5, <4>14 DEF Increase, FirstOf
      <4> QED BY <4>16, <4>17
    <3>2. Burning(a, a.long) /\ Burning(a, a.short)
      <4>1. /\ Intervals[a.long] \in Nat /\ Intervals[a.long] >= 2
            /\ Intervals[a.short] \in Nat /\ Intervals[a.short] >= 2
        BY <2>2, Constants
      <4> QED BY <3>1, <4>1, Zenon DEF Burning
    <3> QED BY <2>2, <3>2 DEF AlertRules
  <2>3. ASSUME NEW n \in 1 .. R, NEW a \in burnRateAlerts, AboveThreshold(a, counts[n])
        PROVE  a \in fired \cup AlertRules
    <3>1. CASE n \in 1 .. J
      BY <1>1, <2>3, <3>1 DEF BurnInv
    <3>2. CASE n \notin 1 .. J
      <4>1. n = R /\ R = J + 1
        BY <1>1, <2>3, <3>2
      <4> QED BY <2>2, <2>3, <4>1
    <3> QED BY <3>1, <3>2
  <2>4. \A n \in 1 .. R, a \in burnRateAlerts : AboveThreshold(a, counts[n]) => a \in fired'
    BY <2>1, <2>3
  <2> QED BY <2>1, <2>4 DEF BurnInv, AboveThreshold, Exceeds
<1>3. CASE judged' = judged
  <2>1. fired \subseteq fired'
    BY DEF Next, Serve, Scrape, Record, Alert, Measure, QueryFails, Deploy, Restart, vars
  <2>2. \A n \in 1 .. J : counts'[n] = counts[n]
    BY <1>1, CountsGrow
  <2> QED BY <1>1, <1>3, <2>1, <2>2 DEF BurnInv, AboveThreshold, Exceeds
<1> QED BY <1>2, <1>3, Rounds

(* Nobody burns their budget unnoticed (AlertRules). *)
THEOREM BurnNoticed == Spec => []NoSilentBurn
<1> DEFINE I == TypeInv /\ SeriesInv /\ ScheduleInv /\ TallyInv /\ BurnInv
<1>1. Init => I
  <2> SUFFICES ASSUME Init PROVE I
    OBVIOUS
  <2>1. TypeInv /\ SeriesInv /\ ScheduleInv
    BY TypeInit, ScheduleInit
  <2>2. counts = <<Zero>> /\ judged = 1
    BY DEF Init
  <2>3. Len(counts) = 1 /\ counts[1] = Zero
    BY <2>2
  <2>4. TallyInv
    <3>1. 1 .. Len(counts) = {1}
      BY <2>3
    <3> QED BY <2>3, <3>1 DEF TallyInv, Zero
  <2>5. BurnInv
    <3>1. 1 .. judged = {1}
      BY <2>2
    <3>2. \A a : ~AboveThreshold(a, Zero)
      BY DEF AboveThreshold, Exceeds, Zero
    <3> QED BY <2>3, <3>1, <3>2, Zenon DEF BurnInv
  <2> QED BY <2>1, <2>4, <2>5
<1>2. I /\ [Next]_vars => I'
  BY TypeStep, ScheduleStep, TallyStep, BurnStep
<1>3. I => NoSilentBurn
  <2> SUFFICES ASSUME TypeInv, BurnInv PROVE NoSilentBurn
    OBVIOUS
  <2>1. recorded \in 1 .. Len(counts) /\ judged \in 1 .. recorded
    BY DEF TypeInv, CountTypes
  <2>2. judged \in 1 .. judged
    BY <2>1
  <2> QED BY <2>2 DEF BurnInv, NoSilentBurn
<1> QED BY <1>1, <1>2, <1>3, PTL DEF Spec

-----------------------------------------------------------------------------
(* Failures long past *)

(* The first scrape that could have seen the last interval with a failure, *)
(* and from there on the count of failures has not moved.                  *)
QuietFrom == IF Turn > Place("scrape") THEN Len(counts) - calm ELSE Len(counts) - calm + 1

QuietInv ==
  \A m \in 1 .. Len(counts) : m >= QuietFrom => counts[m].bad = counts[Len(counts)].bad

(* An alert fires over failures in its short window. *)
FiringInv ==
  \A a \in firing :
    counts[FirstOf(judged, Intervals[a.short])].bad < counts[judged].bad

(* The place of an event, and with it the turns, in numbers. *)
LEMMA Turns ==
  ASSUME TypeInv, [Next]_vars
  PROVE  \A x \in Events : Place(x) \in 1 .. 4 /\ Place(x)' = Place(x)
<1>1. order' = order
  BY Rounds
<1>2. \A x \in Events : Place(x)' = Place(x)
  BY <1>1 DEF Place
<1> QED BY <1>2, Places DEF TypeInv

(* A scrape clears what is fresh, and only a failing interval adds to it. *)
LEMMA FreshStep ==
  ASSUME TypeInv, SeriesInv, FreshInv, [Next]_vars
  PROVE  FreshInv'
<1>1. PICK p \in 1 .. 4 : p = Place("scrape") /\ p = Place("scrape")'
  BY Turns DEF Events
<1>2. PICK T \in 1 .. 5 : T = Turn
  BY TurnOf DEF TypeInv
<1>3. ASSUME NEW down \in BOOLEAN, Serve(down) PROVE FreshInv'
  <2>1. RolloutTypes'
    BY TypeStep DEF TypeInv
  <2>2. due = <<>> /\ order' = order /\ due' = order
    BY <1>3 DEF Serve
  <2>3. Turn = 5
    BY <2>2, TurnOf DEF TypeInv
  <2>4. Turn' = 1
    BY <2>2, FirstTurn DEF TypeInv
  <2>5. Turn > Place("scrape") /\ Turn' <= Place("scrape") /\ Place("scrape")' = Place("scrape")
    BY <1>1, <2>3, <2>4
  <2> QED BY <1>3, <2>1, <2>5, ServeFresh
<1>4. ASSUME Scrape PROVE FreshInv'
  <2>1. \A s \in Running : procs'[s].fresh[500] = 0
    BY <1>4, ScrapeProcesses
  <2>2. Running' = Running
    BY <1>4 DEF Scrape, Running
  <2> QED BY <2>1, <2>2 DEF FreshInv
<1>5. ASSUME procs' = procs, Running' \subseteq Running, calm' = calm, Turn' = Turn + 1, Turn # p
      PROVE  FreshInv'
  <2>1. ASSUME NEW s \in Running', procs'[s].fresh[500] > 0
        PROVE  calm' = 0 /\ Turn' <= Place("scrape")'
    <3>1. calm = 0 /\ Turn <= p
      BY <1>1, <1>5, <2>1 DEF FreshInv
    <3>2. T + 1 <= p
      BY <1>1, <1>2, <1>5, <3>1
    <3> QED BY <1>1, <1>2, <1>5, <3>1, <3>2
  <2> QED BY <2>1 DEF FreshInv
<1>6. ASSUME Record PROVE FreshInv'
  <2>1. Turn = Place("record") /\ Turn' = Turn + 1
    <3>1. due # <<>> /\ Head(due) = "record" /\ order' = order /\ due' = Tail(due)
      BY <1>6 DEF Record
    <3> QED BY <3>1, TurnOf, NextTurn DEF TypeInv
  <2>2. Place("record") # p
    BY <1>1, Apart DEF TypeInv
  <2>3. procs' = procs /\ Running' = Running /\ calm' = calm
    BY <1>6 DEF Record, Running
  <2> QED BY <1>5, <2>1, <2>2, <2>3
<1>7. ASSUME Alert PROVE FreshInv'
  <2>1. Turn = Place("alert") /\ Turn' = Turn + 1
    <3>1. due # <<>> /\ Head(due) = "alert" /\ order' = order /\ due' = Tail(due)
      BY <1>7 DEF Alert
    <3> QED BY <3>1, TurnOf, NextTurn DEF TypeInv
  <2>2. Place("alert") # p
    BY <1>1, Apart DEF TypeInv
  <2>3. procs' = procs /\ Running' = Running /\ calm' = calm
    BY <1>7 DEF Alert, Running
  <2> QED BY <1>5, <2>1, <2>2, <2>3
<1>8. ASSUME Measured PROVE FreshInv'
  <2>1. Turn = Place("measure") /\ Turn' = Turn + 1
    <3>1. due # <<>> /\ Head(due) = "measure" /\ order' = order /\ due' = Tail(due)
      BY <1>8, Analysed DEF TypeInv
    <3> QED BY <3>1, TurnOf, NextTurn DEF TypeInv
  <2>2. Place("measure") # p
    BY <1>1, Apart DEF TypeInv
  <2>3. procs' = procs /\ calm' = calm
    BY <1>8, Analysed DEF TypeInv
  <2>4. rollout'.canary = rollout.canary \/ rollout'.canary = None
    BY <1>8, Analysed DEF TypeInv, Serving, WithErrors
  <2>5. Running' \subseteq Running
    BY <2>4 DEF Running
  <2> QED BY <1>5, <2>1, <2>2, <2>3, <2>5
<1>9. ASSUME NEW release \in Releases, Deploy(release) PROVE FreshInv'
  <2>1. Turn = 5
    <3>1. due = <<>>
      BY <1>9 DEF Deploy
    <3> QED BY <3>1, TurnOf DEF TypeInv
  <2>2. ~(procs["stable"].fresh[500] > 0)
    <3>1. "stable" \in Running
      BY DEF Running
    <3>2. ~(5 <= p)
      BY <1>1
    <3> QED BY <1>1, <2>1, <3>1, <3>2 DEF FreshInv
  <2>3. procs' = [procs EXCEPT !["canary"] = NewProcess]
    BY <1>9 DEF Deploy
  <2>4. procs \in [Sides -> Processes] /\ "canary" \in Sides
    BY DEF TypeInv, Sides
  <2>5. procs'["canary"].fresh[500] = 0
    BY <2>3, <2>4, NewProcesses
  <2>6. procs'["stable"] = procs["stable"]
    BY <2>3, <2>4
  <2>7. Running' \subseteq {"stable", "canary"}
    BY DEF Running
  <2>8. \A s \in Running' : ~(procs'[s].fresh[500] > 0)
    BY <2>2, <2>5, <2>6, <2>7
  <2> QED BY <2>8 DEF FreshInv
<1>10. ASSUME NEW s \in Sides, Restart(s) PROVE FreshInv'
  <2>1. PICK known \in {{}, procs[s].known} :
          procs' = [procs EXCEPT ![s] = [NewProcess EXCEPT !.known = known]]
    BY <1>10 DEF Restart
  <2>2. known \in SUBSET Codes /\ procs \in [Sides -> Processes]
    BY <2>1 DEF Processes, TypeInv
  <2>3. procs'[s].fresh[500] = 0
    BY <2>1, <2>2, NewProcesses
  <2>4. \A u \in Sides : u # s => procs'[u] = procs[u]
    BY <2>1, <2>2
  <2>5. Running' = Running /\ Running \subseteq Sides /\ calm' = calm /\ Turn' = Turn
    BY <1>10 DEF Restart, Running, Turn, Sides
  <2>6. \A u \in Running' : procs'[u].fresh[500] > 0 => procs[u].fresh[500] > 0
    BY <2>3, <2>4, <2>5
  <2>7. ASSUME NEW u \in Running', procs'[u].fresh[500] > 0
        PROVE  calm' = 0 /\ Turn' <= Place("scrape")'
    <3>1. u \in Running /\ procs[u].fresh[500] > 0
      BY <2>5, <2>6, <2>7
    <3>2. calm = 0 /\ Turn <= Place("scrape")
      BY <3>1 DEF FreshInv
    <3> QED BY <1>1, <2>5, <3>2
  <2> QED BY <2>7 DEF FreshInv
<1>11. ASSUME UNCHANGED vars PROVE FreshInv'
  <2>1. Running' = Running /\ procs' = procs /\ calm' = calm /\ Turn' = Turn
    BY <1>11 DEF vars, Running, Turn
  <2> QED BY <1>1, <2>1 DEF FreshInv
<1> QED BY <1>3, <1>4, <1>6, <1>7, <1>8, <1>9, <1>10, <1>11 DEF Next, Measured

(* Only an interval that passes changes how long it has been calm. *)
LEMMA CalmChanges ==
  ASSUME [Next]_vars
  PROVE  /\ calm' = calm \/ ((\E down \in BOOLEAN : Serve(down)) /\ calm' \in {0, calm + 1})
         /\ (firing' = firing /\ judged' = judged) \/ Alert
<1>1. ASSUME NEW down \in BOOLEAN, Serve(down) PROVE calm' \in {0, calm + 1}
  BY <1>1 DEF Serve
<1> QED BY <1>1 DEF Next, Serve, Scrape, Record, Alert, Measure, QueryFails, Deploy, Restart, vars

(* A calm interval and its scrape move the calm stretch on together. *)
LEMMA QuietStep ==
  ASSUME TypeInv, FreshInv, QuietInv, [Next]_vars
  PROVE  QuietInv'
<1>1. PICK p \in 1 .. 4 : p = Place("scrape") /\ p = Place("scrape")'
  BY Turns DEF Events
<1>2. PICK T \in 1 .. 5 : T = Turn
  BY TurnOf DEF TypeInv
<1>3. PICK L \in Nat \ {0}, k \in Nat : L = Len(counts) /\ k = calm
  BY CountsGrow DEF TypeInv, ClockTypes
<1>4. PICK q : q = IF T > p THEN L - k ELSE L - k + 1
  OBVIOUS
<1>5. \A m \in 1 .. L : m >= q => counts[m].bad = counts[L].bad
  BY <1>1, <1>2, <1>3, <1>4 DEF QuietInv, QuietFrom
<1>6. ASSUME counts' = counts, QuietFrom' >= q, QuietFrom' \in Int PROVE QuietInv'
  <2>1. PICK z \in Int : z = QuietFrom'
    BY <1>6
  <2>2. q \in Int
    BY <1>3, <1>4
  <2>3. ASSUME NEW m \in 1 .. L, m >= z PROVE m >= q
    BY <1>6, <2>1, <2>2, <2>3
  <2>4. \A m \in 1 .. L : m >= z => counts[m].bad = counts[L].bad
    BY <1>5, <2>3
  <2> QED BY <1>3, <1>6, <2>1, <2>4 DEF QuietInv
<1>7. ASSUME NEW down \in BOOLEAN, Serve(down) PROVE QuietInv'
  <2>1. due = <<>> /\ order' = order /\ due' = order /\ counts' = counts
    BY <1>7 DEF Serve
  <2>2. T = 5
    BY <1>2, <2>1, TurnOf DEF TypeInv
  <2>3. Turn' = 1
    BY <2>1, FirstTurn DEF TypeInv
  <2>4. PICK l : l = calm'
    OBVIOUS
  <2>5. l \in {0, k + 1}
    BY <1>3, <1>7, <2>4 DEF Serve
  <2>6. QuietFrom' = L - l + 1
    BY <1>1, <1>3, <2>1, <2>3, <2>4 DEF QuietFrom
  <2>7. q = L - k
    BY <1>4, <2>2
  <2>8. L - l + 1 >= q /\ L - l + 1 \in Int
    BY <1>3, <2>5, <2>7
  <2> QED BY <1>6, <2>1, <2>6, <2>8
<1>8. ASSUME Scrape PROVE QuietInv'
  <2>1. PICK t \in Tallies :
          /\ counts' = Append(counts, t)
          /\ (\A s \in Running : ~(procs[s].fresh[500] > 0)) => t.bad = counts[L].bad
    BY <1>3, <1>8, ScrapeCounts
  <2>2. counts \in Seq(Tallies)
    BY DEF TypeInv, CountTypes
  <2>3. PICK c : c = Append(counts, t)
    OBVIOUS
  <2>4. Len(c) = L + 1
    BY <1>3, <2>1, <2>2, <2>3, AppendProperties
  <2>5. \A i \in 1 .. L : c[i] = counts[i]
    BY <1>3, <2>1, <2>2, <2>3, AppendProperties
  <2>6. c[L + 1] = t
    BY <1>3, <2>1, <2>2, <2>3, AppendProperties
  <2>7. T = p /\ Turn' = T + 1 /\ calm' = k
    <3>1. due # <<>> /\ Head(due) = "scrape" /\ order' = order /\ due' = Tail(due) /\ calm' = calm
      BY <1>8 DEF Scrape
    <3> QED BY <1>1, <1>2, <1>3, <3>1, TurnOf, NextTurn DEF TypeInv
  <2>8. counts' = c
    BY <2>1, <2>3
  <2>9. QuietFrom' = (L + 1) - k
    <3>1. T + 1 > p
      BY <1>1, <2>7
    <3> QED BY <1>1, <2>4, <2>7, <2>8, <3>1 DEF QuietFrom
  <2>10. q = L - k + 1
    BY <1>1, <1>2, <1>4, <2>7
  <2>11. ASSUME NEW m \in 1 .. L + 1, m >= (L + 1) - k PROVE c[m].bad = c[L + 1].bad
    <3>1. CASE m = L + 1
      BY <3>1
    <3>2. CASE m # L + 1
      <4>1. m \in 1 .. L /\ m >= q /\ k # 0
        BY <1>3, <2>10, <2>11, <3>2
      <4>2. counts[m].bad = counts[L].bad
        BY <1>5, <4>1
      <4>3. \A s \in Running : ~(procs[s].fresh[500] > 0)
        BY <1>3, <4>1 DEF FreshInv
      <4>4. t.bad = counts[L].bad
        BY <2>1, <4>3, Zenon
      <4> QED BY <2>5, <2>6, <4>1, <4>2, <4>4
    <3> QED BY <3>1, <3>2
  <2> QED BY <2>4, <2>8, <2>9, <2>11 DEF QuietInv
<1>9. ASSUME counts' = counts, calm' = calm, Turn' = Turn \/ (Turn' = Turn + 1 /\ Turn # p)
      PROVE  QuietInv'
  <2>1. PICK u : u = Turn'
    OBVIOUS
  <2>2. u > p <=> T > p
    BY <1>2, <1>1, <1>9, <2>1
  <2>3. QuietFrom' = q
    BY <1>1, <1>2, <1>3, <1>4, <1>9, <2>1, <2>2 DEF QuietFrom
  <2>4. q \in Int /\ q >= q
    BY <1>3, <1>4
  <2> QED BY <1>6, <1>9, <2>3, <2>4
<1>10. Place("record") # p /\ Place("alert") # p /\ Place("measure") # p
  BY <1>1, Apart DEF TypeInv
<1>11. CASE calm' = calm /\ ~Scrape /\ ~(\E down \in BOOLEAN : Serve(down))
  BY <1>9, <1>10, <1>11, Rounds
<1> QED BY <1>7, <1>8, <1>11, CalmChanges

(* An error ratio above a threshold means that something failed. *)
LEMMA Failed ==
  ASSUME NEW c, c.bad \in Int, c.total \in Int, NEW num \in Nat, NEW den \in Nat, Exceeds(c, num, den)
  PROVE  c.bad > 0
<1>1. PICK b \in Int, n \in Int : b = c.bad /\ n = c.total
  OBVIOUS
<1>2. n > 0 /\ b * den > num * n
  BY <1>1 DEF Exceeds
<1>3. num * n \in Nat
  BY <1>1, <1>2
<1>4. PICK x \in Nat : x = num * n
  BY <1>3
<1>5. b * den > 0
  BY <1>1, <1>2, <1>4
<1>6. CASE b <= 0
  <2>1. PICK d \in Nat : d = 0 - b
    BY <1>1, <1>6
  <2>2. d * den \in Nat
    BY <2>1
  <2>3. b * den = 0 - d * den
    BY <1>1, <2>1
  <2> QED BY <1>5, <2>2, <2>3
<1> QED BY <1>1, <1>6

(* What a window gained is what happened after its first sample. *)
LEMMA Gain ==
  ASSUME TypeInv, NEW n \in 1 .. Len(counts), NEW w \in Nat, w >= 2,
         NEW num \in Nat, NEW den \in Nat, Exceeds(Increase(n, w), num, den)
  PROVE  /\ FirstOf(n, w) \in 1 .. n
         /\ counts[FirstOf(n, w)].bad < counts[n].bad
<1>1. PICK f : f = FirstOf(n, w)
  OBVIOUS
<1>2. Len(counts) \in Nat /\ counts \in Seq(Tallies)
  BY LenProperties DEF TypeInv, CountTypes
<1>3. f \in 1 .. n
  BY <1>1, <1>2 DEF FirstOf
<1>4. f \in 1 .. Len(counts)
  BY <1>2, <1>3
<1>5. PICK c \in Tallies, d \in Tallies : c = counts[f] /\ d = counts[n]
  BY <1>2, <1>4, ElementOfSeq
<1>6. PICK i : i = Increase(n, w)
  OBVIOUS
<1>7. i.bad = d.bad - c.bad /\ i.total = d.total - c.total
  BY <1>1, <1>5, <1>6 DEF Increase, FirstOf
<1>8. c.bad \in Nat /\ d.bad \in Nat /\ c.total \in Nat /\ d.total \in Nat
  BY <1>5 DEF Tallies
<1>9. i.bad \in Int /\ i.total \in Int
  BY <1>7, <1>8
<1>10. i.bad > 0
  BY <1>6, <1>9, Failed
<1>11. c.bad < d.bad
  BY <1>7, <1>8, <1>10
<1> QED BY <1>1, <1>3, <1>5, <1>11

(* After a calm longer than the window, no window that ends with the last  *)
(* scrape or the one before it has a failure in it, and once this          *)
(* interval's scrape is done not even the one before that.                 *)
LEMMA LongPast ==
  ASSUME TypeInv, QuietInv, NEW w \in Nat, w >= 2, calm > w, NEW n \in 1 .. Len(counts),
         n >= Len(counts) - 1 \/ (Turn > Place("scrape") /\ n >= Len(counts) - 2),
         FirstOf(n, w) \in 1 .. n
  PROVE  counts[FirstOf(n, w)].bad = counts[n].bad
<1>1. PICK f \in 1 .. n : f = FirstOf(n, w)
  OBVIOUS
<1>2. PICK L \in Nat \ {0}, k \in Nat : L = Len(counts) /\ k = calm
  BY LenProperties DEF TypeInv, CountTypes, ClockTypes
<1>3. PICK q : q = QuietFrom
  OBVIOUS
<1>4. f >= q /\ n >= q
  <2>1. n \in 1 .. L /\ f \in 1 .. L /\ f <= n
    BY <1>1, <1>2
  <2>2. f >= n - w + 1
    BY <1>1, <2>1 DEF FirstOf
  <2>3. CASE Turn > Place("scrape")
    <3>1. q = L - k
      BY <1>2, <1>3, <2>3 DEF QuietFrom
    <3>2. n >= L - 2
      BY <1>2
    <3> QED BY <1>2, <2>1, <2>2, <3>1, <3>2
  <2>4. CASE ~(Turn > Place("scrape"))
    <3>1. q = L - k + 1
      BY <1>2, <1>3, <2>4 DEF QuietFrom
    <3>2. n >= L - 1
      BY <1>2, <2>4
    <3> QED BY <1>2, <2>1, <2>2, <3>1, <3>2
  <2> QED BY <2>3, <2>4
<1>5. f \in 1 .. L /\ n \in 1 .. L
  BY <1>1, <1>2
<1>6. counts[f].bad = counts[L].bad /\ counts[n].bad = counts[L].bad
  BY <1>2, <1>3, <1>4, <1>5 DEF QuietInv
<1> QED BY <1>1, <1>6

(* Alerts are replaced at each evaluation, and tallies stay. *)
LEMMA FiringStep ==
  ASSUME TypeInv, FiringInv, [Next]_vars
  PROVE  FiringInv'
<1>1. Len(counts) \in Nat /\ recorded \in 1 .. Len(counts) /\ judged \in 1 .. recorded
  BY LenProperties DEF TypeInv, CountTypes
<1>2. firing \subseteq burnRateAlerts
  BY DEF TypeInv, AlertTypes
<1>3. CASE Alert
  <2>1. firing' = AlertRules /\ judged' = recorded /\ counts' = counts
    BY <1>3 DEF Alert
  <2>2. ASSUME NEW a \in AlertRules
        PROVE  counts[FirstOf(recorded, Intervals[a.short])].bad < counts[recorded].bad
    <3>1. a \in burnRateAlerts /\ Burning(a, a.short)
      BY DEF AlertRules
    <3>2. PICK w \in Nat, th \in Nat : w = Intervals[a.short] /\ w >= 2 /\ th = a.rate * Budget
      BY <3>1, Constants
    <3>3. Exceeds(Increase(recorded, w), th, 10 * 1000)
      BY <3>1, <3>2 DEF Burning, AboveThreshold
    <3>4. 10 * 1000 \in Nat
      OBVIOUS
    <3> QED BY <1>1, <3>2, <3>3, <3>4, Gain
  <2>3. \A a \in firing' : counts[FirstOf(recorded, Intervals[a.short])].bad < counts[recorded].bad
    BY <2>1, <2>2
  <2> QED BY <2>1, <2>3 DEF FiringInv, FirstOf
<1>4. CASE firing' = firing /\ judged' = judged
  <2>1. ASSUME NEW a \in firing
        PROVE  counts'[FirstOf(judged, Intervals[a.short])].bad < counts'[judged].bad
    <3>1. PICK w \in Nat : w = Intervals[a.short] /\ w >= 2
      BY <1>2, Constants
    <3>2. FirstOf(judged, w) \in 1 .. Len(counts) /\ judged \in 1 .. Len(counts)
      BY <1>1, <3>1 DEF FirstOf
    <3>3. counts[FirstOf(judged, w)].bad < counts[judged].bad
      BY <3>1 DEF FiringInv
    <3> QED BY <3>1, <3>2, <3>3, CountsGrow
  <2> QED BY <1>4, <2>1 DEF FiringInv, FirstOf
<1> QED BY <1>3, <1>4, CalmChanges

(* The invariant behind both properties about failures long past. *)
CauseInv ==
  /\ TypeInv /\ SeriesInv /\ ScheduleInv
  /\ FreshInv /\ QuietInv /\ FiringInv

(* Nothing has failed yet. *)
LEMMA CauseInit ==
  ASSUME Init
  PROVE  CauseInv
<1>1. TypeInv /\ SeriesInv /\ ScheduleInv
  BY TypeInit, ScheduleInit
<1>2. FreshInv
  <2>1. NewProcess \in Processes /\ \A c \in Codes : NewProcess.fresh[c] = 0
    BY NewProcessType
  <2>2. \A s \in Sides : procs[s] = NewProcess
    BY DEF Init
  <2>3. Running \subseteq Sides /\ 500 \in Codes
    BY DEF Running, Sides, Codes
  <2>4. \A s \in Running : procs[s].fresh[500] = 0
    BY <2>1, <2>2, <2>3
  <2> QED BY <2>4 DEF FreshInv
<1>3. QuietInv
  <2>1. Len(counts) = 1 /\ 1 .. Len(counts) = {1}
    BY DEF Init
  <2> QED BY <2>1 DEF QuietInv
<1>4. FiringInv
  BY DEF Init, FiringInv
<1> QED BY <1>1, <1>2, <1>3, <1>4 DEF CauseInv

(* CauseInv is inductive. *)
LEMMA CauseStep ==
  ASSUME CauseInv, [Next]_vars
  PROVE  CauseInv'
BY TypeStep, ScheduleStep, FreshStep, QuietStep, FiringStep DEF CauseInv

(* The positions in a state of CauseInv. *)
LEMMA Positions ==
  ASSUME CauseInv
  PROVE  /\ Len(counts) \in Nat \ {0}
         /\ recorded \in 1 .. Len(counts) /\ recorded >= Len(counts) - 1
         /\ judged \in 1 .. Len(counts)
         /\ Turn > Place("alert") =>
              judged >= Len(counts) - 1 \/ (Turn > Place("scrape") /\ judged >= Len(counts) - 2)
<1>1. PICK L \in Nat, R \in Nat, J \in Nat, T \in 1 .. 5 :
        /\ L = Len(counts) /\ R = recorded /\ J = judged /\ T = Turn
        /\ R \in 1 .. L /\ J \in 1 .. R
  <2>1. Turn \in 1 .. 5
    BY TurnOf DEF CauseInv, TypeInv
  <2>2. Len(counts) \in Nat /\ recorded \in 1 .. Len(counts) /\ judged \in 1 .. recorded
    BY LenProperties DEF CauseInv, TypeInv, CountTypes
  <2>3. recorded \in Nat
    BY <2>2
  <2>4. judged \in Nat
    BY <2>2, <2>3
  <2> QED BY <2>1, <2>2, <2>3, <2>4, Zenon
<1>2. PICK s \in 1 .. 4, r \in 1 .. 4, a \in 1 .. 4 :
        /\ s = Place("scrape") /\ r = Place("record") /\ a = Place("alert")
        /\ s # r /\ s # a /\ a \in {r - 1, r + 1}
  BY Apart DEF CauseInv, TypeInv
<1>3. /\ L <= R + 1 /\ R <= J + 1
      /\ r < s => (r < T /\ T <= s => L = R)
      /\ r < a => (T <= r \/ T > a => R = J)
      /\ a < r => (a < T /\ T <= r => R = J)
  BY <1>1, <1>2 DEF CauseInv, ScheduleInv
<1>4. L \in Nat \ {0} /\ R \in 1 .. L /\ R >= L - 1 /\ J \in 1 .. L
  BY <1>1, <1>3
<1>5. T > a => J >= L - 1 \/ (T > s /\ J >= L - 2)
  <2>1. CASE T > s
    BY <1>1, <1>3, <2>1
  <2>2. CASE ~(T > s) /\ r < a
    BY <1>1, <1>2, <1>3, <2>2
  <2>3. CASE ~(T > s) /\ a < r
    BY <1>1, <1>2, <1>3, <2>3
  <2> QED BY <1>2, <2>1, <2>2, <2>3
<1> QED BY <1>1, <1>2, <1>4, <1>5

(* A rollout is only aborted over failures of the last 5m window, or       *)
(* because five measurements in a row got no answer, for every length of   *)
(* the window (canaryWindow, consecutiveErrorLimit).                       *)
THEOREM AbortsHaveCause == Spec => AbortHasCause
<1>1. Init => CauseInv
  BY CauseInit
<1>2. CauseInv /\ [Next]_vars => CauseInv'
  BY CauseStep
<1>3. CauseInv /\ [Next]_vars =>
        [due # <<>> /\ rollout.canary # None /\ rollout'.canary = None
           => \/ calm <= Intervals["5m"]
              \/ lost' # lost /\ rollout.errors = consecutiveErrorLimit]_vars
  <2> SUFFICES ASSUME CauseInv, [Next]_vars, due # <<>>, rollout.canary # None,
                      rollout'.canary = None,
                      ~(lost' # lost /\ rollout.errors = consecutiveErrorLimit)
               PROVE  calm <= Intervals["5m"]
    OBVIOUS
  <2>1. rollout' # rollout
    OBVIOUS
  <2>2. Measure \/ QueryFails
    BY <2>1 DEF Next, Serve, Scrape, Record, Alert, Deploy, Restart, vars
  <2>12. RolloutTypes /\ lost \in Nat
    BY Constants DEF CauseInv, TypeInv, ClockTypes
  <2>13. ~QueryFails
    <3> SUFFICES ASSUME QueryFails PROVE FALSE
      OBVIOUS
    <3>1. lost' = lost + 1
      BY DEF QueryFails
    <3>2. lost' # lost
      BY <2>12, <3>1
    <3>3. rollout' = [rollout EXCEPT !.errors = @ + 1]
      BY <3>2 DEF QueryFails
    <3>4. rollout'.canary = rollout.canary
      BY <2>12, <3>3 DEF RolloutTypes
    <3> QED BY <3>4
  <2>3. CanaryFails
    <3> SUFFICES ASSUME ~CanaryFails PROVE FALSE
      OBVIOUS
    <3>1. rollout' = [rollout EXCEPT !.errors = 0]
      BY <2>2, <2>13 DEF Measure
    <3>2. rollout'.canary = rollout.canary
      BY <2>12, <3>1 DEF RolloutTypes
    <3> QED BY <3>2
  <2>4. PICK w \in Nat : w = Intervals["5m"] /\ w >= 2
    BY Constants
  <2>5. Exceeds(Increase(recorded, w), 5, 100)
    BY <2>3, <2>4 DEF CanaryFails, canaryWindow
  <2>6. FirstOf(recorded, w) \in 1 .. recorded
    BY <2>4, <2>5, Gain, Positions DEF CauseInv
  <2>7. counts[FirstOf(recorded, w)].bad < counts[recorded].bad
    BY <2>4, <2>5, Gain, Positions DEF CauseInv
  <2>8. calm > w => counts[FirstOf(recorded, w)].bad = counts[recorded].bad
    BY <2>4, <2>6, LongPast, Positions DEF CauseInv
  <2>9. PICK x \in Nat, y \in Nat :
          x = counts[FirstOf(recorded, w)].bad /\ y = counts[recorded].bad
    <3>1. FirstOf(recorded, w) \in 1 .. Len(counts) /\ recorded \in 1 .. Len(counts)
      BY <2>6, Positions
    <3>2. counts[FirstOf(recorded, w)] \in Tallies /\ counts[recorded] \in Tallies
      BY <3>1, ElementOfSeq DEF CauseInv, TypeInv, CountTypes
    <3> QED BY <3>2 DEF Tallies
  <2>10. ~(calm > w)
    BY <2>7, <2>8, <2>9
  <2>11. calm \in Nat
    BY DEF CauseInv, TypeInv, ClockTypes
  <2> QED BY <2>4, <2>10, <2>11
<1> QED BY <1>1, <1>2, <1>3, PTL DEF Spec, AbortHasCause

(* An alert that is not due any more in an interval has had its turn. *)
LEMMA AlertTurn ==
  ASSUME TypeInv, ~(Turn > Place("alert"))
  PROVE  \E i \in DOMAIN due : due[i] = "alert"
<1>1. PICK a \in 1 .. 4 : a = Place("alert") /\ order[a] = "alert"
  BY Places DEF TypeInv, Events
<1>2. PICK n \in 0 .. 4 : n = Len(due)
  BY DEF TypeInv, DueInv
<1>3. 5 - n <= a
  BY <1>1, <1>2 DEF Turn
<1>4. PICK i \in Int : i = a - (5 - n) + 1
  BY <1>1, <1>2
<1>5. i \in 1 .. n /\ 4 - n + i = a
  BY <1>1, <1>2, <1>3, <1>4
<1>6. due[i] = order[4 - Len(due) + i]
  BY <1>2, <1>5 DEF TypeInv, DueInv
<1>7. DOMAIN due = 1 .. n
  BY <1>2, LenProperties DEF TypeInv, DueInv
<1> QED BY <1>1, <1>2, <1>5, <1>6, <1>7

(* An alert clears within its short window and an evaluation (AlertRules). *)
THEOREM AlertsStop == Spec => []AlertsClear
<1>1. Init => CauseInv
  BY CauseInit
<1>2. CauseInv /\ [Next]_vars => CauseInv'
  BY CauseStep
<1>3. CauseInv => AlertsClear
  <2> SUFFICES ASSUME CauseInv, NEW a \in firing, calm > Intervals[a.short]
               PROVE  \E i \in DOMAIN due : due[i] = "alert"
    BY DEF AlertsClear
  <2>1. PICK w \in Nat : w = Intervals[a.short] /\ w >= 2
    BY Constants DEF CauseInv, TypeInv, AlertTypes
  <2>2. counts[FirstOf(judged, w)].bad < counts[judged].bad
    BY <2>1 DEF CauseInv, FiringInv
  <2>3. judged \in 1 .. Len(counts) /\ Len(counts) \in Nat
    BY Positions
  <2>4. FirstOf(judged, w) \in 1 .. judged
    BY <2>1, <2>3 DEF FirstOf
  <2>5. PICK x \in Nat, y \in Nat :
          x = counts[FirstOf(judged, w)].bad /\ y = counts[judged].bad
    <3>1. FirstOf(judged, w) \in 1 .. Len(counts)
      BY <2>3, <2>4
    <3>2. counts[FirstOf(judged, w)] \in Tallies /\ counts[judged] \in Tallies
      BY <2>3, <3>1, ElementOfSeq DEF CauseInv, TypeInv, CountTypes
    <3> QED BY <3>2 DEF Tallies
  <2>6. ~(counts[FirstOf(judged, w)].bad = counts[judged].bad)
    BY <2>2, <2>5
  <2>7. CASE Turn > Place("alert")
    <3>1. judged >= Len(counts) - 1 \/ (Turn > Place("scrape") /\ judged >= Len(counts) - 2)
      BY <2>7, Positions
    <3>2. counts[FirstOf(judged, w)].bad = counts[judged].bad
      BY <2>1, <2>3, <2>4, <3>1, LongPast DEF CauseInv
    <3> QED BY <2>6, <3>2
  <2>8. CASE ~(Turn > Place("alert"))
    BY <2>8, AlertTurn DEF CauseInv
  <2> QED BY <2>7, <2>8
<1> QED BY <1>1, <1>2, <1>3, PTL DEF Spec

-----------------------------------------------------------------------------
(* The traffic *)

(* The requests of a process that no scrape has seen, and those of all     *)
(* that run.                                                               *)
Requests(p) == p.fresh[200] + p.fresh[500]
Load(s) == IF s \in Running THEN Requests(procs[s]) ELSE 0

(* They are at most an interval's traffic, and none once it is scraped. *)
LoadInv ==
  Load("stable") + Load("canary") <= IF Turn > Place("scrape") THEN 0 ELSE Traffic

(* From scrape to scrape no more requests are counted than one interval has. *)
GrowthInv ==
  \A i \in 1 .. Len(counts) - 1 : counts[i + 1].total <= counts[i].total + Traffic

(* The share of the traffic at a step of the rollout. *)
Share(step) == (Traffic * canarySteps[step]) \div 100

(* The shares are numbers, and the second is no smaller than the first. *)
LEMMA Shares ==
  /\ Share(1) = (Traffic * 20) \div 100 /\ Share(2) = (Traffic * 50) \div 100
  /\ Share(1) \in Nat /\ Share(2) \in Nat /\ Share(1) <= Share(2)
<1>1. Share(1) = (Traffic * 20) \div 100 /\ Share(2) = (Traffic * 50) \div 100
  BY DEF Share, canarySteps
<1>2. PICK T \in Nat : T = Traffic
  BY Constants
<1>3. (T * 20) \div 100 \in Nat /\ (T * 50) \div 100 \in Nat
      /\ (T * 20) \div 100 <= (T * 50) \div 100
  OBVIOUS
<1> QED BY <1>1, <1>2, <1>3

(* A request handled is one more for the next scrape. *)
LEMMA HandleLoad ==
  ASSUME NEW p \in Processes, NEW code \in Codes, NEW n \in Nat
  PROVE  /\ Requests(p) \in Nat /\ p.fresh[500] \in Nat
         /\ Requests(Handle(p, code, n)) = Requests(p) + n
         /\ Handle(p, code, n).fresh[code] = p.fresh[code] + n
<1>1. PICK f \in [Codes -> Nat] : f = p.fresh
  BY DEF Processes
<1>2. f[200] \in Nat /\ f[500] \in Nat /\ f[code] \in Nat
  BY DEF Codes
<1>3. CASE n = 0
  BY <1>1, <1>2, <1>3 DEF Handle, Requests
<1>4. CASE n # 0
  <2>1. PICK q : q = [p EXCEPT !.exposed = @ \cup {code}, !.fresh[code] = @ + n]
    OBVIOUS
  <2>2. q.fresh = [f EXCEPT ![code] = f[code] + n]
    BY <1>1, <2>1 DEF Processes
  <2>3. PICK g : g = [f EXCEPT ![code] = f[code] + n]
    OBVIOUS
  <2>4. g[code] = f[code] + n /\ g[200] + g[500] = f[200] + f[500] + n
    <3>1. CASE code = 200
      BY <1>2, <2>3, <3>1 DEF Codes
    <3>2. CASE code = 500
      BY <1>2, <2>3, <3>2 DEF Codes
    <3> QED BY <3>1, <3>2 DEF Codes
  <2>5. Handle(p, code, n) = q
    BY <1>4, <2>1 DEF Handle
  <2>6. q.fresh = g
    BY <2>2, <2>3
  <2>7. Requests(p) = f[200] + f[500] /\ Requests(q) = g[200] + g[500]
    BY <1>1, <2>6 DEF Requests
  <2>8. Requests(p) \in Nat /\ Requests(q) = Requests(p) + n
    BY <1>2, <2>4, <2>7
  <2>9. q.fresh[code] = p.fresh[code] + n
    BY <1>1, <2>4, <2>6
  <2> QED BY <1>1, <1>2, <2>5, <2>8, <2>9
<1> QED BY <1>3, <1>4

(* What a process that was just scraped, or just started, has for the next. *)
LEMMA NoLoad ==
  ASSUME NEW p, \A c \in Codes : p.fresh[c] = 0
  PROVE  Requests(p) = 0
<1>1. p.fresh[200] = 0 /\ p.fresh[500] = 0
  BY DEF Codes
<1> QED BY <1>1 DEF Requests

(* An interval's requests: who handles them, and what a canary gets. *)
LEMMA Served ==
  ASSUME TypeInv, NEW down \in BOOLEAN, Serve(down), RolloutTypes'
  PROVE  \E n \in Nat, c \in Codes, d \in Codes :
           /\ Traffic - n \in Nat
           /\ procs'["stable"] =
                Handle(IF Promoted THEN procs["canary"] ELSE procs["stable"], c, Traffic - n)
           /\ procs'["canary"] = Handle(procs["canary"], d, n)
           /\ rollout'.canary \in Broken => d = 500
           /\ rollout'.canary # None => n = Share(rollout'.step)
<1> DEFINE weight == IF rollout'.canary = None THEN 0 ELSE canarySteps[rollout'.step]
           toCanary == (Traffic * weight) \div 100
           stable == IF Promoted THEN procs["canary"] ELSE procs["stable"]
           answer == [s \in Sides |-> Answer(rollout'[s], down)]
<1>1. procs' = [procs EXCEPT
                  !["stable"] = Handle(stable, answer["stable"], Traffic - toCanary),
                  !["canary"] = Handle(@, answer["canary"], toCanary)]
  BY Zenon DEF Serve
<1>2. rollout'.canary # None => rollout'.step \in {1, 2}
  BY DEF RolloutTypes, canarySteps
<1>3. PICK n \in 0 .. Traffic : n = toCanary
  BY <1>2, ShareType
<1>4. n \in Nat /\ Traffic - n \in Nat
  BY <1>3, Constants
<1>5. answer["stable"] \in Codes /\ answer["canary"] \in Codes
  BY DEF Answer, Codes, Sides
<1>6. rollout'.canary \in Broken => answer["canary"] = 500
  <2>1. answer["canary"] = Answer(rollout'["canary"], down)
    BY DEF Sides
  <2> QED BY <2>1 DEF Answer
<1>7. rollout'.canary # None => n = Share(rollout'.step)
  BY <1>3 DEF Share
<1>8. procs \in [Sides -> Processes]
  BY DEF TypeInv
<1> HIDE DEF weight, toCanary, stable, answer
<1>9. /\ procs'["stable"] = Handle(stable, answer["stable"], Traffic - n)
      /\ procs'["canary"] = Handle(procs["canary"], answer["canary"], n)
  BY <1>1, <1>3, <1>8 DEF Sides
<1>10. stable = IF Promoted THEN procs["canary"] ELSE procs["stable"]
  BY DEF stable
<1>11. PICK c \in Codes, d \in Codes : c = answer["stable"] /\ d = answer["canary"]
  BY <1>5, Zenon
<1>12. /\ procs'["stable"] =
            Handle(IF Promoted THEN procs["canary"] ELSE procs["stable"], c, Traffic - n)
       /\ procs'["canary"] = Handle(procs["canary"], d, n)
  BY <1>9, <1>10, <1>11
<1> QED BY <1>4, <1>6, <1>7, <1>11, <1>12

(* What a scrape adds: no more requests than there were, and all the       *)
(* failures of a canary whose series are known.                            *)
LEMMA ScrapeTotals ==
  ASSUME TypeInv, Scrape
  PROVE  \E t \in Tallies :
           /\ counts' = Append(counts, t)
           /\ t.total <= counts[Len(counts)].total + (Load("stable") + Load("canary"))
           /\ counts[Len(counts)].bad <= t.bad
           /\ rollout.canary # None /\ 500 \in procs["canary"].known =>
                counts[Len(counts)].bad + procs["canary"].fresh[500] <= t.bad
<1>1. PICK last \in Tallies : last = counts[Len(counts)]
  <2>1. counts \in Seq(Tallies) /\ Len(counts) \in 1 .. Len(counts)
    BY DEF TypeInv, CountTypes
  <2> QED BY <2>1
<1>2. PICK gain : gain = [s \in Sides |-> IF s \in Running THEN GainedBy(s) ELSE Zero]
  OBVIOUS
<1>3. procs \in [Sides -> Processes]
  BY DEF TypeInv
<1>4. ASSUME NEW s \in Sides
      PROVE  /\ gain[s].bad \in Nat /\ gain[s].total \in Nat /\ Load(s) \in Nat
             /\ gain[s].total <= Load(s)
             /\ s \in Running /\ 500 \in procs[s].known => gain[s].bad = procs[s].fresh[500]
  <2>1. CASE s \in Running
    <3>1. gain[s] = GainedBy(s)
      BY <1>2, <2>1
    <3>2. PICK f \in [Codes -> Nat] : f = procs[s].fresh
      BY <1>3 DEF Processes
    <3>3. f[200] \in Nat /\ f[500] \in Nat
      BY DEF Codes
    <3>4. PICK b \in Nat, g \in Nat : b = Gained(s, 500) /\ g = Gained(s, 200)
      BY <3>2, <3>3 DEF Gained
    <3>5. b <= f[500] /\ g <= f[200] /\ (500 \in procs[s].known => b = f[500])
      BY <3>2, <3>3, <3>4 DEF Gained
    <3>6. gain[s] = [bad |-> b, total |-> g + b]
      BY <3>1, <3>4 DEF GainedBy
    <3>7. Load(s) = f[200] + f[500]
      BY <2>1, <3>2 DEF Load, Requests
    <3>8. g + b <= f[200] + f[500] /\ g + b \in Nat /\ f[200] + f[500] \in Nat
      BY <3>3, <3>4, <3>5
    <3> QED BY <3>2, <3>4, <3>5, <3>6, <3>7, <3>8
  <2>2. CASE s \notin Running
    <3>1. gain[s] = Zero /\ Load(s) = 0
      BY <1>2, <2>2 DEF Load
    <3> QED BY <2>2, <3>1 DEF Zero
  <2> QED BY <2>1, <2>2
<1>5. PICK b1 \in Nat, b2 \in Nat, n1 \in Nat, n2 \in Nat, l1 \in Nat, l2 \in Nat :
        /\ b1 = gain["stable"].bad /\ b2 = gain["canary"].bad
        /\ n1 = gain["stable"].total /\ n2 = gain["canary"].total
        /\ l1 = Load("stable") /\ l2 = Load("canary") /\ n1 <= l1 /\ n2 <= l2
  <2>1. "stable" \in Sides /\ "canary" \in Sides
    BY DEF Sides
  <2>2. /\ gain["stable"].bad \in Nat /\ gain["stable"].total \in Nat /\ Load("stable") \in Nat
        /\ gain["stable"].total <= Load("stable")
    BY <1>4, <2>1, Zenon
  <2>3. /\ gain["canary"].bad \in Nat /\ gain["canary"].total \in Nat /\ Load("canary") \in Nat
        /\ gain["canary"].total <= Load("canary")
    BY <1>4, <2>1, Zenon
  <2> QED BY <2>2, <2>3, Zenon
<1>6. counts' = Append(counts, [bad |-> last.bad + b1 + b2, total |-> last.total + n1 + n2])
  BY <1>1, <1>2, <1>5 DEF Scrape
<1>7. PICK t : t = [bad |-> last.bad + b1 + b2, total |-> last.total + n1 + n2]
  OBVIOUS
<1>8. last.bad \in Nat /\ last.total \in Nat
  BY <1>1 DEF Tallies
<1>9. t \in Tallies /\ t.bad = last.bad + b1 + b2 /\ t.total = last.total + n1 + n2
  BY <1>5, <1>7, <1>8 DEF Tallies
<1>10. last.bad <= t.bad /\ t.total <= last.total + (l1 + l2)
  BY <1>5, <1>8, <1>9
<1>11. ASSUME rollout.canary # None, 500 \in procs["canary"].known
       PROVE  last.bad + procs["canary"].fresh[500] <= t.bad
  <2>1. "canary" \in Running /\ "canary" \in Sides
    BY <1>11 DEF Running, Sides
  <2>2. b2 = procs["canary"].fresh[500]
    BY <1>4, <1>5, <1>11, <2>1
  <2> QED BY <1>5, <1>8, <1>9, <2>2
<1> QED BY <1>1, <1>5, <1>6, <1>7, <1>9, <1>10, <1>11

(* The load of either side is a number. *)
LEMMA LoadType ==
  ASSUME procs \in [Sides -> Processes]
  PROVE  /\ Load("stable") \in Nat /\ Load("canary") \in Nat
         /\ Load("stable") = Requests(procs["stable"])
         /\ rollout.canary # None => Load("canary") = Requests(procs["canary"])
         /\ rollout.canary = None => Load("canary") = 0
         /\ \A s \in Sides : procs[s] \in Processes /\ Requests(procs[s]) \in Nat
<1>1. \A s \in Sides : procs[s] \in Processes
  OBVIOUS
<1>2. 500 \in Codes /\ 0 \in Nat /\ "stable" \in Sides /\ "canary" \in Sides
  BY DEF Codes, Sides
<1>3. \A s \in Sides : Requests(procs[s]) \in Nat
  BY <1>1, <1>2, HandleLoad
<1>4. "stable" \in Running /\ ("canary" \in Running <=> rollout.canary # None)
  BY DEF Running
<1> QED BY <1>1, <1>2, <1>3, <1>4 DEF Load

(* An interval brings its traffic, a scrape takes it, and nothing else     *)
(* adds to it.                                                             *)
LEMMA LoadStep ==
  ASSUME TypeInv, SeriesInv, LoadInv, [Next]_vars
  PROVE  LoadInv'
<1>1. PICK p \in 1 .. 4 : p = Place("scrape") /\ p = Place("scrape")'
  BY Turns DEF Events
<1>2. PICK T \in 1 .. 5 : T = Turn
  BY TurnOf DEF TypeInv
<1>3. procs \in [Sides -> Processes] /\ procs' \in [Sides -> Processes] /\ RolloutTypes'
  BY TypeStep DEF TypeInv
<1>4. PICK x \in Nat, y \in Nat : x = Load("stable") /\ y = Load("canary")
  BY <1>3, LoadType, Zenon
<1>5. (T > p => x + y <= 0) /\ (~(T > p) => x + y <= Traffic)
  BY <1>1, <1>2, <1>4 DEF LoadInv
<1>6. /\ Load("stable")' = Requests(procs'["stable"])
      /\ rollout'.canary # None => Load("canary")' = Requests(procs'["canary"])
      /\ rollout'.canary = None => Load("canary")' = 0
  <2>1. "stable" \in Running' /\ ("canary" \in Running' <=> rollout'.canary # None)
    BY DEF Running
  <2> QED BY <2>1 DEF Load, Requests
<1>7. PICK u \in Nat, v \in Nat : u = Load("stable")' /\ v = Load("canary")'
  <2>1. procs'["stable"] \in Processes /\ procs'["canary"] \in Processes
    BY <1>3 DEF Sides
  <2>2. 500 \in Codes /\ 0 \in Nat
    BY DEF Codes
  <2>3. Requests(procs'["stable"]) \in Nat /\ Requests(procs'["canary"]) \in Nat
    BY <2>1, <2>2, HandleLoad
  <2> QED BY <1>6, <2>3
<1>8. Traffic \in Nat
  BY Constants
<1>9. ASSUME NEW down \in BOOLEAN, Serve(down) PROVE LoadInv'
  <2>1. T = 5 /\ Turn' = 1
    <3>1. due = <<>> /\ order' = order /\ due' = order
      BY <1>9 DEF Serve
    <3> QED BY <1>2, <3>1, TurnOf, FirstTurn DEF TypeInv
  <2>2. x = 0 /\ y = 0
    BY <1>1, <1>4, <1>5, <2>1
  <2>3. PICK n \in Nat, c \in Codes, d \in Codes :
          /\ Traffic - n \in Nat
          /\ procs'["stable"] =
               Handle(IF Promoted THEN procs["canary"] ELSE procs["stable"], c, Traffic - n)
          /\ procs'["canary"] = Handle(procs["canary"], d, n)
    BY <1>3, <1>9, Served
  <2>4. PICK q \in Processes : q = IF Promoted THEN procs["canary"] ELSE procs["stable"]
    BY <1>3 DEF Sides
  <2>5. Requests(q) = 0
    <3>1. CASE Promoted
      <4>1. rollout.canary # None
        BY <3>1 DEF Promoted
      <4> QED BY <1>3, <1>4, <2>2, <2>4, <3>1, <4>1, LoadType
    <3>2. CASE ~Promoted
      BY <1>3, <1>4, <2>2, <2>4, <3>2, LoadType
    <3> QED BY <3>1, <3>2
  <2>6. Load("stable")' = Requests(procs'["stable"])
    BY <1>6
  <2>7. u = Traffic - n
    <3>1. PICK k \in Nat : k = Traffic - n
      BY <2>3
    <3>2. Requests(Handle(q, c, k)) = Requests(q) + k
      BY <2>3, <2>4, HandleLoad
    <3>3. procs'["stable"] = Handle(q, c, k)
      BY <2>3, <2>4, <3>1
    <3> QED BY <1>7, <2>5, <2>6, <3>1, <3>2, <3>3
  <2>8. v = 0 \/ v = n
    <3>1. CASE rollout'.canary = None
      <4>1. Load("canary")' = 0
        BY <1>6, <3>1
      <4> QED BY <1>7, <4>1
    <3>2. CASE rollout'.canary # None
      <4>1. Load("canary")' = Requests(procs'["canary"])
        BY <1>6, <3>2
      <4>2. rollout.canary # None
        BY <1>9, <3>2 DEF Serve, Advanced
      <4>3. PICK r \in Processes : r = procs["canary"] /\ Requests(r) = 0
        <5>1. "canary" \in Sides
          BY DEF Sides
        <5>2. procs["canary"] \in Processes /\ Requests(procs["canary"]) = 0
          BY <1>3, <1>4, <2>2, <4>2, <5>1, LoadType
        <5> QED BY <5>2
      <4>4. Requests(Handle(r, d, n)) = 0 + n
        BY <2>3, <4>3, HandleLoad
      <4>5. v = 0 + n
        BY <1>7, <2>3, <4>1, <4>3, <4>4
      <4> QED BY <2>3, <4>5
    <3> QED BY <3>1, <3>2
  <2>9. u + v <= Traffic
    BY <1>8, <2>3, <2>7, <2>8
  <2>10. ~(1 > p)
    BY <1>1
  <2> QED BY <1>1, <1>7, <2>1, <2>9, <2>10 DEF LoadInv
<1>10. ASSUME u + v <= x + y, Turn' = Turn \/ (Turn' = Turn + 1 /\ Turn # p) PROVE LoadInv'
  <2>1. PICK t : t = Turn'
    OBVIOUS
  <2>2. t > p <=> T > p
    BY <1>1, <1>2, <1>10, <2>1
  <2>3. (t > p => u + v <= 0) /\ (~(t > p) => u + v <= Traffic)
    BY <1>4, <1>5, <1>7, <1>8, <1>10, <2>2
  <2> QED BY <1>1, <1>7, <2>1, <2>3 DEF LoadInv
<1>11. procs'["stable"] = procs["stable"] \/ Requests(procs'["stable"]) = 0 => u <= x
  <2>1. x = Requests(procs["stable"]) /\ u = Requests(procs'["stable"])
    BY <1>3, <1>4, <1>7, <1>6, LoadType
  <2> QED BY <1>4, <1>7, <2>1
<1>12. \/ rollout'.canary = None \/ Requests(procs'["canary"]) = 0
       \/ (procs'["canary"] = procs["canary"] /\ rollout'.canary = rollout.canary)
       => v <= y
  <2>1. /\ rollout.canary # None => y = Requests(procs["canary"])
        /\ rollout'.canary = None => v = 0
        /\ rollout'.canary # None => v = Requests(procs'["canary"])
    BY <1>3, <1>4, <1>7, <1>6, LoadType
  <2> QED BY <1>4, <1>7, <2>1
<1>13. u <= x /\ v <= y => u + v <= x + y
  BY <1>4, <1>7
<1>14. Place("record") # p /\ Place("alert") # p /\ Place("measure") # p
  BY <1>1, Apart DEF TypeInv
<1>15. ASSUME Scrape PROVE LoadInv'
  <2>1. ASSUME NEW s \in Running PROVE Requests(procs'[s]) = 0
    <3>1. PICK q \in Processes : q = procs[s] /\ procs'[s] = Sampled(q)
      BY <1>3, <1>15, <2>1 DEF Scrape, Running, Sides
    <3>2. \A c \in Codes : Sampled(q).fresh[c] = 0
      BY <3>1, SampledType
    <3> QED BY <3>1, <3>2, NoLoad
  <2>2. rollout' = rollout
    BY <1>15 DEF Scrape
  <2>3. u = 0 /\ v = 0
    <3>1. "stable" \in Running /\ (rollout.canary # None => "canary" \in Running)
      BY DEF Running
    <3>2. u = Requests(procs'["stable"])
      BY <1>7, <1>6
    <3>3. /\ rollout'.canary # None => v = Requests(procs'["canary"])
          /\ rollout'.canary = None => v = 0
      BY <1>7, <1>6
    <3> QED BY <2>1, <2>2, <3>1, <3>2, <3>3
  <2>4. u + v <= 0 /\ u + v <= Traffic
    BY <1>8, <2>3
  <2> QED BY <1>7, <2>4 DEF LoadInv
<1>16. ASSUME Record \/ Alert \/ Measured PROVE LoadInv'
  <2>3. Measured => procs' = procs /\ rollout'.canary \in {rollout.canary, None}
    BY Analysed DEF TypeInv, Serving, WithErrors
  <2>1. procs' = procs /\ (rollout'.canary = rollout.canary \/ rollout'.canary = None)
    BY <1>16, <2>3 DEF Record, Alert
  <2>2. Turn' = Turn + 1 /\ Turn # p
    <3>1. /\ due # <<>> /\ Head(due) \in {"record", "alert", "measure"}
          /\ order' = order /\ due' = Tail(due)
      BY <1>16, Analysed DEF Record, Alert, TypeInv
    <3>2. Turn = Place(Head(due)) /\ Turn' = Turn + 1
      BY <3>1, TurnOf, NextTurn DEF TypeInv
    <3> QED BY <1>14, <3>1, <3>2
  <2> QED BY <1>10, <1>11, <1>12, <1>13, <2>1, <2>2
<1>17. ASSUME NEW s \in Sides, NEW known \in SUBSET Codes, NEW q,
              q \in {NewProcess, [NewProcess EXCEPT !.known = known]},
              procs' = [procs EXCEPT ![s] = q], Turn' = Turn,
              rollout'.canary = rollout.canary \/ s = "canary"
       PROVE  LoadInv'
  <2>1. procs'[s] = q /\ \A r \in Sides : r # s => procs'[r] = procs[r]
    BY <1>3, <1>17
  <2>2. \A c \in Codes : q.fresh[c] = 0
    BY <1>17, NewProcessType
  <2>3. Requests(procs'[s]) = 0
    BY <2>1, <2>2, NoLoad
  <2>4. s = "stable" \/ s = "canary"
    BY DEF Sides
  <2>5. u <= x /\ v <= y
    BY <1>11, <1>12, <1>17, <2>1, <2>3, <2>4 DEF Sides
  <2> QED BY <1>10, <1>13, <1>17, <2>5
<1>18. ASSUME NEW release \in Releases, Deploy(release) PROVE LoadInv'
  <2>1. procs' = [procs EXCEPT !["canary"] = NewProcess] /\ Turn' = Turn /\ "canary" \in Sides
    BY <1>18 DEF Deploy, Turn, Sides
  <2> QED BY <1>17, <2>1
<1>19. ASSUME NEW s \in Sides, Restart(s) PROVE LoadInv'
  <2>1. PICK known \in {{}, procs[s].known} :
          procs' = [procs EXCEPT ![s] = [NewProcess EXCEPT !.known = known]]
    BY <1>19 DEF Restart
  <2>2. known \in SUBSET Codes
    BY <1>3, <2>1 DEF Processes
  <2>3. rollout' = rollout /\ Turn' = Turn
    BY <1>19 DEF Restart, Turn
  <2> QED BY <1>17, <2>1, <2>2, <2>3
<1>20. ASSUME UNCHANGED vars PROVE LoadInv'
  <2>1. procs' = procs /\ rollout' = rollout /\ Turn' = Turn
    BY <1>20 DEF vars, Turn
  <2> QED BY <1>10, <1>11, <1>12, <1>13, <2>1
<1> QED BY <1>9, <1>15, <1>16, <1>18, <1>19, <1>20 DEF Next, Measured

(* Only a scrape adds a tally, of what was there to count. *)
LEMMA GrowthStep ==
  ASSUME TypeInv, LoadInv, GrowthInv, [Next]_vars
  PROVE  GrowthInv'
<1>1. CASE counts' = counts
  BY <1>1 DEF GrowthInv
<1>2. CASE Scrape
  <2>1. PICK t \in Tallies :
          /\ counts' = Append(counts, t)
          /\ t.total <= counts[Len(counts)].total + (Load("stable") + Load("canary"))
    BY <1>2, ScrapeTotals
  <2>2. PICK x \in Nat, y \in Nat :
          x = Load("stable") /\ y = Load("canary") /\ x + y <= Traffic
    <3>1. Load("stable") + Load("canary") <= 0 \/ Load("stable") + Load("canary") <= Traffic
      BY DEF LoadInv
    <3>2. Load("stable") \in Nat /\ Load("canary") \in Nat
      BY LoadType DEF TypeInv
    <3> QED BY <3>1, <3>2, Constants
  <2>3. PICK L \in Nat \ {0} : L = Len(counts)
    BY CountsGrow
  <2>4. counts \in Seq(Tallies)
    BY DEF TypeInv, CountTypes
  <2>5. PICK c : c = Append(counts, t)
    OBVIOUS
  <2>6. Len(c) = L + 1
    BY <2>1, <2>3, <2>4, <2>5, AppendProperties
  <2>7. \A i \in 1 .. L : c[i] = counts[i]
    BY <2>1, <2>3, <2>4, <2>5, AppendProperties
  <2>8. c[L + 1] = t
    BY <2>1, <2>3, <2>4, <2>5, AppendProperties
  <2>9. ASSUME NEW i \in 1 .. L PROVE c[i + 1].total <= c[i].total + Traffic
    <3>1. CASE i = L
      <4>1. PICK l \in Nat : l = counts[L].total
        <5>1. counts[L] \in Tallies
          BY <2>3, <2>4, ElementOfSeq
        <5> QED BY <5>1 DEF Tallies
      <4>2. t.total <= l + (x + y) /\ t.total \in Nat
        BY <2>1, <2>2, <2>3, <4>1 DEF Tallies
      <4>3. t.total <= l + Traffic
        BY <2>2, <4>1, <4>2, Constants
      <4> QED BY <2>7, <2>8, <3>1, <4>1, <4>3
    <3>2. CASE i # L
      <4>1. i \in 1 .. L - 1 /\ i + 1 \in 1 .. L
        BY <2>3, <3>2
      <4> QED BY <2>3, <2>7, <4>1 DEF GrowthInv
    <3> QED BY <3>1, <3>2
  <2>10. counts' = c /\ 1 .. Len(c) - 1 = 1 .. L
    BY <2>1, <2>3, <2>5, <2>6
  <2> QED BY <2>9, <2>10 DEF GrowthInv
<1> QED BY <1>1, <1>2, CountsGrow

-----------------------------------------------------------------------------
(* A release that fails every request *)

(* How many intervals the canary has had, and how many of these have been  *)
(* scraped; the last scrape before it; failures counted from there on.     *)
Age == IF rollout.step = 1 THEN 4 - rollout.wait ELSE 8 - rollout.wait
Seen == IF Turn > Place("scrape") THEN Age ELSE Age - 1
Base == Len(counts) - Seen
Since(n) == counts[n].bad - counts[Base].bad

(* Its share of an interval's traffic, and all the failures of its first n *)
(* intervals but the first, which only lets its series be known.           *)
ShareAt(g) == IF g <= 4 THEN Share(1) ELSE Share(2)
Failures(n) ==
  IF n <= 4 THEN (IF n <= 1 THEN 0 ELSE n - 1) * Share(1)
  ELSE 3 * Share(1) + (n - 4) * Share(2)

(* The next scrape will count all of this interval's failures. *)
Sound ==
  /\ Seen >= 1 => 500 \in procs["canary"].known
  /\ Turn > Place("scrape") \/ procs["canary"].fresh[500] >= ShareAt(Age)

(* No trouble hides more of them than an interval can have.  One whose     *)
(* failures the next scrape will miss has been paid for in advance.        *)
Lost == troubles * Share(2)

CanaryInv ==
  rollout.canary \in Broken =>
    /\ Base \in 1 .. Len(counts)
    /\ Since(Len(counts)) + Lost >= Failures(Seen)
    /\ Sound \/ Since(Len(counts)) + Lost >= Failures(Seen) + Share(2)
    /\ Seen >= 6 => Since(Base + 6) + Lost >= Failures(6)
    /\ Age = 8 => Turn <= Place("measure") \/ rollout.errors > 0

(* The failures of one interval more. *)
LEMMA FailuresGrow ==
  /\ Failures(0) = 0 /\ Failures(1) = 0 /\ Failures(6) = 3 * Share(1) + 2 * Share(2)
  /\ \A i \in 0 .. 8 : Failures(i) \in Nat
  /\ \A i \in 0 .. 7 : Failures(i + 1) <= Failures(i) + Share(2)
  /\ \A i \in 1 .. 7 : Failures(i + 1) = Failures(i) + ShareAt(i + 1)
<1>1. PICK a \in Nat, b \in Nat : a = Share(1) /\ b = Share(2) /\ a <= b
  BY Shares
<1>2. /\ Failures(0) = 0 /\ Failures(1) = 0 /\ Failures(2) = a /\ Failures(3) = 2 * a
      /\ Failures(4) = 3 * a /\ Failures(5) = 3 * a + b /\ Failures(6) = 3 * a + 2 * b
      /\ Failures(7) = 3 * a + 3 * b /\ Failures(8) = 3 * a + 4 * b
  BY <1>1 DEF Failures
<1>3. /\ ShareAt(2) = a /\ ShareAt(3) = a /\ ShareAt(4) = a
      /\ ShareAt(5) = b /\ ShareAt(6) = b /\ ShareAt(7) = b /\ ShareAt(8) = b
  BY <1>1 DEF ShareAt
<1>4. ASSUME NEW i \in 0 .. 8 PROVE Failures(i) \in Nat
  <2>1. i \in {0, 1, 2, 3, 4, 5, 6, 7, 8}
    OBVIOUS
  <2> QED BY <1>1, <1>2, <2>1
<1>5. ASSUME NEW i \in 1 .. 7 PROVE Failures(i + 1) = Failures(i) + ShareAt(i + 1)
  <2>1. i \in {1, 2, 3, 4, 5, 6, 7}
    OBVIOUS
  <2> QED BY <1>1, <1>2, <1>3, <2>1
<1>6. ASSUME NEW i \in 0 .. 7 PROVE Failures(i + 1) <= Failures(i) + b
  <2>1. i \in {0, 1, 2, 3, 4, 5, 6, 7}
    OBVIOUS
  <2> QED BY <1>1, <1>2, <2>1
<1> QED BY <1>1, <1>2, <1>4, <1>5, <1>6

(* A canary's age, and what the troubles may cost, are numbers. *)
LEMMA AgeType ==
  ASSUME TypeInv
  PROVE  /\ rollout.canary \in Broken => Age \in 0 .. 8
         /\ Lost \in Nat
         /\ Broken \subseteq Releases /\ None \notin Broken
<1>1. Broken \subseteq Releases /\ None \notin Broken
  BY ReleaseAssumption
<1>2. Lost \in Nat
  <2>1. PICK t \in Nat, b \in Nat : t = troubles /\ b = Share(2)
    BY Shares DEF TypeInv, ClockTypes
  <2>2. t * b \in Nat
    OBVIOUS
  <2> QED BY <2>1, <2>2 DEF Lost
<1>3. ASSUME rollout.canary \in Broken PROVE Age \in 0 .. 8
  <2>1. rollout.step \in {1, 2} /\ rollout.wait \in 0 .. 4
    BY <1>1, <1>3 DEF TypeInv, RolloutTypes, canarySteps, canaryPause
  <2> QED BY <2>1 DEF Age
<1> QED BY <1>1, <1>2, <1>3

(* A trouble costs no more than the larger share. *)
LEMMA LostGrows ==
  ASSUME TypeInv, troubles' \in {troubles, troubles + 1}
  PROVE  Lost' = IF troubles' = troubles THEN Lost ELSE Lost + Share(2)
<1>1. PICK t \in Nat, b \in Nat : t = troubles /\ b = Share(2)
  BY Shares DEF TypeInv, ClockTypes
<1>2. (t + 1) * b = t * b + b
  BY <1>1
<1>3. Share(2)' = Share(2)
  BY DEF Share, canarySteps
<1> QED BY <1>1, <1>2, <1>3 DEF Lost

(* What the counters have of the canary so far, as numbers. *)
LEMMA SinceType ==
  ASSUME TypeInv, rollout.canary \in Broken, Base \in 1 .. Len(counts)
  PROVE  /\ Len(counts) \in Nat /\ Seen \in 0 .. 8
         /\ Base + Seen = Len(counts) /\ Base \in Nat
         /\ \A n \in 1 .. Len(counts) : Since(n) \in Int
<1>1. PICK L \in Nat, B \in Nat : L = Len(counts) /\ B = Base /\ B \in 1 .. L
  BY LenProperties DEF TypeInv, CountTypes
<1>2. PICK g \in 0 .. 8 : g = Age
  BY AgeType
<1>3. PICK i \in Int : i = Seen /\ i <= 8
  BY <1>2 DEF Seen
<1>4. B = L - i
  BY <1>1, <1>3 DEF Base
<1>5. i \in 0 .. 8 /\ B + i = L
  BY <1>1, <1>3, <1>4
<1>6. ASSUME NEW n \in 1 .. L PROVE Since(n) \in Int
  <2>1. counts[n] \in Tallies /\ counts[B] \in Tallies
    BY <1>1, ElementOfSeq DEF TypeInv, CountTypes
  <2>2. counts[n].bad \in Nat /\ counts[B].bad \in Nat
    BY <2>1 DEF Tallies
  <2> QED BY <1>1, <2>2 DEF Since
<1> QED BY <1>1, <1>3, <1>5, <1>6

(* Between scrapes: troubles only cost what has been put aside for them. *)
LEMMA CanaryGoes ==
  ASSUME TypeInv, CanaryInv, rollout.canary \in Broken,
         rollout'.canary = rollout.canary, counts' = counts, Seen' = Seen,
         Age' = 8 => Turn' <= Place("measure")' \/ rollout'.errors > 0,
         (troubles' = troubles /\ (Sound => Sound')) \/ troubles' = troubles + 1
  PROVE  CanaryInv'
<1>1. Base \in 1 .. Len(counts) /\ Base' = Base
  BY DEF CanaryInv, Base
<1>2. PICK L \in Nat, B \in Nat, i \in 0 .. 8 :
        L = Len(counts) /\ B = Base /\ i = Seen /\ B + i = L
  BY <1>1, SinceType
<1>3. Len(counts') = L /\ Base' = B /\ Seen' = i /\ \A n : Since(n)' = Since(n)
  <2>1. \A n : Since(n)' = Since(n)
    BY <1>1 DEF Since
  <2> QED BY <1>1, <1>2, <2>1
<1>4. PICK l \in Nat, b \in Nat, m \in Nat : l = Lost /\ b = Share(2) /\ m = Lost'
                                             /\ (m = l \/ m = l + b)
                                             /\ (troubles' # troubles => m = l + b)
  <2>1. Lost \in Nat /\ Share(2) \in Nat
    BY AgeType, Shares
  <2>2. Lost' = Lost \/ Lost' = Lost + Share(2)
    BY LostGrows
  <2>3. troubles' # troubles => Lost' = Lost + Share(2)
    BY LostGrows
  <2> QED BY <2>1, <2>2, <2>3
<1>5. PICK s \in Int, f \in Nat : s = Since(L) /\ f = Failures(i)
  <2>1. L \in 1 .. L
    BY <1>1, <1>2
  <2> QED BY <1>1, <1>2, <2>1, SinceType, FailuresGrow
<1>6. s + l >= f /\ (Sound \/ s + l >= f + b)
  BY <1>2, <1>4, <1>5 DEF CanaryInv
<1>7. s + m >= f
  BY <1>4, <1>5, <1>6
<1>8. Sound' \/ s + m >= f + b
  <2>1. CASE troubles' # troubles
    <3>1. m = l + b
      BY <1>4, <2>1
    <3> QED BY <1>4, <1>5, <1>6, <3>1
  <2>2. CASE troubles' = troubles
    <3>1. troubles # troubles + 1
      BY DEF TypeInv, ClockTypes
    <3>2. Sound => Sound'
      BY <2>2, <3>1
    <3>3. s + l >= f + b => s + m >= f + b
      BY <1>4, <1>5
    <3> QED BY <1>6, <3>2, <3>3
  <2> QED BY <2>1, <2>2
<1>9. i >= 6 => Since(B + 6) + m >= Failures(6)
  <2> SUFFICES ASSUME i >= 6 PROVE Since(B + 6) + m >= Failures(6)
    OBVIOUS
  <2>1. B + 6 \in 1 .. L
    BY <1>2
  <2>2. PICK x \in Int, y \in Nat : x = Since(B + 6) /\ y = Failures(6)
    BY <1>1, <1>2, <2>1, SinceType, FailuresGrow
  <2>3. x + l >= y
    BY <1>2, <1>4, <2>2 DEF CanaryInv
  <2>4. x + m >= y
    BY <1>4, <2>2, <2>3
  <2> QED BY <2>2, <2>4
<1>10. \A n : Failures(n)' = Failures(n)
  BY DEF Failures, Share, canarySteps
<1>11. Share(2)' = b
  BY <1>4 DEF Share, canarySteps
<1>12. B \in 1 .. L
  BY <1>1, <1>2 DEF CanaryInv
<1>13. Since(L)' = s /\ Since(B + 6)' = Since(B + 6)
  BY <1>3, <1>5
<1> QED BY <1>3, <1>4, <1>5, <1>7, <1>8, <1>9, <1>10, <1>11, <1>12, <1>13 DEF CanaryInv

(* A scrape counts the failures of the interval, or uses up what was put   *)
(* aside; either way the canary's series are known from there on.          *)
LEMMA CanaryScrape ==
  ASSUME TypeInv, SeriesInv, CanaryInv, rollout.canary \in Broken, Scrape, TypeInv', SeriesInv'
  PROVE  CanaryInv'
<1>1. rollout' = rollout /\ troubles' = troubles /\ order' = order
  BY DEF Scrape
<1>2. Turn = Place("scrape") /\ Turn' = Turn + 1
  <2>1. due # <<>> /\ Head(due) = "scrape" /\ due' = Tail(due)
    BY DEF Scrape
  <2> QED BY <1>1, <2>1, TurnOf, NextTurn DEF TypeInv
<1>3. PICK p \in 1 .. 4, m \in 1 .. 4 :
        /\ p = Place("scrape") /\ p = Place("scrape")'
        /\ m = Place("measure") /\ m = Place("measure")' /\ p # m
  <2>1. Place("scrape")' = Place("scrape") /\ Place("measure")' = Place("measure")
    BY <1>1 DEF Place
  <2> QED BY <2>1, Apart DEF TypeInv
<1>4. Turn = p /\ Turn' = p + 1 /\ Age' = Age
  BY <1>1, <1>2, <1>3 DEF Age
<1>5. Base \in 1 .. Len(counts)
  BY DEF CanaryInv
<1>6. PICK L \in Nat, B \in Nat, i \in 0 .. 8, g \in 0 .. 8 :
        L = Len(counts) /\ B = Base /\ i = Seen /\ B + i = L /\ g = Age /\ B \in 1 .. L
  BY <1>5, SinceType, AgeType
<1>7. i = g - 1 /\ i \in 0 .. 7
  <2>1. ~(p > p)
    BY <1>3
  <2>2. i = g - 1
    BY <1>3, <1>4, <1>6, <2>1 DEF Seen
  <2> QED BY <1>6, <2>2
<1>8. PICK t \in Tallies :
        /\ counts' = Append(counts, t)
        /\ counts[L].bad <= t.bad
        /\ rollout.canary # None /\ 500 \in procs["canary"].known =>
             counts[L].bad + procs["canary"].fresh[500] <= t.bad
  BY <1>6, ScrapeTotals
<1>9. counts \in Seq(Tallies)
  BY DEF TypeInv, CountTypes
<1>10. PICK c : c = Append(counts, t)
  OBVIOUS
<1>11. Len(c) = L + 1
  BY <1>6, <1>8, <1>9, <1>10, AppendProperties
<1>12. \A k \in 1 .. L : c[k] = counts[k]
  BY <1>6, <1>8, <1>9, <1>10, AppendProperties
<1>13. c[L + 1] = t
  BY <1>6, <1>8, <1>9, <1>10, AppendProperties
<1>14. counts' = c
  BY <1>8, <1>10
<1>15. Seen' = i + 1 /\ Base' = B
  <2>1. p + 1 > p
    BY <1>3
  <2>2. Seen' = g
    BY <1>3, <1>4, <1>6, <2>1 DEF Seen
  <2>3. Seen' = i + 1
    BY <1>6, <1>7, <2>2
  <2>4. Base' = (L + 1) - (i + 1)
    BY <1>11, <1>14, <2>3 DEF Base
  <2> QED BY <1>6, <2>3, <2>4
<1>16. PICK l \in Nat, b \in Nat, f \in Nat, h \in Nat :
         /\ l = Lost /\ b = Share(2) /\ f = Failures(i) /\ h = Failures(i + 1) /\ h <= f + b
  <2>1. Lost \in Nat /\ Share(2) \in Nat
    BY AgeType, Shares
  <2>2. i + 1 \in 0 .. 8
    BY <1>7
  <2> QED BY <1>6, <1>7, <2>1, <2>2, FailuresGrow
<1>17. PICK x \in Nat, y \in Nat, z \in Nat : x = counts[B].bad /\ y = counts[L].bad /\ z = t.bad
  <2>1. L \in 1 .. L
    BY <1>6
  <2>2. counts[B] \in Tallies /\ counts[L] \in Tallies
    BY <1>6, <1>9, <2>1, ElementOfSeq
  <2> QED BY <1>8, <2>2 DEF Tallies
<1>18. (y - x) + l >= f /\ (Sound \/ (y - x) + l >= f + b)
  <2>1. Since(L) = y - x
    BY <1>6, <1>17 DEF Since
  <2> QED BY <1>6, <1>16, <2>1 DEF CanaryInv
<1>19. y <= z
  BY <1>8, <1>17
<1>20. (z - x) + l >= h
  <2>1. CASE (y - x) + l >= f + b
    BY <1>16, <1>17, <1>19, <2>1
  <2>2. CASE Sound /\ i = 0
    <3>1. h = 0 /\ f = 0
      BY <1>16, <2>2, FailuresGrow
    <3> QED BY <1>16, <1>17, <1>18, <1>19, <3>1
  <2>3. CASE Sound /\ i # 0
    <3>1. i >= 1 /\ i \in 1 .. 7
      BY <1>7, <2>3
    <3>2. 500 \in procs["canary"].known
      BY <1>6, <2>3, <3>1 DEF Sound
    <3>3. rollout.canary # None
      BY AgeType
    <3>4. PICK k \in Nat : k = procs["canary"].fresh[500]
      <4>1. procs["canary"].fresh \in [Codes -> Nat] /\ 500 \in Codes
        BY DEF TypeInv, Processes, Sides, Codes
      <4> QED BY <4>1
    <3>5. y + k <= z
      BY <1>8, <1>17, <3>2, <3>3, <3>4
    <3>6. PICK w \in Nat : w = ShareAt(i + 1)
      BY Shares DEF ShareAt
    <3>7. k >= w
      <4>1. g = i + 1 /\ ~(p > p)
        BY <1>3, <1>6, <1>7
      <4>2. procs["canary"].fresh[500] >= ShareAt(g)
        BY <1>3, <1>4, <1>6, <2>3, <4>1 DEF Sound
      <4> QED BY <3>4, <3>6, <4>1, <4>2
    <3>8. h = f + w
      BY <1>16, <3>1, <3>6, FailuresGrow
    <3> QED BY <1>16, <1>17, <1>18, <3>4, <3>5, <3>6, <3>7, <3>8
  <2> QED BY <1>18, <2>1, <2>2, <2>3
<1>21. Since(L + 1)' = z - x
  <2>1. Since(L + 1)' = c[L + 1].bad - c[B].bad
    BY <1>14, <1>15 DEF Since
  <2> QED BY <1>6, <1>12, <1>13, <1>17, <2>1
<1>22. Lost' = l /\ Share(2)' = b /\ \A n : Failures(n)' = Failures(n)
  BY <1>1, <1>16 DEF Lost, Failures, Share, canarySteps
<1>23. Sound'
  <2>1. "canary" \in Running /\ "canary" \in Sides
    BY AgeType DEF Running, Sides
  <2>2. PICK q \in Processes : q = procs["canary"] /\ q.exposed = Codes
    BY <2>1 DEF TypeInv, SeriesInv
  <2>3. procs'["canary"] = Sampled(q)
    BY <2>1, <2>2 DEF Scrape
  <2>4. procs'["canary"].known = q.known \cup q.exposed
    BY <2>2, <2>3, SampledType
  <2>5. 500 \in procs'["canary"].known
    BY <2>2, <2>4 DEF Codes
  <2>6. p + 1 > p
    BY <1>3
  <2> QED BY <1>3, <1>4, <2>5, <2>6 DEF Sound
<1>24. i + 1 >= 6 => Since(B + 6)' + l >= Failures(6)
  <2>1. CASE i = 5
    <3>1. B + 6 = L + 1 /\ h = Failures(6)
      BY <1>6, <1>16, <2>1
    <3>2. Since(B + 6)' = z - x
      BY <1>21, <3>1
    <3> QED BY <1>20, <3>1, <3>2
  <2>2. CASE i >= 6
    <3>1. B + 6 \in 1 .. L
      BY <1>6, <2>2
    <3>2. Since(B + 6)' = c[B + 6].bad - c[B].bad
      BY <1>14, <1>15 DEF Since
    <3>3. Since(B + 6)' = Since(B + 6)
      BY <1>6, <1>12, <3>1, <3>2 DEF Since
    <3>4. Since(B + 6) + l >= Failures(6)
      BY <1>6, <1>16, <2>2 DEF CanaryInv
    <3> QED BY <3>3, <3>4
  <2> QED BY <1>7, <2>1, <2>2
<1>25. Age' = 8 => Turn' <= m \/ rollout'.errors > 0
  <2>1. Age = 8 => p <= m \/ rollout.errors > 0
    BY <1>3, <1>4 DEF CanaryInv
  <2> QED BY <1>1, <1>3, <1>4, <2>1
<1>26. B \in 1 .. L + 1
  BY <1>6
<1> QED BY <1>3, <1>11, <1>14, <1>15, <1>16, <1>20, <1>21, <1>22, <1>23, <1>24, <1>25, <1>26
        DEF CanaryInv

(* An interval more of a failing canary: all of its share fails, and the   *)
(* next scrape can count it.                                               *)
LEMMA CanaryServe ==
  ASSUME TypeInv, CanaryInv, NEW down \in BOOLEAN, Serve(down), TypeInv'
  PROVE  CanaryInv'
<1>1. Turn = 5 /\ Turn' = 1
  <2>1. due = <<>> /\ order' = order /\ due' = order
    BY DEF Serve
  <2> QED BY <2>1, TurnOf, FirstTurn DEF TypeInv
<1>2. PICK p \in 1 .. 4, m \in 1 .. 4 :
        /\ p = Place("scrape") /\ p = Place("scrape")'
        /\ m = Place("measure") /\ m = Place("measure")'
  <2>1. order' = order
    BY DEF Serve
  <2>2. Place("scrape")' = Place("scrape") /\ Place("measure")' = Place("measure")
    BY <2>1 DEF Place
  <2> QED BY <2>2, Apart DEF TypeInv
<1>3. rollout' = Advanced /\ counts' = counts
  BY DEF Serve
<1>4. None \notin Broken
  BY AgeType
<1>5. CASE rollout.canary \notin Broken
  <2>1. rollout'.canary \notin Broken
    <3>1. \/ rollout' = rollout \/ rollout' = Serving(rollout.canary)
          \/ rollout'.canary = rollout.canary
      BY <1>3 DEF Advanced, TypeInv, RolloutTypes
    <3> QED BY <1>4, <1>5, <3>1 DEF Serving
  <2> QED BY <2>1 DEF CanaryInv
<1>7. CASE rollout' = Serving(rollout.canary)
  BY <1>4, <1>7 DEF Serving, CanaryInv
<1>6. CASE rollout.canary \in Broken /\ rollout' # Serving(rollout.canary)
  <2>1. PICK st \in {1, 2}, w \in 0 .. 4 : st = rollout.step /\ w = rollout.wait
    BY <1>4, <1>6 DEF TypeInv, RolloutTypes, canarySteps, canaryPause
  <2>2. rollout.canary # None
    BY <1>4, <1>6
  <2>3. ~(st = 2 /\ w = 0)
    BY <1>3, <1>6, <2>1, <2>2 DEF Advanced, canarySteps
  <2>4. /\ rollout'.canary = rollout.canary
        /\ \/ w > 0 /\ rollout'.step = st /\ rollout'.wait = w - 1
           \/ w = 0 /\ st = 1 /\ rollout'.step = 2 /\ rollout'.wait = 3
    <3>1. rollout = [stable |-> rollout.stable, canary |-> rollout.canary, step |-> st, wait |-> w,
                     errors |-> rollout.errors]
      BY <2>1 DEF TypeInv, RolloutTypes
    <3>2. CASE w > 0
      <4>1. rollout' = [rollout EXCEPT !.wait = w - 1]
        BY <1>3, <2>1, <2>2, <3>2 DEF Advanced
      <4> QED BY <3>1, <3>2, <4>1
    <3>3. CASE w = 0
      <4>1. st = 1 /\ ~(w > 0)
        BY <2>1, <2>3, <3>3
      <4>2. rollout' = [rollout EXCEPT !.step = 2, !.wait = 3]
        BY <1>3, <2>1, <2>2, <4>1 DEF Advanced, canarySteps, canaryPause
      <4> QED BY <3>1, <3>3, <4>1, <4>2
    <3> QED BY <2>1, <3>2, <3>3
  <2>5. PICK g \in 0 .. 8 : g = Age
    BY <1>6, AgeType
  <2>6. Age' = g + 1 /\ Share(rollout'.step) >= ShareAt(g + 1)
    <3>1. g = IF st = 1 THEN 4 - w ELSE 8 - w
      BY <2>1, <2>5 DEF Age
    <3>2. CASE w > 0 /\ st = 1
      <4>1. Age' = g + 1 /\ g + 1 <= 4 /\ rollout'.step = 1
        BY <2>1, <2>4, <3>1, <3>2 DEF Age
      <4> QED BY <4>1, Shares DEF ShareAt
    <3>3. CASE w > 0 /\ st = 2
      <4>1. Age' = g + 1 /\ rollout'.step = 2
        BY <2>1, <2>4, <3>1, <3>3 DEF Age
      <4> QED BY <4>1, Shares DEF ShareAt
    <3>4. CASE w = 0
      <4>1. Age' = g + 1 /\ rollout'.step = 2
        BY <2>1, <2>3, <2>4, <3>1, <3>4 DEF Age
      <4> QED BY <4>1, Shares DEF ShareAt
    <3> QED BY <2>1, <3>2, <3>3, <3>4
  <2>7. Seen = g /\ Seen' = g
    <3>1. 5 > p /\ ~(1 > p)
      BY <1>2
    <3>2. Seen = g
      BY <1>1, <1>2, <2>5, <3>1 DEF Seen
    <3>3. Seen' = (g + 1) - 1
      BY <1>1, <1>2, <2>6, <3>1 DEF Seen
    <3> QED BY <2>5, <3>2, <3>3
  <2>8. Sound => Sound'
    <3> SUFFICES ASSUME Sound PROVE Sound'
      OBVIOUS
    <3>1. PICK n \in Nat, d \in Codes :
            /\ procs'["canary"] = Handle(procs["canary"], d, n)
            /\ rollout'.canary \in Broken => d = 500
            /\ rollout'.canary # None => n = Share(rollout'.step)
      BY Served DEF TypeInv
    <3>2. d = 500 /\ n = Share(rollout'.step)
      BY <1>6, <2>2, <2>4, <3>1
    <3>3. PICK q \in Processes : q = procs["canary"]
      BY DEF TypeInv, Sides
    <3>4. Handle(q, d, n).known = q.known
      BY <3>1, <3>3, HandleType
    <3>5. Handle(q, d, n).fresh[d] = q.fresh[d] + n /\ q.fresh[500] \in Nat
      BY <3>1, <3>3, HandleLoad
    <3>6. PICK h \in Nat : h = procs'["canary"].fresh[500] /\ h >= n
      <4>1. PICK k \in Nat : k = q.fresh[500]
        BY <3>5
      <4>2. procs'["canary"].fresh[500] = k + n
        BY <3>1, <3>2, <3>3, <3>5, <4>1
      <4> QED BY <3>1, <4>1, <4>2
    <3>7. h >= ShareAt(g + 1)
      <4>1. PICK v \in Nat : v = ShareAt(g + 1)
        BY Shares DEF ShareAt
      <4> QED BY <2>6, <3>1, <3>2, <3>6, <4>1
    <3>8. ShareAt(Age)' = ShareAt(g + 1)
      BY <2>6 DEF ShareAt, Share, canarySteps
    <3>9. Seen' >= 1 => 500 \in procs'["canary"].known
      BY <2>7, <3>1, <3>3, <3>4 DEF Sound
    <3> QED BY <3>6, <3>7, <3>8, <3>9 DEF Sound
  <2>9. 1 <= m
    BY <1>2
  <2>10. troubles' = troubles \/ troubles' = troubles + 1
    BY DEF Serve
  <2> QED BY <1>1, <1>2, <1>3, <1>6, <2>4, <2>7, <2>8, <2>9, <2>10, CanaryGoes
<1> QED BY <1>5, <1>6, <1>7

(* No k scrapes in a row count more than k intervals' traffic. *)
Within(k) ==
  \A f \in 1 .. Len(counts) :
    f + k <= Len(counts) => counts[f + k].total <= counts[f].total + k * Traffic

LEMMA WithinNext ==
  ASSUME TypeInv, GrowthInv, NEW k \in Nat, Within(k)
  PROVE  Within(k + 1)
<1>1. PICK L \in Nat : L = Len(counts)
  BY LenProperties DEF TypeInv, CountTypes
<1>2. ASSUME NEW f \in 1 .. L, f + (k + 1) <= L
      PROVE  counts[f + (k + 1)].total <= counts[f].total + (k + 1) * Traffic
  <2>1. f + k \in 1 .. L - 1 /\ f + k \in 1 .. L /\ f + k <= L /\ f + (k + 1) = (f + k) + 1
    BY <1>1, <1>2
  <2>2. f + (k + 1) \in 1 .. L
    BY <1>1, <1>2
  <2>3. counts[f] \in Tallies /\ counts[f + k] \in Tallies /\ counts[f + (k + 1)] \in Tallies
    BY <1>1, <2>1, <2>2, ElementOfSeq DEF TypeInv, CountTypes
  <2>4. PICK x \in Nat, y \in Nat, z \in Nat :
          x = counts[f].total /\ y = counts[f + k].total /\ z = counts[f + (k + 1)].total
    BY <2>3 DEF Tallies
  <2>5. y <= x + k * Traffic
    BY <1>1, <2>1, <2>4 DEF Within
  <2>6. z <= y + Traffic
    BY <1>1, <2>1, <2>4 DEF GrowthInv
  <2>7. PICK T \in Nat, u \in Nat : T = Traffic /\ u = k * T
    BY Constants
  <2>8. (k + 1) * T = u + T
    BY <2>7
  <2>9. z <= x + (u + T)
    BY <2>4, <2>5, <2>6, <2>7
  <2> QED BY <2>4, <2>7, <2>8, <2>9
<1> QED BY <1>1, <1>2 DEF Within

(* The requests of a window of ten scrapes. *)
LEMMA WindowTotal ==
  ASSUME TypeInv, GrowthInv, NEW f \in 1 .. Len(counts), NEW n \in 1 .. Len(counts),
         f <= n, n <= f + 9
  PROVE  counts[n].total <= counts[f].total + 9 * Traffic
<1>1. Within(0)
  <2>1. ASSUME NEW i \in 1 .. Len(counts)
        PROVE  counts[i + 0].total <= counts[i].total + 0 * Traffic
    <3>1. i + 0 = i /\ counts[i] \in Tallies
      BY LenProperties, ElementOfSeq DEF TypeInv, CountTypes
    <3>2. counts[i].total \in Nat
      BY <3>1 DEF Tallies
    <3> QED BY <3>1, <3>2, Constants
  <2> QED BY <2>1 DEF Within
<1>2. Within(1)
  <2>1. Within(0 + 1)
    BY <1>1, WithinNext
  <2> QED BY <2>1
<1>3. Within(2)
  <2>1. Within(1 + 1)
    BY <1>2, WithinNext
  <2> QED BY <2>1
<1>4. Within(3)
  <2>1. Within(2 + 1)
    BY <1>3, WithinNext
  <2> QED BY <2>1
<1>5. Within(4)
  <2>1. Within(3 + 1)
    BY <1>4, WithinNext
  <2> QED BY <2>1
<1>6. Within(5)
  <2>1. Within(4 + 1)
    BY <1>5, WithinNext
  <2> QED BY <2>1
<1>7. Within(6)
  <2>1. Within(5 + 1)
    BY <1>6, WithinNext
  <2> QED BY <2>1
<1>8. Within(7)
  <2>1. Within(6 + 1)
    BY <1>7, WithinNext
  <2> QED BY <2>1
<1>9. Within(8)
  <2>1. Within(7 + 1)
    BY <1>8, WithinNext
  <2> QED BY <2>1
<1>10. Within(9)
  <2>1. Within(8 + 1)
    BY <1>9, WithinNext
  <2> QED BY <2>1
<1>11. PICK L \in Nat : L = Len(counts)
  BY LenProperties DEF TypeInv, CountTypes
<1>12. PICK k \in Nat : k = n - f
  BY <1>11
<1>13. k \in 0 .. 9 /\ f + k = n
  BY <1>11, <1>12
<1>14. Within(k)
  <2>1. k \in {0, 1, 2, 3, 4, 5, 6, 7, 8, 9}
    BY <1>13
  <2> QED BY <1>1, <1>2, <1>3, <1>4, <1>5, <1>6, <1>7, <1>8, <1>9, <1>10, <2>1
<1>15. n <= L
  BY <1>11
<1>16. counts[n].total <= counts[f].total + k * Traffic
  BY <1>11, <1>13, <1>14, <1>15 DEF Within
<1>17. PICK x \in Nat, y \in Nat, T \in Nat, u \in Nat :
         x = counts[f].total /\ y = counts[n].total /\ T = Traffic /\ u = k * T
  <2>1. counts[f] \in Tallies /\ counts[n] \in Tallies
    BY ElementOfSeq DEF TypeInv, CountTypes
  <2> QED BY <1>12, <2>1, Constants DEF Tallies
<1>18. u <= 9 * T
  <2>1. k \in {0, 1, 2, 3, 4, 5, 6, 7, 8, 9}
    BY <1>13
  <2> QED BY <1>17, <2>1
<1>19. y <= x + u
  BY <1>16, <1>17
<1>20. y <= x + 9 * T
  BY <1>17, <1>18, <1>19
<1> QED BY <1>17, <1>20

(* There is traffic enough for the failures of a canary to stand out: what *)
(* six intervals leave of them, troubles taken off, is above the analysis' *)
(* 5% of a full window of ten scrapes.                                     *)
Loud ==
  100 * (3 * Share(1) + 2 * Share(2)) > 45 * Traffic + 100 * (MaxTroubles * Share(2))

(* The last measurement of a failing canary aborts it: wherever it falls,  *)
(* it reads a window with six scraped intervals of the canary in it.       *)
LEMMA CanaryCaught ==
  ASSUME TypeInv, ScheduleInv, TallyInv, GrowthInv, CanaryInv, Loud, Intervals["5m"] = 10,
         rollout.canary \in Broken, Age = 8
  PROVE  CanaryFails
<1>1. Base \in 1 .. Len(counts)
  BY DEF CanaryInv
<1>2. PICK L \in Nat, B \in Nat, i \in 0 .. 8 :
        L = Len(counts) /\ B = Base /\ i = Seen /\ B + i = L /\ B \in 1 .. L
  BY <1>1, SinceType
<1>3. i \in {7, 8}
  BY <1>2 DEF Seen
<1>4. PICK R \in Nat : R = recorded /\ R \in 1 .. L /\ L <= R + 1
  BY <1>2 DEF TypeInv, CountTypes, ScheduleInv
<1>5. PICK f \in Nat : f = FirstOf(R, 10) /\ f >= 1 /\ f <= B /\ R <= f + 9 /\ f <= R
  <2>1. R <= B + 8 /\ R >= B + 6
    BY <1>2, <1>3, <1>4
  <2>2. FirstOf(R, 10) \in Nat
    BY <1>4 DEF FirstOf
  <2> QED BY <1>2, <1>4, <2>1, <2>2 DEF FirstOf
<1>6. f \in 1 .. L /\ B \in 1 .. L /\ B + 6 \in 1 .. L /\ R \in 1 .. L /\ B + 6 <= R
  BY <1>2, <1>3, <1>4, <1>5
<1>7. /\ counts[f] \in Tallies /\ counts[B] \in Tallies
      /\ counts[B + 6] \in Tallies /\ counts[R] \in Tallies
  BY <1>2, <1>6, ElementOfSeq DEF TypeInv, CountTypes
<1>8. PICK x \in Nat, y \in Nat, z \in Nat, w \in Nat, t \in Nat, u \in Nat :
        /\ x = counts[f].bad /\ y = counts[B].bad /\ z = counts[B + 6].bad /\ w = counts[R].bad
        /\ t = counts[f].total /\ u = counts[R].total
  BY <1>7 DEF Tallies
<1>9. x <= y /\ z <= w /\ w - x <= u - t
  BY <1>2, <1>5, <1>6, <1>8 DEF TallyInv
<1>10. u <= t + 9 * Traffic
  BY <1>2, <1>5, <1>6, <1>8, WindowTotal
<1>11. PICK l \in Nat, b \in Nat, a \in Nat, e \in Nat :
         l = Lost /\ b = Share(2) /\ a = Share(1) /\ e = MaxTroubles * b /\ l <= e
  <2>1. PICK b \in Nat, k \in Nat, e \in Nat :
          b = Share(2) /\ k = troubles /\ e = MaxTroubles - k
    BY Shares, Constants DEF TypeInv, ClockTypes
  <2>2. MaxTroubles = k + e
    BY <2>1, Constants
  <2>3. k * b \in Nat /\ e * b \in Nat /\ (k + e) * b = k * b + e * b
    OBVIOUS
  <2>4. k * b <= (k + e) * b /\ (k + e) * b \in Nat
    BY <2>3
  <2> QED BY <2>1, <2>2, <2>3, <2>4, Shares DEF Lost
<1>12. (z - y) + l >= 3 * a + 2 * b
  <2>1. Since(B + 6) + Lost >= Failures(6)
    BY <1>2, <1>3 DEF CanaryInv
  <2>2. Since(B + 6) = z - y
    BY <1>2, <1>8 DEF Since
  <2> QED BY <1>11, <2>1, <2>2, FailuresGrow
<1>13. 100 * (3 * a + 2 * b) > 45 * Traffic + 100 * e
  BY <1>11 DEF Loud
<1>14. PICK T \in Nat : T = Traffic
  BY Constants
<1>15. (w - x) * 100 > 5 * (u - t) /\ u - t > 0
  <2>1. w - x + l >= 3 * a + 2 * b
    BY <1>8, <1>9, <1>11, <1>12
  <2>2. 100 * (w - x) > 45 * T
    BY <1>8, <1>11, <1>13, <1>14, <2>1
  <2>3. 5 * (u - t) <= 45 * T
    BY <1>8, <1>10, <1>14
  <2> QED BY <1>8, <1>9, <1>14, <2>2, <2>3
<1>16. PICK c : c = Increase(recorded, Intervals[canaryWindow])
  OBVIOUS
<1>17. c.bad = w - x /\ c.total = u - t
  BY <1>4, <1>5, <1>8, <1>16 DEF Increase, FirstOf, canaryWindow
<1>18. Exceeds(c, 5, 100)
  BY <1>15, <1>17 DEF Exceeds
<1> QED BY <1>16, <1>18 DEF CanaryFails

(* Every step keeps CanaryInv. *)
LEMMA CanaryStep ==
  ASSUME TypeInv, SeriesInv, ScheduleInv, TallyInv, GrowthInv, CanaryInv,
         Loud, Intervals["5m"] = 10, [Next]_vars
  PROVE  CanaryInv'
<1>1. TypeInv' /\ SeriesInv'
  BY TypeStep
<1>2. PICK p \in 1 .. 4, m \in 1 .. 4 :
        /\ p = Place("scrape") /\ p = Place("scrape")'
        /\ m = Place("measure") /\ m = Place("measure")' /\ p # m
        /\ Place("record") # p /\ Place("alert") # p
        /\ Place("record") # m /\ Place("alert") # m
  <2>1. Place("scrape")' = Place("scrape") /\ Place("measure")' = Place("measure")
    BY Turns DEF Events
  <2> QED BY <2>1, Apart DEF TypeInv
<1>3. PICK T \in 1 .. 5 : T = Turn
  BY TurnOf DEF TypeInv
<1>4. None \notin Broken /\ Broken \subseteq Releases
  BY AgeType
<1>5. ASSUME rollout'.canary \notin Broken PROVE CanaryInv'
  BY <1>5 DEF CanaryInv
<1>6. ASSUME rollout'.canary = rollout.canary, rollout'.step = rollout.step,
             rollout'.wait = rollout.wait, counts' = counts,
             Turn' = Turn \/ (Turn' = Turn + 1 /\ Turn # p),
             \/ rollout'.errors = rollout.errors /\ (Turn' = Turn \/ Turn # m)
             \/ rollout'.errors > 0 \/ Age # 8,
             (troubles' = troubles /\ procs' = procs) \/ troubles' = troubles + 1
      PROVE  CanaryInv'
  <2>1. CASE rollout.canary \in Broken
    <3>1. PICK t : t = Turn'
      OBVIOUS
    <3>2. t > p <=> T > p
      BY <1>2, <1>3, <1>6, <3>1
    <3>3. Age' = Age /\ Seen' = Seen
      BY <1>2, <1>3, <1>6, <3>1, <3>2 DEF Age, Seen
    <3>4. Age' = 8 => Turn' <= m \/ rollout'.errors > 0
      <4>1. Age = 8 => T <= m \/ rollout.errors > 0
        BY <1>2, <1>3, <2>1 DEF CanaryInv
      <4>2. Age = 8 => t <= m \/ rollout'.errors > 0
        BY <1>2, <1>3, <1>6, <3>1, <4>1
      <4> QED BY <3>1, <3>3, <4>2
    <3>5. ASSUME procs' = procs PROVE Sound => Sound'
      <4>1. ShareAt(Age)' = ShareAt(Age)
        BY <3>3 DEF ShareAt, Share, canarySteps
      <4> QED BY <1>2, <1>3, <3>1, <3>2, <3>3, <3>5, <4>1 DEF Sound
    <3> QED BY <1>2, <1>6, <2>1, <3>3, <3>4, <3>5, CanaryGoes
  <2>2. CASE rollout.canary \notin Broken
    BY <1>4, <1>5, <1>6, <2>2
  <2> QED BY <2>1, <2>2
<1>7. ASSUME NEW down \in BOOLEAN, Serve(down) PROVE CanaryInv'
  BY <1>1, <1>7, CanaryServe
<1>8. ASSUME Scrape PROVE CanaryInv'
  <2>1. rollout' = rollout
    BY <1>8 DEF Scrape
  <2>2. CASE rollout.canary \in Broken
    BY <1>1, <1>8, <2>2, CanaryScrape
  <2>3. CASE rollout.canary \notin Broken
    BY <1>4, <1>5, <2>1, <2>3
  <2> QED BY <2>2, <2>3
<1>9. ASSUME due # <<>>, order' = order, due' = Tail(due)
      PROVE  Turn = Place(Head(due)) /\ Turn' = Turn + 1
  BY <1>9, TurnOf, NextTurn DEF TypeInv
<1>10. ASSUME Record \/ Alert PROVE CanaryInv'
  <2>1. /\ due # <<>> /\ Head(due) \in {"record", "alert"} /\ order' = order /\ due' = Tail(due)
        /\ rollout' = rollout /\ counts' = counts /\ troubles' = troubles /\ procs' = procs
    BY <1>10 DEF Record, Alert
  <2>2. Turn' = Turn + 1 /\ Turn # p /\ Turn # m
    BY <1>2, <1>9, <2>1
  <2> QED BY <1>6, <2>1, <2>2
<1>11. ASSUME Measured PROVE CanaryInv'
  <2>1. /\ due # <<>> /\ Head(due) = "measure" /\ order' = order /\ due' = Tail(due)
        /\ counts' = counts /\ troubles' = troubles /\ procs' = procs
    BY <1>11, Analysed DEF TypeInv
  <2>2. Turn' = Turn + 1 /\ Turn # p
    BY <1>2, <1>9, <2>1
  <2>3. CASE rollout'.canary \notin Broken
    BY <1>5, <2>3
  <2>4. CASE rollout'.canary \in Broken
    <3>1. rollout' # Serving(rollout.stable)
      BY <1>4, <2>4 DEF Serving
    <3>2. PICK e \in 0 .. consecutiveErrorLimit :
            rollout' = WithErrors(e) /\ (QueryFails => e > 0)
      BY <1>11, <3>1, Analysed DEF TypeInv
    <3>3. /\ rollout'.canary = rollout.canary /\ rollout'.step = rollout.step
          /\ rollout'.wait = rollout.wait /\ rollout'.errors = e
      BY <3>2 DEF WithErrors
    <3>4. CASE QueryFails
      BY <1>6, <2>1, <2>2, <3>2, <3>3, <3>4
    <3>5. CASE Measure
      <4>1. ~CanaryFails
        BY <1>4, <2>4, <3>1, <3>3, <3>5 DEF Measure
      <4>2. Age # 8
        BY <2>4, <3>3, <4>1, CanaryCaught
      <4> QED BY <1>6, <2>1, <2>2, <3>3, <4>2
    <3> QED BY <1>11, <3>4, <3>5 DEF Measured
  <2> QED BY <2>3, <2>4
<1>12. ASSUME NEW release \in Releases, Deploy(release) PROVE CanaryInv'
  <2>1. /\ due = <<>> /\ counts' = counts /\ due' = due
        /\ rollout' = IF release = rollout.stable THEN Serving(release) ELSE Starting(release)
        /\ troubles' = troubles
    BY <1>12 DEF Deploy
  <2>2. CASE release = rollout.stable
    BY <1>4, <1>5, <2>1, <2>2 DEF Serving
  <2>3. CASE release # rollout.stable
    <3>1. rollout' = [stable |-> rollout.stable, canary |-> release, step |-> 1, wait |-> 4,
                      errors |-> 0]
      BY <2>1, <2>3 DEF Starting, canaryPause, TypeInv, RolloutTypes
    <3>2. Turn' = 5 /\ 5 > p
      <4>1. Turn = 5
        BY <2>1, TurnOf DEF TypeInv
      <4> QED BY <1>2, <2>1, <4>1 DEF Turn
    <3>3. Age' = 0 /\ Seen' = 0
      <4>1. Age' = 0
        BY <3>1 DEF Age
      <4> QED BY <1>2, <3>2, <4>1 DEF Seen
    <3>4. PICK L \in Nat : L = Len(counts) /\ L \in 1 .. L
      BY LenProperties DEF TypeInv, CountTypes
    <3>5. Base' = L
      BY <2>1, <3>3, <3>4 DEF Base
    <3>6. Since(L)' = 0
      <4>1. counts[L] \in Tallies
        BY <3>4, ElementOfSeq DEF TypeInv, CountTypes
      <4>2. counts[L].bad \in Nat
        BY <4>1 DEF Tallies
      <4> QED BY <2>1, <3>5, <4>2 DEF Since
    <3>7. Sound'
      BY <1>2, <3>2, <3>3 DEF Sound
    <3>8. Lost' \in Nat
      <4>1. Lost' = Lost
        BY <2>1 DEF Lost, Share, canarySteps
      <4> QED BY <4>1, AgeType
    <3>9. Failures(0)' = 0
      <4>1. Failures(0)' = Failures(0)
        BY DEF Failures, Share, canarySteps
      <4> QED BY <4>1, FailuresGrow
    <3> QED BY <2>1, <3>3, <3>4, <3>5, <3>6, <3>7, <3>8, <3>9 DEF CanaryInv
  <2> QED BY <2>2, <2>3
<1>13. ASSUME NEW s \in Sides, Restart(s) PROVE CanaryInv'
  <2>1. rollout' = rollout /\ counts' = counts /\ troubles' = troubles + 1 /\ Turn' = Turn
    BY <1>13 DEF Restart, Turn
  <2> QED BY <1>6, <2>1
<1>14. ASSUME UNCHANGED vars PROVE CanaryInv'
  <2>1. /\ rollout' = rollout /\ counts' = counts /\ troubles' = troubles /\ Turn' = Turn
        /\ procs' = procs
    BY <1>14 DEF vars, Turn
  <2> QED BY <1>6, <2>1
<1> QED BY <1>7, <1>8, <1>10, <1>11, <1>12, <1>13, <1>14 DEF Next, Measured

(* Five requests an interval are enough when there is one trouble, fifteen *)
(* when there are two.                                                     *)
LEMMA LoudEnough ==
  ASSUME \/ Traffic >= 5 /\ MaxTroubles <= 1
         \/ Traffic >= 15 /\ MaxTroubles <= 2
  PROVE  Loud
<1>1. PICK T \in Nat, k \in Nat : T = Traffic /\ k = MaxTroubles
  BY Constants
<1>2. PICK a \in Nat, b \in Nat : /\ a = Share(1) /\ b = Share(2)
                                  /\ a = (T * 20) \div 100 /\ b = (T * 50) \div 100
  BY <1>1, Shares
<1>3. 5 * a <= T /\ T <= 5 * a + 4 /\ 2 * b <= T /\ T <= 2 * b + 1
  BY <1>1, <1>2
<1>4. CASE k = 0
  <2>1. 100 * (3 * a + 2 * b) > 45 * T + 100 * (0 * b)
    BY <1>1, <1>2, <1>3, <1>4
  <2> QED BY <1>1, <1>2, <1>4, <2>1 DEF Loud
<1>5. CASE k = 1
  <2>1. 100 * (3 * a + 2 * b) > 45 * T + 100 * (1 * b)
    BY <1>1, <1>2, <1>3, <1>5
  <2> QED BY <1>1, <1>2, <1>5, <2>1 DEF Loud
<1>6. CASE k = 2
  <2>1. 100 * (3 * a + 2 * b) > 45 * T + 100 * (2 * b)
    BY <1>1, <1>2, <1>3, <1>6
  <2> QED BY <1>1, <1>2, <1>6, <2>1 DEF Loud
<1> QED BY <1>1, <1>4, <1>5, <1>6

(* A release that fails every request gets to serve alone only if the last *)
(* measurement of it got no answer, where the 5m window has its ten        *)
(* scrapes and there is traffic enough for the troubles there are          *)
(* (canaryPause, BuildAnalysisTemplate).                                   *)
THEOREM BadStopped ==
  ASSUME Intervals["5m"] = 10, Loud
  PROVE  Spec => BadReleaseStopped
<1> DEFINE I == /\ TypeInv /\ SeriesInv /\ ScheduleInv /\ TallyInv
                /\ LoadInv /\ GrowthInv /\ CanaryInv
<1>1. Init => I
  <2> SUFFICES ASSUME Init PROVE I
    OBVIOUS
  <2>1. TypeInv /\ SeriesInv /\ ScheduleInv
    BY TypeInit, ScheduleInit
  <2>2. Len(counts) = 1 /\ counts[1] = Zero /\ 1 .. Len(counts) = {1} /\ 1 .. Len(counts) - 1 = {}
    BY DEF Init
  <2>3. TallyInv /\ GrowthInv
    BY <2>2 DEF TallyInv, GrowthInv, Zero
  <2>4. rollout.canary = None
    BY DEF Init, Serving
  <2>5. LoadInv
    <3>1. \A c \in Codes : NewProcess.fresh[c] = 0
      BY NewProcessType
    <3>2. procs["stable"] = NewProcess
      BY DEF Init, Sides
    <3>3. Load("stable") = 0 /\ Load("canary") = 0
      BY <2>1, <2>4, <3>1, <3>2, LoadType, NoLoad DEF TypeInv
    <3>4. 0 + 0 <= 0 /\ 0 + 0 <= Traffic
      BY Constants
    <3> QED BY <3>3, <3>4 DEF LoadInv
  <2>6. CanaryInv
    BY <2>1, <2>4, AgeType DEF CanaryInv
  <2> QED BY <2>1, <2>3, <2>5, <2>6
<1>2. I /\ [Next]_vars => I'
  BY TypeStep, ScheduleStep, TallyStep, LoadStep, GrowthStep, CanaryStep
<1>3. I /\ [Next]_vars =>
        [rollout'.stable # rollout.stable /\ rollout'.stable \in Broken
           => rollout.errors > 0]_vars
  <2> SUFFICES ASSUME I, [Next]_vars, rollout'.stable # rollout.stable,
                      rollout'.stable \in Broken
               PROVE  rollout.errors > 0
    OBVIOUS
  <2>1. Measured => rollout'.stable = rollout.stable
    BY Analysed DEF TypeInv, Serving, WithErrors
  <2>2. ASSUME NEW release \in Releases, Deploy(release) PROVE FALSE
    <3>1. CASE release = rollout.stable
      BY <2>2, <3>1 DEF Deploy, Serving
    <3>2. CASE release # rollout.stable
      BY <2>2, <3>2 DEF Deploy, Starting, TypeInv, RolloutTypes
    <3> QED BY <3>1, <3>2
  <2>3. PICK down \in BOOLEAN : Serve(down)
    BY <2>1, <2>2 DEF Next, Measured, Scrape, Record, Alert, Restart, vars
  <2>4. rollout' = Advanced /\ due = <<>>
    BY <2>3 DEF Serve
  <2>5. /\ rollout' = Serving(rollout.canary) /\ rollout.canary # None
        /\ ~(rollout.wait > 0) /\ ~(rollout.step < Len(canarySteps))
    BY <2>4 DEF Advanced, TypeInv, RolloutTypes
  <2>6. rollout.canary \in Broken
    BY <2>5 DEF Serving
  <2>7. Age = 8
    <3>1. rollout.step = 2 /\ rollout.wait = 0
      BY <2>5 DEF TypeInv, RolloutTypes, canarySteps, canaryPause
    <3> QED BY <3>1 DEF Age
  <2>8. Turn = 5 /\ Place("measure") \in 1 .. 4
    BY <2>4, TurnOf, Apart DEF TypeInv
  <2> QED BY <2>6, <2>7, <2>8 DEF CanaryInv
<1> QED BY <1>1, <1>2, <1>3, PTL DEF Spec, BadReleaseStopped
=============================================================================
