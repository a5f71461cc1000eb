------------------------------- MODULE Release -------------------------------
(***************************************************************************)
(* A service's releases, and what the platform sees of them: the requests  *)
(* its processes count, the scrapes and recording rules that turn the      *)
(* counters into error ratios, the burn-rate alerts on those, and the      *)
(* canary analysis that reads the shortest of them and aborts the rollout. *)
(* The service is testsvc, whose releases answer every request alike.      *)
(*                                                                         *)
(* Time passes in scrape intervals of 30s, which is also how often either  *)
(* group of rules is evaluated and the analysis measures.  Where in the    *)
(* interval each falls differs between services and stays as it is.        *)
(* Traffic is steady, and shared out by canary weight.  A version's pods   *)
(* are one process.  rate()'s extrapolation to the ends of a window is     *)
(* left out.  Prometheus may fail to answer the analysis; an outage in     *)
(* which it does not scrape or evaluate rules either is left out.          *)
(***************************************************************************)
EXTENDS Integers, Sequences

CONSTANTS
  Releases,     \* images of the service
  Broken,       \* those that fail every request
  Initial,      \* the one that serves at first
  None,         \* no canary is running
  Traffic,      \* requests in an interval
  Budget,       \* the claim's error budget, in thousandths
  Intervals,    \* each rule window in scrape intervals; the long ones are cut short
  MaxTime,      \* bound: intervals
  MaxReleases,  \* bound: image changes
  MaxTroubles,  \* bound: restarts, and intervals in which everything fails
  MaxLost       \* bound: measurements that get no answer

ASSUME ReleaseAssumption ==
  /\ Broken \subseteq Releases /\ Initial \in Releases /\ None \notin Releases
  /\ Traffic \in Nat /\ Budget \in 1 .. 1000
  /\ Intervals \in [{"5m", "30m", "1h", "2h", "6h", "1d", "3d"} -> Nat \ {0, 1}]
  /\ {MaxTime, MaxReleases, MaxTroubles, MaxLost} \subseteq Nat

VARIABLES
  rollout,   \* the release serving, the canary, its step, the intervals left of it,
             \* and how many of its measurements in a row have got no answer
  procs,     \* the processes of either: see NewProcess
  order,     \* the order of scrape, rule groups and measurement in an interval
  due,       \* those still to come in this one
  counts,    \* requests counted so far, after each scrape
  recorded,  \* the last scrape the recording rules saw
  firing,    \* alerts firing
  fired,     \* history: alerts that have fired
  judged,    \* history: the last scrape the alerts saw, through the recorded ratios
  calm,      \* history: intervals since a request failed
  time, releases, troubles, lost

vars == <<rollout, procs, order, due, counts, recorded, firing, fired, judged, calm,
          time, releases, troubles, lost>>

-----------------------------------------------------------------------------
(* The service *)

Codes == {200, 500}
goodStatuses == {200}
Sides == {"stable", "canary"}

(* Mutant: a series is created by its first request. *)
statuses_lazy == {}

(* The codes whose series newHandler creates at zero. *)
statuses == {200, 500}

(* A process that has just started.  exposed: series at /metrics; known:   *)
(* series Prometheus has a sample of; fresh: requests since the last one;  *)
(* scraped: it has been scraped since it started.                          *)
NewProcess ==
  [exposed |-> statuses, known |-> {}, fresh |-> [c \in Codes |-> 0], scraped |-> FALSE]

(* The instrumented handler counts requests, creating a series it lacks. *)
Handle(p, code, n) ==
  IF n = 0 THEN p ELSE [p EXCEPT !.exposed = @ \cup {code}, !.fresh[code] = @ + n]

(* The answer of a release to requests for /. *)
Answer(release, down) == IF release \in Broken \/ down THEN 500 ELSE 200

-----------------------------------------------------------------------------
(* Recording rules and alerts *)

Zero == [bad |-> 0, total |-> 0]

(* What the counters gained over a window that ends with the nth scrape:   *)
(* between its first sample and its last.                                  *)
Increase(n, window) ==
  LET first == counts[IF n < window THEN 1 ELSE n - window + 1]
      last == counts[n]
  IN  [bad |-> last.bad - first.bad, total |-> last.total - first.total]

(* The error ratio is above num/den.  With no requests there is no ratio,  *)
(* and with none that failed it is 0.                                      *)
Exceeds(c, num, den) == c.total > 0 /\ c.bad * den > num * c.total

(* Burn rates are in tenths. *)
burnRateAlerts ==
  { [severity |-> "page", rate |-> 144, long |-> "1h", short |-> "5m"],
    [severity |-> "page", rate |-> 60, long |-> "6h", short |-> "30m"],
    [severity |-> "ticket", rate |-> 30, long |-> "1d", short |-> "2h"],
    [severity |-> "ticket", rate |-> 10, long |-> "3d", short |-> "6h"] }

(* Whether the error ratio is above burnRate * budget. *)
AboveThreshold(a, c) == Exceeds(c, a.rate * Budget, 10 * 1000)

(* The ratio recorded over a window is above an alert's threshold. *)
Burning(a, window) == AboveThreshold(a, Increase(recorded, Intervals[window]))

(* Mutants: the short window is left out; a row must hold twice. *)
AlertRules_longOnly == { a \in burnRateAlerts : Burning(a, a.long) }
AlertRules_for ==
  { a \in burnRateAlerts : /\ Burning(a, a.long) /\ Burning(a, a.short)
                           /\ AboveThreshold(a, Increase(judged, Intervals[a.short])) }

(* The alerts that fire now. *)
AlertRules == { a \in burnRateAlerts : Burning(a, a.long) /\ Burning(a, a.short) }

-----------------------------------------------------------------------------
(* The rollout *)

(* Mutants: 30s pauses; the analysis reads the 1h rule. *)
canaryPause_30s == 1
canaryWindow_1h == "1h"

(* 2m, in intervals. *)
canaryPause == 4
canaryWindow == "5m"

(* Weights of the steps that end in a pause; after the last the rollout    *)
(* completes.                                                              *)
canarySteps == <<20, 50>>

(* The measurement's failureCondition, with a failureLimit of 0. *)
CanaryFails == Exceeds(Increase(recorded, Intervals[canaryWindow]), 5, 100)

(* More errors in a row than this fail the analysis (Argo Rollouts' default). *)
consecutiveErrorLimit == 4

Serving(release) ==
  [stable |-> release, canary |-> None, step |-> 0, wait |-> 0, errors |-> 0]

(* Mutant: the first pause is one interval longer. *)
Starting_longer(release) ==
  [rollout EXCEPT !.canary = release, !.step = 1, !.wait = canaryPause + 1, !.errors = 0]

Starting(release) ==
  [rollout EXCEPT !.canary = release, !.step = 1, !.wait = canaryPause, !.errors = 0]

(* The rollout an interval later. *)
Advanced ==
  IF rollout.canary = None THEN rollout
  ELSE IF rollout.wait > 0 THEN [rollout EXCEPT !.wait = @ - 1]
  ELSE IF rollout.step < Len(canarySteps)
       THEN [rollout EXCEPT !.step = @ + 1, !.wait = canaryPause - 1]
  ELSE Serving(rollout.canary)

Promoted == rollout.canary # None /\ Advanced.canary = None

-----------------------------------------------------------------------------
(* The alerts read what was recorded and nothing else, so all that matters *)
(* is whether they come before the recording rules or after.               *)
Orders ==
  { o \in [1 .. 4 -> {"scrape", "record", "alert", "measure"}] :
      /\ \A i, j \in 1 .. 4 : o[i] = o[j] => i = j
      /\ \A i, j \in 1 .. 4 : o[i] = "record" /\ o[j] = "alert" => j \in {i - 1, i + 1} }

TypeOK ==
  /\ rollout \in [stable : Releases, canary : Releases \cup {None},
                  step : 0 .. Len(canarySteps), wait : 0 .. canaryPause,
                  errors : 0 .. consecutiveErrorLimit]
  /\ procs \in [Sides -> [exposed : SUBSET Codes, known : SUBSET Codes,
                          fresh : [Codes -> Nat], scraped : BOOLEAN]]
  /\ order \in Orders /\ due \in {<<>>} \cup { SubSeq(order, i, 4) : i \in 1 .. 4 }
  /\ counts \in Seq([bad : Nat, total : Nat])
  /\ recorded \in DOMAIN counts /\ judged \in 1 .. recorded
  /\ firing \subseteq fired /\ fired \subseteq burnRateAlerts
  /\ calm \in 0 .. MaxTime + 1 /\ time \in 0 .. MaxTime
  /\ releases \in 0 .. MaxReleases /\ troubles \in 0 .. MaxTroubles
  /\ lost \in 0 .. MaxLost

Init ==
  /\ rollout = Serving(Initial)
  /\ procs = [s \in Sides |-> NewProcess]
  /\ order \in Orders /\ due = <<>>
  /\ counts = <<Zero>> /\ recorded = 1 /\ judged = 1
  /\ firing = {} /\ fired = {}
  /\ calm = 0 /\ time = 0 /\ releases = 0 /\ troubles = 0 /\ lost = 0

(* An interval passes: the rollout moves on, and the requests arrive.  In  *)
(* one with down, something both versions need is gone.                    *)
Serve(down) ==
  /\ due = <<>> /\ time < MaxTime
  /\ down => troubles < MaxTroubles
  /\ time' = time + 1
  /\ troubles' = IF down THEN troubles + 1 ELSE troubles
  /\ rollout' = Advanced
  /\ LET weight == IF rollout'.canary = None THEN 0 ELSE canarySteps[rollout'.step]
         toCanary == (Traffic * weight) \div 100
         stable == IF Promoted THEN procs["canary"] ELSE procs["stable"]
         answer == [s \in Sides |-> Answer(rollout'[s], down)]
     IN  /\ procs' = [procs EXCEPT
              !["stable"] = Handle(stable, answer["stable"], Traffic - toCanary),
              !["canary"] = Handle(@, answer["canary"], toCanary)]
         /\ calm' = IF answer["stable"] \in goodStatuses
                       /\ (rollout'.canary # None => answer["canary"] \in goodStatuses)
                    THEN calm + 1 ELSE 0
  /\ due' = order
  /\ UNCHANGED <<order, counts, recorded, firing, fired, judged, releases, lost>>

Running == {"stable"} \cup (IF rollout.canary = None THEN {} ELSE {"canary"})

(* What a scrape adds: a series' first sample adds nothing. *)
Gained(s, code) == IF code \in procs[s].known THEN procs[s].fresh[code] ELSE 0

GainedBy(s) ==
  [bad |-> Gained(s, 500), total |-> Gained(s, 200) + Gained(s, 500)]

Sampled(p) ==
  [p EXCEPT !.known = @ \cup p.exposed, !.fresh = [c \in Codes |-> 0], !.scraped = TRUE]

Scrape ==
  /\ due # <<>> /\ Head(due) = "scrape"
  /\ due' = Tail(due)
  /\ LET last == counts[Len(counts)]
         gain == [s \in Sides |-> IF s \in Running THEN GainedBy(s) ELSE Zero]
     IN  counts' = Append(counts,
           [bad |-> last.bad + gain["stable"].bad + gain["canary"].bad,
            total |-> last.total + gain["stable"].total + gain["canary"].total])
  /\ procs' = [s \in Sides |-> IF s \in Running THEN Sampled(procs[s]) ELSE procs[s]]
  /\ UNCHANGED <<rollout, order, recorded, firing, fired, judged, calm, time, releases, troubles,
                 lost>>

(* The recording rules, one per window. *)
Record ==
  /\ due # <<>> /\ Head(due) = "record"
  /\ due' = Tail(due)
  /\ recorded' = Len(counts)
  /\ UNCHANGED <<rollout, procs, order, counts, firing, fired, judged, calm, time, releases,
                 troubles, lost>>

(* The alerts, a group of rules of their own. *)
Alert ==
  /\ due # <<>> /\ Head(due) = "alert"
  /\ due' = Tail(due)
  /\ firing' = AlertRules
  /\ fired' = fired \cup AlertRules
  /\ judged' = recorded
  /\ UNCHANGED <<rollout, procs, order, counts, recorded, calm, time, releases, troubles, lost>>

(* A failed measurement aborts the rollout, and the canary is scaled down. *)
(* While no canary is running there is no analysis.                        *)
Measure ==
  /\ due # <<>> /\ Head(due) = "measure"
  /\ due' = Tail(due)
  /\ \/ rollout.canary = None /\ UNCHANGED rollout
     \/ rollout.canary # None /\ CanaryFails /\ rollout' = Serving(rollout.stable)
     \/ rollout.canary # None /\ ~CanaryFails /\ rollout' = [rollout EXCEPT !.errors = 0]
  /\ UNCHANGED <<procs, order, counts, recorded, firing, fired, judged, calm, time,
                 releases, troubles, lost>>

(* Prometheus does not answer.  The analysis goes on, until that was once  *)
(* too often in a row.                                                     *)
QueryFails ==
  /\ due # <<>> /\ Head(due) = "measure"
  /\ rollout.canary # None /\ lost < MaxLost
  /\ lost' = lost + 1
  /\ due' = Tail(due)
  /\ rollout' = IF rollout.errors = consecutiveErrorLimit THEN Serving(rollout.stable)
                ELSE [rollout EXCEPT !.errors = @ + 1]
  /\ UNCHANGED <<procs, order, counts, recorded, firing, fired, judged, calm, time,
                 releases, troubles>>

(* The claim's image is changed, and the controller applies the Rollout.   *)
(* One that is back at what is serving needs no steps.                     *)
Deploy(release) ==
  /\ due = <<>> /\ releases < MaxReleases
  /\ release # (IF rollout.canary = None THEN rollout.stable ELSE rollout.canary)
  /\ releases' = releases + 1
  /\ rollout' = IF release = rollout.stable THEN Serving(release) ELSE Starting(release)
  /\ procs' = [procs EXCEPT !["canary"] = NewProcess]
  /\ UNCHANGED <<order, due, counts, recorded, firing, fired, judged, calm, time, troubles, lost>>

(* A process starts again, and what was not scraped is lost.  In a new pod *)
(* its series are new; in the old one they are known, and rate() sees them *)
(* start over.                                                             *)
Restart(s) ==
  /\ s \in Running /\ troubles < MaxTroubles
  /\ troubles' = troubles + 1
  /\ \E known \in {{}, procs[s].known} :
       procs' = [procs EXCEPT ![s] = [NewProcess EXCEPT !.known = known]]
  /\ UNCHANGED <<rollout, order, due, counts, recorded, firing, fired, judged, calm, time, releases,
                 lost>>

Next ==
  \/ \E down \in BOOLEAN : Serve(down)
  \/ Scrape \/ Record \/ Alert \/ Measure \/ QueryFails
  \/ \E release \in Releases : Deploy(release)
  \/ \E s \in Sides : Restart(s)

Spec == Init /\ [][Next]_vars

-----------------------------------------------------------------------------
(* Properties *)

(***************************************************************************)
(* Once a process has been scraped, every request it answers is counted by *)
(* its next scrape: no failure hides in the creation of its series         *)
(* (newHandler's series at zero; the bug of POSTMORTEM.md).                *)
(***************************************************************************)
AnswersAreCounted ==
  \A s \in Running : procs[s].scraped =>
    \A c \in Codes : procs[s].fresh[c] > 0 => c \in procs[s].known

(***************************************************************************)
(* A release that fails every request does not get to serve alone:         *)
(* wherever scrapes, rules and measurements fall, and with a restart of    *)
(* its pods wiping its counters, the analysis aborts it before its pauses  *)
(* are over, unless Prometheus left the last measurement of it unanswered  *)
(* (canaryPause, BuildAnalysisTemplate).                                   *)
(***************************************************************************)
BadReleaseStopped ==
  [][rollout'.stable # rollout.stable /\ rollout'.stable \in Broken
       => rollout.errors > 0]_vars

(***************************************************************************)
(* A rollout is only aborted over failures of the last 5m window, and not  *)
(* for ones long past, or because this measurement of it and the four      *)
(* before got no answer (canaryWindow; the recording rule's last value;    *)
(* consecutiveErrorLimit, ADR-022).                                        *)
(***************************************************************************)
AbortHasCause ==
  [][due # <<>> /\ rollout.canary # None /\ rollout'.canary = None
       => \/ calm <= Intervals["5m"]
          \/ lost' # lost /\ rollout.errors = consecutiveErrorLimit]_vars

(***************************************************************************)
(* Nobody burns their budget unnoticed: when all requests recorded so far  *)
(* spent it faster than an alert's burn rate, that alert has fired, though *)
(* it needs its long and its short window above the threshold at once      *)
(* (AlertRules).                                                           *)
(***************************************************************************)
NoSilentBurn ==
  \A a \in burnRateAlerts : AboveThreshold(a, counts[judged]) => a \in fired

(***************************************************************************)
(* "An alert clears within one short window after the burn stops"          *)
(* (AlertRules' comment), give or take one evaluation: counted from the    *)
(* requests themselves, and wherever the scrape and either group of rules  *)
(* fall in the interval.                                                   *)
(***************************************************************************)
AlertsClear ==
  \A a \in firing :
    calm > Intervals[a.short] => \E i \in DOMAIN due : due[i] = "alert"

(***************************************************************************)
(* The error ratio "aborts a canary that makes it worse", and shipping     *)
(* into an outage stops "without trapping the fix" (README): a release     *)
(* that fails nothing is not aborted (BuildAnalysisTemplate).              *)
(***************************************************************************)
FixNotTrapped ==
  [][due # <<>> /\ rollout.canary \notin Broken => rollout'.canary = rollout.canary]_vars
=============================================================================
