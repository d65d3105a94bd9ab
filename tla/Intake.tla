-------------------------------- MODULE Intake -------------------------------
(***************************************************************************)
(* Alerts arriving at src/src/routes.js: landAlerts closes those a          *)
(* suppression rule covers, inserts what is not stored yet, counts the hits *)
(* of the rules and queues the rest for triage; drainTriage investigates    *)
(* the queue one alert at a time.  Administrators add and remove            *)
(* suppression rules (src/src/casework.js), and the hourly retention job    *)
(* purges closed alerts.                                                    *)
(***************************************************************************)
EXTENDS Requests, Functions

CONSTANTS
  Arriving,    \* alerts sensors send, more than once perhaps
  SuppIds,     \* ids of suppression rules (a bound)
  Covers       \* [SuppIds -> SUBSET Arriving], the alerts a rule matches

ASSUME IntakeAssumption ==
  /\ Arriving \cap {"idle", "called", "next"} = {} /\ IsFiniteSet(Arriving)
  /\ None \notin SuppIds /\ Covers \in [SuppIds -> SUBSET Arriving]

VARIABLES
  alerts,      \* store.alerts: [status, by], by the rule that closed it
  supps,       \* store.suppressions: [state, hits]
  triageQueue, \* ids waiting for an investigation
  drain,       \* drainTriage: "idle", "called" (setImmediate), "next" or the alert it investigates
  purged       \* history: alerts retention has removed

intakeVars == <<alerts, supps, triageQueue, drain, purged, requestVars>>

Absent == [status |-> "absent", by |-> None]
Matching(a) == {s \in SuppIds : supps[s].state = "live" /\ a \in Covers[s]}
Tagged(s) == {a \in Arriving : alerts[a].by = s}

\* landAlerts lists the rules and tags what they cover (bound: a purged alert does not arrive again) ...
StartLand(w) ==
  /\ Idle(w)
  /\ \E batch \in (SUBSET (Arriving \ purged)) \ {{}} :
       \E by \in [batch -> SuppIds \cup {None}] :
         /\ \A a \in batch : IF Matching(a) = {} THEN by[a] = None ELSE by[a] \in Matching(a)
         /\ Continue(w, Job("insert_alerts", None, [by |-> by]))
  /\ UNCHANGED <<alerts, supps, triageQueue, drain, purged>>

\* Seeded fault: duplicates count as hits too.
InsertAlerts_CountsAll(w) ==
  LET by == job[w].by
      fresh == {a \in DOMAIN by : alerts[a].status = "absent"} IN
  /\ At(w, "insert_alerts")
  /\ alerts' = [a \in Arriving |-> IF a \notin fresh THEN alerts[a]
                  ELSE [status |-> IF by[a] = None THEN "NEW" ELSE "FALSE_POSITIVE", by |-> by[a]]]
  /\ Continue(w, Job("count_hits", None, [by |-> by]))
  /\ UNCHANGED <<supps, triageQueue, drain, purged>>

\* ... inserts what has not been stored yet ...
InsertAlerts(w) ==
  LET by == job[w].by
      fresh == {a \in DOMAIN by : alerts[a].status = "absent"} IN
  /\ At(w, "insert_alerts")
  /\ alerts' = [a \in Arriving |-> IF a \notin fresh THEN alerts[a]
                  ELSE [status |-> IF by[a] = None THEN "NEW" ELSE "FALSE_POSITIVE", by |-> by[a]]]
  /\ Continue(w, IF fresh = {} THEN NoJob ELSE Job("count_hits", None, [by |-> Restrict(by, fresh)]))
  /\ UNCHANGED <<supps, triageQueue, drain, purged>>

WithHits(hits) == [s \in SuppIds |->
  IF supps[s].state = "live" THEN [supps[s] EXCEPT !.hits = @ + hits[s]] ELSE supps[s]]

\* ... counts the hits on the rules that are still there ...
CountHits(w) ==
  LET by == job[w].by IN
  /\ At(w, "count_hits")
  /\ supps' = WithHits([s \in SuppIds |-> Cardinality({a \in DOMAIN by : by[a] = s})])
  /\ Continue(w, [job[w] EXCEPT !.pc = "queue"])
  /\ UNCHANGED <<alerts, triageQueue, drain, purged>>

\* ... and, if the configuration says so, queues the severe ones that are not suppressed.
QueueTriage(w) ==
  LET loud == {a \in DOMAIN job[w].by : job[w].by[a] = None} IN
  /\ At(w, "queue")
  /\ \/ UNCHANGED <<triageQueue, drain>>
     \/ \E n \in 0 .. Cardinality(loud) : \E severe \in Injection(1 .. n, loud) :
          /\ triageQueue' = triageQueue \o severe
          /\ drain' = IF drain = "idle" THEN "called" ELSE drain
  /\ Done(w)
  /\ UNCHANGED <<alerts, supps, purged>>

-----------------------------------------------------------------------------
\* drainTriage takes the next alert, or ends.
DrainNext ==
  /\ drain \in {"called", "next"}
  /\ IF triageQueue = <<>>
     THEN drain' = "idle" /\ UNCHANGED <<alerts, triageQueue>>
     ELSE LET a == Head(triageQueue) IN
       /\ triageQueue' = Tail(triageQueue)
       /\ IF alerts[a].status = "absent"
          THEN drain' = "next" /\ UNCHANGED alerts  \* run throws; the loop goes on
          ELSE drain' = a /\ alerts' = [alerts EXCEPT ![a].status = "INVESTIGATING"]
  /\ UNCHANGED <<supps, purged, requestVars>>

\* Seeded fault: an investigation that fails ends the loop.
DrainVerdict_FailureEnds ==
  /\ drain \in Arriving
  /\ \E status \in {"CONFIRMED", "FALSE_POSITIVE", "NEW"} :
       /\ alerts' = [alerts EXCEPT ![drain].status = status]
       /\ drain' = IF status = "NEW" THEN "idle" ELSE "next"
  /\ UNCHANGED <<supps, triageQueue, purged, requestVars>>

\* The investigation ends with a verdict, or fails and puts the alert back.
DrainVerdict ==
  /\ drain \in Arriving
  /\ \E status \in {"CONFIRMED", "FALSE_POSITIVE", "NEW"} :
       alerts' = [alerts EXCEPT ![drain].status = status]
  /\ drain' = "next"
  /\ UNCHANGED <<supps, triageQueue, purged, requestVars>>

-----------------------------------------------------------------------------
\* POST /api/suppressions inserts the rule, and lists the alerts it closes if it applies to open ones.
AddSuppression(w) ==
  /\ Idle(w)
  /\ \E s \in SuppIds, apply \in BOOLEAN :
       LET open == {a \in Covers[s] : alerts[a].status = "NEW"} IN
       /\ supps[s].state = "absent"
       /\ supps' = [supps EXCEPT ![s].state = "live"]
       /\ Continue(w, IF apply /\ open # {} THEN Job("apply", None, [by |-> [a \in open |-> s]]) ELSE NoJob)
  /\ UNCHANGED <<alerts, triageQueue, drain, purged>>

\* What was NEW in that list is closed, whatever it has become.
ApplySuppression(w) ==
  LET by == job[w].by IN
  /\ At(w, "apply")
  /\ alerts' = [a \in Arriving |-> IF a \in DOMAIN by /\ alerts[a].status # "absent"
                                   THEN [status |-> "FALSE_POSITIVE", by |-> by[a]] ELSE alerts[a]]
  /\ Continue(w, [job[w] EXCEPT !.pc = "apply_hits"])
  /\ UNCHANGED <<supps, triageQueue, drain, purged>>

ApplyHits(w) ==
  LET by == job[w].by IN
  /\ At(w, "apply_hits")
  /\ supps' = WithHits([s \in SuppIds |-> Cardinality({a \in DOMAIN by : by[a] = s})])
  /\ Done(w)
  /\ UNCHANGED <<alerts, triageQueue, drain, purged>>

\* DELETE: the store unties the alerts the rule has closed.
RemoveSuppression(w) ==
  /\ Idle(w)
  /\ \E s \in SuppIds :
       /\ supps[s].state = "live"
       /\ supps' = [supps EXCEPT ![s] = [state |-> "removed", hits |-> 0]]
       /\ alerts' = [a \in Arriving |-> IF alerts[a].by = s THEN [alerts[a] EXCEPT !.by = None] ELSE alerts[a]]
  /\ UNCHANGED <<triageQueue, drain, purged, requestVars>>

\* retention: closed alerts past their age go.
Purge ==
  /\ \E old \in (SUBSET {a \in Arriving : alerts[a].status = "FALSE_POSITIVE"}) \ {{}} :
       /\ alerts' = [a \in Arriving |-> IF a \in old THEN Absent ELSE alerts[a]]
       /\ purged' = purged \cup old
  /\ UNCHANGED <<supps, triageQueue, drain, requestVars>>

IntakeInit ==
  /\ alerts = [a \in Arriving |-> Absent]
  /\ supps = [s \in SuppIds |-> [state |-> "absent", hits |-> 0]]
  /\ triageQueue = <<>> /\ drain = "idle" /\ purged = {}

IntakeNext ==
  \/ DrainNext \/ DrainVerdict \/ Purge
  \/ \E w \in Workers :
       \/ StartLand(w) \/ InsertAlerts(w) \/ CountHits(w) \/ QueueTriage(w)
       \/ AddSuppression(w) \/ ApplySuppression(w) \/ ApplyHits(w) \/ RemoveSuppression(w)

IntakeSpec == RequestsInit /\ IntakeInit /\ [][IntakeNext]_intakeVars

-----------------------------------------------------------------------------
\* Whatever fails on the way, alerts queued for triage have a loop at work on them (lines 532 to 541).
QueueIsDrained == triageQueue # <<>> => drain # "idle"

\* A rule counts the alerts it has closed, once each, however deliveries of the same alert overlap.
HitsAreClosures ==
  purged = {} /\ (\A w \in Workers : Idle(w)) =>
    \A s \in SuppIds : supps[s].state = "live" => supps[s].hits >= Cardinality(Tagged(s)) /\ supps[s].hits =< Cardinality(Covers[s])
=============================================================================
