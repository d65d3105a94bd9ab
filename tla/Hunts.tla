-------------------------------- MODULE Hunts --------------------------------
(***************************************************************************)
(* Saved hunts and their runs: saveHunt, deleteHunt, runHunt, adhoc and     *)
(* replay of src/src/cases.js.  A run reads the hunt, searches the store,   *)
(* reads the newest run of the same hunt, marks what that one did not find  *)
(* as new, stores itself and last counts itself on the hunt.                *)
(***************************************************************************)
EXTENDS Requests, Functions, FiniteSetsExt

CONSTANTS
  HuntIds,   \* ids of hunts (a bound)
  Findings,  \* what a search can find
  MaxRuns    \* bound on the runs ever stored; the code keeps the newest 200

VARIABLES
  hunts,     \* store.hunts: [state, runs], the counter of runs included
  runs,      \* store.huntRuns: id -> [hunt, found, new]
  lastRun    \* seq.hunt_runs: the newest id given

huntVars == <<hunts, runs, lastRun, requestVars>>

ASSUME HuntsAssumption == None \notin HuntIds /\ MaxRuns \in Nat

\* Ids grow, so the newest run of a hunt is the one with the greatest id.
RunsOf(h) == {i \in DOMAIN runs : runs[i].hunt = h}

SaveHunt(w) ==
  /\ Idle(w)
  /\ \E h \in HuntIds :
       /\ hunts[h].state = "absent"
       /\ hunts' = [hunts EXCEPT ![h].state = "saved"]
  /\ UNCHANGED <<runs, lastRun, requestVars>>

\* deleteHunt reads the hunt ...
StartDelete(w) ==
  /\ Idle(w)
  /\ \E h \in HuntIds : hunts[h].state = "saved" /\ Continue(w, Job("delete", h, <<>>))
  /\ UNCHANGED <<hunts, runs, lastRun>>

\* ... and removes it with its runs.
DeleteHunt(w) ==
  /\ At(w, "delete")
  /\ hunts' = [hunts EXCEPT ![job[w].on].state = "deleted"]
  /\ runs' = Restrict(runs, DOMAIN runs \ RunsOf(job[w].on))
  /\ Done(w)
  /\ UNCHANGED lastRun

\* runHunt and replay read the hunt, if it is still there, with its counter; adhoc has none.
StartRun(w) ==
  /\ Idle(w)
  /\ \/ \E h \in HuntIds : hunts[h].state = "saved" /\ Continue(w, Job("search", h, [count |-> hunts[h].runs]))
     \/ Continue(w, Job("search", None, [count |-> 0]))
  /\ UNCHANGED <<hunts, runs, lastRun>>

\* HuntEngine.execute reads logs, alerts and investigations as they are now.
Search(w) ==
  /\ At(w, "search")
  /\ \E found \in SUBSET Findings :
       Continue(w, Patched(job[w], [pc |-> IF job[w].on = None THEN "store_run" ELSE "compare",
                                    found |-> found, new |-> None]))
  /\ UNCHANGED <<hunts, runs, lastRun>>

\* Seeded fault: compares with the newest run of any hunt.
Compare_AnyHunt(w) ==
  LET j == job[w] IN
  /\ At(w, "compare")
  /\ Continue(w, [j EXCEPT !.pc = "store_run",
                           !.new = IF DOMAIN runs = {} THEN None ELSE j.found \ runs[Max(DOMAIN runs)].found])
  /\ UNCHANGED <<hunts, runs, lastRun>>

Compare(w) ==
  LET j == job[w]
      own == RunsOf(j.on) IN
  /\ At(w, "compare")
  /\ Continue(w, [j EXCEPT !.pc = "store_run",
                           !.new = IF own = {} THEN None ELSE j.found \ runs[Max(own)].found])
  /\ UNCHANGED <<hunts, runs, lastRun>>

StoreRun(w) ==
  LET j == job[w] IN
  /\ At(w, "store_run") /\ lastRun < MaxRuns
  /\ lastRun' = lastRun + 1
  /\ runs' = Patched(runs, [i \in {lastRun + 1} |-> [hunt |-> j.on, found |-> j.found, new |-> j.new]])
  /\ Continue(w, IF j.on = None THEN NoJob ELSE [j EXCEPT !.pc = "count_run"])
  /\ UNCHANGED hunts

\* The counter as it was read before the search, plus one; a deleted hunt stays deleted.
CountRun(w) ==
  LET j == job[w] IN
  /\ At(w, "count_run")
  /\ hunts' = [hunts EXCEPT ![j.on].runs = IF hunts[j.on].state = "saved" THEN j.count + 1 ELSE @]
  /\ Done(w)
  /\ UNCHANGED <<runs, lastRun>>

HuntsInit ==
  /\ hunts = [h \in HuntIds |-> [state |-> "absent", runs |-> 0]]
  /\ runs = <<>> /\ lastRun = 0

HuntsNext ==
  \E w \in Workers :
    \/ SaveHunt(w) \/ StartDelete(w) \/ DeleteHunt(w) \/ StartRun(w) \/ Search(w)
    \/ Compare(w) \/ StoreRun(w) \/ CountRun(w)

HuntsSpec == RequestsInit /\ HuntsInit /\ [][HuntsNext]_huntVars

-----------------------------------------------------------------------------
Run == [hunt : HuntIds \cup {None}, found : SUBSET Findings, new : {None} \cup SUBSET Findings]

HuntsTypeOK ==
  /\ hunts \in [HuntIds -> [state : {"absent", "saved", "deleted"}, runs : Nat]]
  /\ lastRun \in Nat /\ DOMAIN runs \subseteq 1 .. lastRun
  /\ \A i \in DOMAIN runs : runs[i] \in Run

FoundBy(own) == UNION {runs[i].found : i \in own}

\* What a run does not mark as new, an earlier run of the same hunt has found (execute, lines 488-498),
\* also when runs of a hunt overlap; and the hunt counts its runs (line 503), all of them when no two
\* requests were at work on it.
RunsAreKept ==
  /\ \A i \in DOMAIN runs :
       LET r == runs[i] IN
       r.hunt # None /\ r.new # None /\ hunts[r.hunt].state = "saved" =>
         r.found \ r.new \subseteq FoundBy({k \in RunsOf(r.hunt) : k < i})
  /\ \A h \in HuntIds : hunts[h].state = "saved" /\ h \notin crowded /\ ~Served(h) =>
       hunts[h].runs = Cardinality(RunsOf(h))
=============================================================================
