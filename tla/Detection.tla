------------------------------ MODULE Detection ------------------------------
(***************************************************************************)
(* Built-in detections over ingested log lines: POST /api/ingest/logs and   *)
(* runDetection of src/src/routes.js with evaluate of src/src/engine/       *)
(* detect.js, for the log-ins of clients to one host.  A batch is stored    *)
(* first; then the newest stored lines of each of its first clients are     *)
(* read back and judged, one answer of the store after the other, and the   *)
(* alerts are inserted by ids made of rule, client and time bucket.         *)
(***************************************************************************)
EXTENDS Requests, FiniteSetsExt

CONSTANTS
  Clients,     \* client_ip
  Entries,     \* bound: the lines hosts may send, [client, kind, at]
  MaxTime,     \* bound: times of lines are 0 .. MaxTime
  MaxLines,    \* bound on the stored lines of one client, kind and time
  MaxBatch,    \* bound on the lines of a batch
  MaxClients,  \* the clients of a batch that are judged; 100 in the code
  Limit,       \* the lines of a client that are read back; 1000 in the code
  Window,      \* detectWindowMin
  Horizon,     \* how far evaluate looks back; six windows in the code
  Threshold    \* detectSshThreshold

\* A failed log-in, a successful one, or any other line of the client.
Kinds == {"fail", "ok", "other"}
Time == 0 .. MaxTime

ASSUME DetectionAssumption ==
  /\ {MaxTime, MaxLines, MaxBatch, MaxClients, Limit, Window, Horizon, Threshold} \subseteq Nat \ {0}
  /\ Entries \subseteq [client : Clients, kind : Kinds, at : Time]

VARIABLES
  logs,       \* store.logs: how many lines of each client, kind and time are stored
  raised,     \* store.alerts: [rule, client, bucket, ok]
  overlooked  \* history: <<client, start>> of the windows that the last batch with a failure in them did not judge

detectionVars == <<logs, raised, overlooked, requestVars>>

Count(f, S) == Cardinality({l \in (S \cap Time) \X (1 .. MaxLines) : l[2] =< f[l[1]]})
Total(s, S) == Count(s.fail, S) + Count(s.ok, S) + Count(s.other, S)

\* The times of the failures not older than the horizon, in order.
Recent(f, now) ==
  LET upto(t) == Count(f, {u \in Time : now - Horizon =< u /\ u =< t})
  IN [k \in 1 .. upto(MaxTime) |-> Min({t \in Time : k =< upto(t)})]

\* Sliding over the failures: the first one still in the window that ends at the j-th.
SlideTo(ts) ==
  LET i[j \in DOMAIN ts] == LET from == IF j = 1 THEN 1 ELSE i[j - 1] IN
        CHOOSE k \in from .. j : /\ ts[j] - ts[k] =< Window
                                 /\ \A l \in from .. k - 1 : ts[j] - ts[l] > Window
  IN i

\* The alerts of evaluate about the lines s: the first window with enough failures, and a log-in at or after
\* its start.
Evaluate(c, s, now) ==
  LET ts == Recent(s.fail, now)
      i == SlideTo(ts)
      hits == {j \in DOMAIN ts : j - i[j] + 1 >= Threshold} IN
  IF hits = {} THEN {}
  ELSE LET to == Min(hits)
           from == ts[i[to]]
           ok == {t \in Time : s.ok[t] > 0 /\ t >= now - Horizon /\ t >= from /\ t =< ts[to] + Horizon}
           Alert(rule, at) == [rule |-> rule, client |-> c, bucket |-> from \div Window, ok |-> at] IN
       {Alert("ssh-bruteforce", None)} \cup
       (IF ok = {} THEN {} ELSE {Alert("ssh-success-after", Min(ok))})

\* Seeded fault: the store gives back the oldest lines.
Newest_Oldest(s) ==
  LET full == {t \in Time : Total(s, 0 .. t) > Limit} IN
  IF full = {} THEN {s}
  ELSE {[k \in Kinds |-> [t \in Time |-> IF t < Min(full) THEN s[k][t] ELSE 0]]}

\* What the store may give back of the lines s: the newest, and any of the time at which the limit cuts.
Newest(s) ==
  LET full == {t \in Time : Total(s, t .. MaxTime) > Limit}
      cut == Max(full)
      room == Limit - Total(s, cut + 1 .. MaxTime)
      some == {n \in [Kinds -> 0 .. MaxLines] :
                 n.fail + n.ok + n.other = room /\ \A k \in Kinds : n[k] =< s[k][cut]} IN
  IF full = {} THEN {s}
  ELSE {[k \in Kinds |-> [t \in Time |-> IF t > cut THEN s[k][t] ELSE IF t = cut THEN n[k] ELSE 0]] :
          n \in some}

-----------------------------------------------------------------------------
\* A batch is a sequence of lines; the first MaxClients clients in it are judged.
Batches == UNION {[1 .. n -> Entries] : n \in 1 .. MaxBatch}
ClientsUpto(b, i) == {b[j].client : j \in 1 .. i}
Judged(b) == {b[i].client : i \in {i \in DOMAIN b : Cardinality(ClientsUpto(b, i)) =< MaxClients}}
Latest(b) == Max({b[i].at : i \in DOMAIN b})
Failures(b) == {<<b[i].client, b[i].at>> : i \in {i \in DOMAIN b : b[i].kind = "fail"}}
Carried(b, c, k, t) == Cardinality({i \in DOMAIN b : b[i] = [client |-> c, kind |-> k, at |-> t]})
Stored(b) == [c \in Clients |-> [k \in Kinds |-> [t \in Time |-> logs[c][k][t] + Carried(b, c, k, t)]]]

InWindow(t) == t .. t + Window
\* The windows of a client with one of the failures a batch has brought ...
Concerned(brought, c) == {t \in Time : \E u \in InWindow(t) : <<c, u>> \in brought}
\* ... and those whose lines are all within the horizon and among the newest.
InSight(c, now) == {t \in Time : t >= now - Horizon /\ Total(logs[c], t .. MaxTime) =< Limit}

\* The lines of a batch are stored, to be judged with those stored before ...
Store(w, b, resent) ==
  /\ logs' = Stored(b)
  /\ \A c \in Clients, k \in Kinds, t \in Time : logs'[c][k][t] =< MaxLines
  /\ overlooked' = overlooked \cup UNION {{c} \X Concerned(Failures(b), c) : c \in Clients \ Judged(b)}
  /\ Continue(w, Job("read", None, [left |-> Judged(b), now |-> Latest(b), brought |-> Failures(b),
                                     found |-> {}, resent |-> resent]))

Post(w) ==
  /\ Idle(w)
  /\ \E b \in Batches : Store(w, b, FALSE)
  /\ UNCHANGED raised

\* ... also when the agent sends them again because it saw no answer.
Resend(w) ==
  /\ Idle(w)
  /\ \E b \in Batches :
       /\ \A i \in DOMAIN b : Carried(b, b[i].client, b[i].kind, b[i].at) =< logs[b[i].client][b[i].kind][b[i].at]
       /\ Store(w, b, TRUE)
  /\ UNCHANGED raised

\* The store answers with the newest lines of a client, which are judged ...
Read(w) ==
  LET j == job[w] IN
  /\ At(w, "read")
  /\ \E c \in j.left :
       /\ \E s \in Newest(logs[c]) :
            Continue(w, [j EXCEPT !.left = @ \ {c}, !.found = @ \cup Evaluate(c, s, j.now)])
       /\ overlooked' = (overlooked \ ({c} \X Concerned(j.brought, c)))
                          \cup ({c} \X (Concerned(j.brought, c) \ InSight(c, j.now)))
  /\ UNCHANGED <<logs, raised>>

\* ... and landAlerts inserts the alerts whose id is not taken.
Land(w) ==
  /\ At(w, "read") /\ job[w].left = {}
  /\ raised' = raised \cup job[w].found
  /\ Done(w)
  /\ UNCHANGED <<logs, overlooked>>

\* A call of runDetection fails: the lines stay, nothing is raised and the host is answered 202 all the same.
Fail(w) ==
  /\ At(w, "read")
  /\ overlooked' = overlooked \cup UNION {{c} \X Concerned(job[w].brought, c) : c \in Clients}
  /\ Done(w)
  /\ UNCHANGED <<logs, raised>>

DetectionInit ==
  /\ logs = [c \in Clients |-> [k \in Kinds |-> [t \in Time |-> 0]]]
  /\ raised = {} /\ overlooked = {}

DetectionNext == \E w \in Workers : Post(w) \/ Resend(w) \/ Read(w) \/ Land(w) \/ Fail(w)

DetectionSpec == RequestsInit /\ DetectionInit /\ [][DetectionNext]_detectionVars

-----------------------------------------------------------------------------
Burst(f, t) == Count(f, InWindow(t)) >= Threshold

\* An alert about a window that starts at from, and was in sight together with the one that starts at t.
Reports(a, c, t) ==
  \E from \in Time :
    /\ a.rule = "ssh-bruteforce" /\ a.client = c /\ a.bucket = from \div Window
    /\ Burst(logs[c].fail, from)
    /\ from =< t /\ t =< from + Horizon

\* "a brute force split over many agent posts is still seen as one burst" (routes.js, line 599): once the
\* batches that are ingested at the same time are done, each window that starts with a failed log-in and
\* holds enough of them has raised an alert of its client, at this window or at an earlier one within the
\* horizon, unless the last batch with a line of the window did not judge it.  And an alert names a bucket
\* in which a window of its client with enough failures starts, and the log-in that makes it a likely
\* compromise follows the start of that window.
BurstsAreRaised ==
  /\ (\A w \in Workers : Idle(w)) =>
       \A c \in Clients : \A t \in Time \ {u \in Time : <<c, u>> \in overlooked} :
         logs[c].fail[t] > 0 /\ Burst(logs[c].fail, t) => \E a \in raised : Reports(a, c, t)
  /\ \A a \in raised : \E t \in Time :
       /\ t \div Window = a.bucket
       /\ Burst(logs[a.client].fail, t)
       /\ a.ok # None => a.ok >= t /\ logs[a.client].ok[a.ok] > 0

=============================================================================
