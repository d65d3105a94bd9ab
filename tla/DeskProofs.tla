------------------------------ MODULE DeskProofs ------------------------------
(***************************************************************************)
(* What analysts work with, for every number of objects and of requests at  *)
(* once: cases, channels, hunts, workflows, the assistant, custom rules,    *)
(* the activity of assistants, the browser console and NetCoop.  Each       *)
(* section states an invariant, proves it inductive, and proves the         *)
(* properties that follow from it; the last one is about the services side  *)
(* by side, as MCDesk has them.                                            *)
(***************************************************************************)
EXTENDS MCDesk, FunctionTheorems, RequestLemmas

-----------------------------------------------------------------------------
(* Cases. *)

Closes(p) == "status" \in DOMAIN p /\ p.status = "CLOSED"

JobOK(j) ==
  /\ {"pc", "on"} \subseteq DOMAIN j
  /\ IF j.pc = "idle" THEN j.on = None ELSE j.on \in CaseIds
  /\ j.pc = "write" =>
       /\ Closes(j.patch) => "closed" \in DOMAIN j.patch /\ j.patch.closed
       /\ "closed" \in DOMAIN j.patch => "status" \in DOMAIN j.patch

\* What the one request at work on c still knows: the case was not closed behind its back, and no task
\* was added since it looked.
OneAtWork(c) ==
  /\ \A v, w \in Workers : job[v].on = c /\ job[w].on = c => v = w
  /\ \A w \in Workers : job[w].on = c =>
       IF job[w].pc = "write"
       THEN Closes(job[w].patch) => job[w].force \/ OpenTasks(c) = {}
       ELSE cases[c].status # "CLOSED"
  /\ cases[c].status = "CLOSED" /\ c \notin forced => OpenTasks(c) = {}

CaseRows ==
  /\ DOMAIN cases = CaseIds /\ \A c \in CaseIds : {"status", "closed", "mitre"} \subseteq DOMAIN cases[c]
  /\ tasks \in [Tasks -> [case : CaseIds \cup {None}, status : TASK_STATUS]]

CasesInv ==
  /\ CaseRows
  /\ DOMAIN job = Workers /\ \A w \in Workers : JobOK(job[w])
  /\ ClosedHasTime
  /\ \A c \in CaseIds \ crowded : OneAtWork(c)

\* What a request carries fits the records it will be stored in.
PatchOK(p) ==
  /\ DOMAIN p \subseteq {"status", "closed", "escalated", "severity", "mitre"}
  /\ "status" \in DOMAIN p => p.status \in CASE_STATUS
  /\ "closed" \in DOMAIN p => p.closed \in BOOLEAN
  /\ "escalated" \in DOMAIN p => p.escalated \in BOOLEAN
  /\ "severity" \in DOMAIN p => p.severity \in 1 .. Severest
  /\ "mitre" \in DOMAIN p => p.mitre \subseteq Techniques

CarriesOK(j) ==
  /\ j.pc \in {"link", "derive"} => "ids" \in DOMAIN j /\ j.ids \subseteq Alerts
  /\ j.pc = "mitre" => j.mitre \subseteq Techniques
  /\ j.pc = "add_ioc" => "values" \in DOMAIN j /\ j.values \subseteq Values
  /\ j.pc = "write" => PatchOK(j.patch)

CaseTypesInv == CasesInv /\ CasesTypeOK /\ \A w \in Workers : CarriesOK(job[w])

LEMMA PlainJob ==
  ASSUME NEW c \in CaseIds, NEW pc, pc \notin {"idle", "write"}, NEW fields
  PROVE  JobOK(Job(pc, c, fields)) /\ Job(pc, c, fields).pc = pc /\ Job(pc, c, fields).on = c
  BY JobFields DEF JobOK

LEMMA WriteJob ==
  ASSUME NEW c \in CaseIds, NEW patch, NEW force
  PROVE  LET j == Write(c, patch, force)
         IN  /\ {"pc", "on"} \subseteq DOMAIN j /\ j.pc = "write" /\ j.on = c
             /\ j.patch = patch /\ j.force = force
<1>1. DOMAIN [patch |-> patch, force |-> force] = {"patch", "force"}
  OBVIOUS
<1> QED BY <1>1, JobFields DEF Write

LEMMA PatchJob ==
  ASSUME NEW c \in CaseIds, NEW patch
  PROVE  LET j == Write(c, patch, FALSE)
         IN  {"pc", "on"} \subseteq DOMAIN j /\ j.pc = "write" /\ j.on = c /\ j.patch = patch
<1>1. DOMAIN [patch |-> patch, force |-> FALSE] = {"patch", "force"}
  OBVIOUS
<1> QED BY <1>1, JobFields DEF Write

LEMMA IdleCaseJob == JobOK(NoJob) /\ NoJob.on = None /\ NoJob.pc = "idle"
  BY DEF JobOK, NoJob

\* While a case is not crowded, no second request works on it.
LEMMA OneCaseRequest ==
  ASSUME CasesInv, NEW w \in Workers, NEW j, Continue(w, j), NEW c \in CaseIds \ crowded'
  PROVE  /\ c \notin crowded
         /\ \A u, v \in Workers : job'[u].on = c /\ job'[v].on = c => u = v
<1>1. c \notin crowded /\ (j.on = c => \A v \in Workers \ {w} : job[v].on # c)
  BY CasesAssumption DEF Continue
<1> QED BY <1>1, ContinueJob DEF CasesInv, OneAtWork

-----------------------------------------------------------------------------
(* Steps of one request. *)

\* What a request on case c0 goes on with.
Knows(j, c0, status, open) ==
  IF j.pc = "write" THEN Closes(j.patch) => j.force \/ open = {} ELSE status # "CLOSED"

\* A request works on the case c0 and leaves the others alone.
LEMMA WorkOnOneCase ==
  ASSUME CasesInv, NEW w \in Workers, NEW j, Continue(w, j), JobOK(j), NEW c0 \in CaseIds,
         job[w].on \in {None, c0}, j.on \in {None, c0}, CaseRows', ClosedHasTime',
         \A c \in CaseIds \ {c0} : /\ cases'[c].status = cases[c].status
                                   /\ OpenTasks(c)' = OpenTasks(c) /\ (c \in forced' <=> c \in forced),
         \/ job[w].on = c0 \/ j.on = c0
         \/ cases'[c0].status # "CLOSED" /\ OpenTasks(c0)' = OpenTasks(c0),
         c0 \notin crowded => /\ j.on = c0 => Knows(j, c0, cases'[c0].status, OpenTasks(c0)')
                              /\ cases'[c0].status = "CLOSED" /\ c0 \notin forced' => OpenTasks(c0)' = {}
  PROVE  CasesInv'
<1>1. DOMAIN job' = Workers /\ job'[w] = j /\ \A v \in Workers \ {w} : job'[v] = job[v]
  BY ContinueJob DEF CasesInv
<1>2. \A v \in Workers : JobOK(job'[v])
  BY <1>1 DEF CasesInv
<1>3. ASSUME NEW c \in CaseIds \ crowded' PROVE OneAtWork(c)'
  <2>1. c \notin crowded /\ OneAtWork(c)
    BY <1>3, OneCaseRequest DEF CasesInv
  <2>2. \A u, v \in Workers : job'[u].on = c /\ job'[v].on = c => u = v
    BY <1>3, OneCaseRequest
  <2>3. CASE c # c0
    <3>1. job'[w].on # c
      BY <1>1, <2>3, CasesAssumption
    <3> QED BY <1>1, <2>1, <2>2, <2>3, <3>1 DEF OneAtWork
  <2>4. CASE c = c0
    <3>1. ASSUME NEW v \in Workers, job'[v].on = c
          PROVE  IF job'[v].pc = "write"
                 THEN Closes(job'[v].patch) => job'[v].force \/ OpenTasks(c)' = {}
                 ELSE cases'[c].status # "CLOSED"
      <4>1. CASE v = w
        BY <1>1, <2>1, <2>4, <3>1, <4>1 DEF Knows
      <4>2. CASE v # w
        <5>1. job[v].on = c0 /\ job[w].on # c0 /\ j.on # c0
          BY <1>1, <2>1, <2>2, <2>4, <3>1, <4>2 DEF OneAtWork
        <5> QED BY <1>1, <2>1, <2>4, <4>2, <5>1 DEF OneAtWork
      <4> QED BY <4>1, <4>2
    <3> QED BY <2>1, <2>2, <2>4, <3>1 DEF OneAtWork
  <2> QED BY <2>3, <2>4
<1> QED BY <1>1, <1>2, <1>3 DEF CasesInv, JobOK

\* The same for a step that changes neither a case nor a task.
LEMMA QuietWork ==
  ASSUME CasesInv, NEW w \in Workers, NEW j, Continue(w, j), JobOK(j), NEW c0 \in CaseIds,
         job[w].on \in {None, c0}, j.on \in {None, c0}, UNCHANGED <<cases, tasks, forced>>,
         c0 \notin crowded /\ j.on = c0 => Knows(j, c0, cases[c0].status, OpenTasks(c0))
  PROVE  CasesInv'
<1>1. /\ \A c \in CaseIds : OpenTasks(c)' = OpenTasks(c) /\ cases'[c].status = cases[c].status
      /\ CaseRows' /\ ClosedHasTime'
  BY DEF CasesInv, CaseRows, ClosedHasTime, OpenTasks, TasksOf
<1>2. c0 \notin crowded => (cases[c0].status = "CLOSED" /\ c0 \notin forced => OpenTasks(c0) = {})
  BY DEF CasesInv, OneAtWork
<1>3. CASE job[w].on = c0 \/ j.on = c0
  BY <1>1, <1>2, <1>3, WorkOnOneCase
<1>4. CASE job[w].on # c0 /\ j.on # c0
  <2>1. DOMAIN job' = Workers /\ job'[w] = j /\ \A v \in Workers \ {w} : job'[v] = job[v]
    BY ContinueJob DEF CasesInv
  <2>2. \A c \in CaseIds \ crowded' : OneAtWork(c)'
    BY <1>1, <1>4, <2>1, OneCaseRequest, CasesAssumption DEF CasesInv, OneAtWork
  <2> QED BY <1>1, <2>1, <2>2 DEF CasesInv, JobOK
<1> QED BY <1>3, <1>4

\* A request on a case that is not crowded, other than a write, works on a case that is not closed.
LEMMA AtWork ==
  ASSUME CasesInv, NEW w \in Workers, job[w].pc # "idle"
  PROVE  /\ job[w].on \in CaseIds
         /\ job[w].pc # "write" /\ job[w].on \notin crowded => cases[job[w].on].status # "CLOSED"
  BY DEF CasesInv, JobOK, OneAtWork

LEMMA AtRest ==
  ASSUME CasesInv, NEW w \in Workers, Idle(w)
  PROVE  job[w].on = None
  BY DEF CasesInv, JobOK, Idle, At
-----------------------------------------------------------------------------
(* One step per action. *)

LEMMA OpenCaseStep == ASSUME CasesInv, NEW w \in Workers, OpenCase(w) PROVE CasesInv'
<1>1. PICK c \in CaseIds, s \in 1 .. Severest, ids \in SUBSET Alerts, killchain \in BOOLEAN, m \in SUBSET Techniques :
        /\ cases' = [cases EXCEPT ![c] = [NoCase EXCEPT !.status = "OPEN", !.severity = s, !.mitre = m]]
        /\ Continue(w, IF ids = {} THEN NoJob ELSE Job("link", c, [ids |-> ids, killchain |-> killchain]))
  BY DEF OpenCase
<1> DEFINE j == IF ids = {} THEN NoJob ELSE Job("link", c, [ids |-> ids, killchain |-> killchain])
<1>2. JobOK(j) /\ j.on \in {None, c} /\ j.pc # "write"
  BY PlainJob, IdleCaseJob
<1>3. cases'[c].status = "OPEN" /\ \A d \in CaseIds \ {c} : cases'[d] = cases[d]
  BY <1>1 DEF CasesInv, CaseRows, NoCase
<1>4. /\ CaseRows' /\ ClosedHasTime' /\ UNCHANGED forced
      /\ \A d \in CaseIds : OpenTasks(d)' = OpenTasks(d)
  BY <1>1, <1>3 DEF OpenCase, CasesInv, CaseRows, ClosedHasTime, OpenTasks, TasksOf, NoCase
<1>5. job[w].on = None
  BY AtRest DEF OpenCase
<1>6. Knows(j, c, cases'[c].status, OpenTasks(c)')
  BY <1>2, <1>3 DEF Knows
<1> HIDE DEF j
<1>7. Continue(w, j)
  BY <1>1 DEF j
<1> QED BY <1>2, <1>3, <1>4, <1>5, <1>6, <1>7, WorkOnOneCase

\* A request that has just read a case it may write, and what it read of it.
LEMMA StartPlain ==
  ASSUME CasesInv, NEW w \in Workers, Idle(w), UNCHANGED <<cases, tasks, forced>>,
         NEW c \in CaseIds, Writable(c), NEW pc, pc \notin {"idle", "write"}, NEW fields,
         Continue(w, Job(pc, c, fields))
  PROVE  CasesInv'
<1> DEFINE j == Job(pc, c, fields)
<1>1. JobOK(j) /\ j.pc # "write" /\ j.on = c
  BY PlainJob
<1>2. Knows(j, c, cases[c].status, OpenTasks(c))
  BY <1>1 DEF Knows, Writable
<1> QED BY <1>1, <1>2, AtRest, QuietWork

LEMMA StartCasePatch ==
  ASSUME CasesInv, NEW w \in Workers, Idle(w), UNCHANGED <<cases, tasks, forced>>,
         NEW c \in CaseIds, NEW p, Continue(w, Write(c, p, FALSE)), ~Closes(p),
         "closed" \in DOMAIN p => "status" \in DOMAIN p
  PROVE  CasesInv'
<1> DEFINE j == Write(c, p, FALSE)
<1>1. {"pc", "on"} \subseteq DOMAIN j /\ j.pc = "write" /\ j.on = c /\ j.patch = p
  BY PatchJob
<1>2. JobOK(j) /\ Knows(j, c, cases[c].status, OpenTasks(c))
  BY <1>1 DEF JobOK, Knows
<1> QED BY <1>1, <1>2, AtRest, QuietWork

LEMMA StartCaseStep ==
  ASSUME CasesInv, NEW w \in Workers,
         StartContent(w) \/ StartUnlink(w) \/ StartClose(w) \/ StartReopen(w) \/ StartEscalate(w) \/ StartUpdate(w)
  PROVE  CasesInv'
<1>1. CASE StartContent(w)
  <2>1. PICK c \in CaseIds :
          /\ Writable(c)
          /\ \/ \E ids \in (SUBSET Alerts) \ {{}} : Continue(w, Job("link", c, [ids |-> ids, killchain |-> FALSE]))
             \/ Continue(w, Job("add_task", c, [left |-> 1]))
             \/ Continue(w, Job("set_task", c, [open |-> cases[c].status = "OPEN"]))
             \/ \E vs \in (SUBSET Values) \ {{}} : Continue(w, Job("add_ioc", c, [left |-> 0, values |-> vs]))
             \/ \E v \in iocs[c] : Continue(w, Job("remove_ioc", c, [value |-> v]))
    BY <1>1 DEF StartContent
  <2> QED BY <1>1, <2>1, StartPlain DEF StartContent
<1>2. CASE StartUnlink(w)
  BY <1>2, StartPlain DEF StartUnlink
<1>3. CASE StartClose(w)
  BY <1>3, StartPlain DEF StartClose
<1>4. CASE StartReopen(w)
  <2>1. PICK c \in CaseIds : Continue(w, Write(c, [status |-> "IN_PROGRESS", closed |-> FALSE], FALSE))
    BY <1>4 DEF StartReopen
  <2>2. DOMAIN [status |-> "IN_PROGRESS", closed |-> FALSE] = {"status", "closed"}
    OBVIOUS
  <2> QED BY <1>4, <2>1, <2>2, StartCasePatch DEF StartReopen, Closes
<1>5. CASE StartEscalate(w)
  <2>1. PICK c \in CaseIds :
          /\ Writable(c)
          /\ Continue(w, Write(c, [escalated |-> TRUE,
               severity |-> IF cases[c].severity = Severest THEN Severest ELSE cases[c].severity + 1,
               status |-> IF cases[c].status = "OPEN" THEN "IN_PROGRESS" ELSE cases[c].status], FALSE))
    BY <1>5 DEF StartEscalate
  <2> DEFINE p == [escalated |-> TRUE,
                   severity |-> IF cases[c].severity = Severest THEN Severest ELSE cases[c].severity + 1,
                   status |-> IF cases[c].status = "OPEN" THEN "IN_PROGRESS" ELSE cases[c].status]
  <2>2. DOMAIN p = {"escalated", "severity", "status"} /\ p.status # "CLOSED"
    BY <2>1 DEF Writable
  <2> HIDE DEF p
  <2>3. Continue(w, Write(c, p, FALSE))
    BY <2>1 DEF p
  <2> QED BY <1>5, <2>2, <2>3, StartCasePatch DEF StartEscalate, Closes
<1>6. CASE StartUpdate(w)
  <2>1. PICK c \in CaseIds : \/ \E p \in PatchStatus(c) : Continue(w, Write(c, p, FALSE))
                             \/ \E s \in 1 .. Severest : Continue(w, Write(c, [severity |-> s], FALSE))
                             \/ \E m \in SUBSET Techniques : Continue(w, Write(c, [mitre |-> m], FALSE))
    BY <1>6 DEF StartUpdate
  <2>2. ASSUME NEW p \in PatchStatus(c)
        PROVE  ~Closes(p) /\ "status" \in DOMAIN p
    <3>1. PICK s \in CASE_STATUS \ {"CLOSED", cases[c].status} :
            p = IF cases[c].status = "CLOSED" THEN [status |-> s, closed |-> FALSE] ELSE [status |-> s]
      BY DEF PatchStatus
    <3>2. DOMAIN [status |-> s, closed |-> FALSE] = {"status", "closed"} /\ DOMAIN [status |-> s] = {"status"}
      OBVIOUS
    <3> QED BY <3>1, <3>2 DEF Closes
  <2>3. /\ \A s \in 1 .. Severest : DOMAIN [severity |-> s] = {"severity"}
        /\ \A m \in SUBSET Techniques : DOMAIN [mitre |-> m] = {"mitre"}
    OBVIOUS
  <2> QED BY <1>6, <2>1, <2>2, <2>3, StartCasePatch DEF StartUpdate, Closes
<1> QED BY <1>1, <1>2, <1>3, <1>4, <1>5, <1>6

\* What follows attach.
LEMMA AttachJob ==
  ASSUME NEW j, j.on \in CaseIds
  PROVE  JobOK(AfterAttach(j)) /\ AfterAttach(j).on \in {None, j.on} /\ AfterAttach(j).pc # "write"
  BY PlainJob, IdleCaseJob DEF AfterAttach

\* A request on its case that goes on, without touching a case or a task.
LEMMA QuietCaseStep ==
  ASSUME CasesInv, NEW w \in Workers, job[w].pc \notin {"idle", "write"}, UNCHANGED <<cases, tasks, forced>>,
         NEW j, Continue(w, j), JobOK(j), j.on \in {None, job[w].on}, j.pc # "write"
  PROVE  CasesInv'
<1>1. job[w].on \in CaseIds /\ (job[w].on \notin crowded => cases[job[w].on].status # "CLOSED")
  BY AtWork
<1> QED BY <1>1, QuietWork DEF Knows
LEMMA LinkStep == ASSUME CasesInv, NEW w \in Workers, Link(w) PROVE CasesInv'
<1>1. PICK j : j = job[w] /\ j.pc = "link" /\ JobOK(j) /\ j.on \in CaseIds
  BY AtWork DEF Link, At, CasesInv
<1> DEFINE added == j.ids \ Linked(j.on)
           g == IF added = {} THEN AfterAttach(j) ELSE [j EXCEPT !.pc = "derive", !.ids = added]
<1>2. JobOK(g) /\ g.on \in {None, j.on} /\ g.pc # "write"
  BY <1>1, AttachJob DEF JobOK
<1>3. Continue(w, g) /\ UNCHANGED <<cases, tasks, forced>>
  BY <1>1 DEF Link
<1> HIDE DEF g
<1> QED BY <1>1, <1>2, <1>3, QuietCaseStep

LEMMA DeriveStep == ASSUME CasesInv, NEW w \in Workers, Derive(w) PROVE CasesInv'
<1>1. PICK j : j = job[w] /\ j.pc = "derive" /\ JobOK(j) /\ j.on \in CaseIds
  BY AtWork DEF Derive, At, CasesInv
<1>2. PICK mitre : Continue(w, IF mitre = cases[j.on].mitre THEN AfterAttach(j)
                               ELSE Patched(j, [pc |-> "mitre", mitre |-> mitre]))
  BY <1>1 DEF Derive
<1> DEFINE h == Patched(j, [pc |-> "mitre", mitre |-> mitre])
           g == IF mitre = cases[j.on].mitre THEN AfterAttach(j) ELSE h
<1>3. DOMAIN [pc |-> "mitre", mitre |-> mitre] = {"pc", "mitre"}
  OBVIOUS
<1>4. h = [x \in DOMAIN j \cup {"pc", "mitre"} |->
             IF x \in {"pc", "mitre"} THEN [pc |-> "mitre", mitre |-> mitre][x] ELSE j[x]]
  BY <1>3 DEF Patched
<1> HIDE DEF h
<1>5. {"pc", "on"} \subseteq DOMAIN h /\ h.pc = "mitre" /\ h.on = j.on
  BY <1>1, <1>4 DEF JobOK
<1>6. JobOK(g) /\ g.on \in {None, j.on} /\ g.pc # "write"
  BY <1>1, <1>5, AttachJob DEF JobOK
<1>7. Continue(w, g) /\ UNCHANGED <<cases, tasks, forced>>
  BY <1>2 DEF Derive, h
<1> HIDE DEF g
<1> QED BY <1>1, <1>6, <1>7, QuietCaseStep

LEMMA AddIocStep == ASSUME CasesInv, NEW w \in Workers, AddIoc(w) PROVE CasesInv'
<1>1. PICK j : j = job[w] /\ j.pc = "add_ioc" /\ JobOK(j) /\ j.on \in CaseIds
  BY AtWork DEF AddIoc, At, CasesInv
<1>2. PICK v \in j.values : Continue(w, CASE j.values # {v} -> [j EXCEPT !.values = @ \ {v}]
                                           [] j.left > 0 -> Job("add_task", j.on, [left |-> j.left])
                                           [] OTHER -> NoJob)
  BY <1>1 DEF AddIoc
<1> DEFINE g == CASE j.values # {v} -> [j EXCEPT !.values = @ \ {v}]
                  [] j.left > 0 -> Job("add_task", j.on, [left |-> j.left])
                  [] OTHER -> NoJob
<1>3. PICK h : h = g
  OBVIOUS
<1>4. h \in {[j EXCEPT !.values = @ \ {v}], Job("add_task", j.on, [left |-> j.left]), NoJob}
  BY <1>2, <1>3
<1>5. JobOK(h) /\ h.on \in {None, j.on} /\ h.pc # "write"
  BY <1>1, <1>4, PlainJob, IdleCaseJob DEF JobOK
<1>6. Continue(w, h) /\ UNCHANGED <<cases, tasks, forced>>
  BY <1>2, <1>3 DEF AddIoc
<1> QED BY <1>1, <1>5, <1>6, QuietCaseStep

LEMMA EndStep == ASSUME CasesInv, NEW w \in Workers, Unlink(w) \/ RemoveIoc(w) PROVE CasesInv'
<1>1. job[w].pc \in {"unlink", "remove_ioc"} /\ Continue(w, NoJob) /\ UNCHANGED <<cases, tasks, forced>>
  BY DEF Unlink, RemoveIoc, At, Done
<1> QED BY <1>1, IdleCaseJob, QuietCaseStep

\* The techniques of a case say nothing of its status.
LEMMA WriteMitreStep == ASSUME CasesInv, NEW w \in Workers, WriteMitre(w) PROVE CasesInv'
<1>1. PICK j : /\ j = job[w] /\ j.pc = "mitre" /\ j.on \in CaseIds
               /\ j.on \notin crowded => cases[j.on].status # "CLOSED"
  BY AtWork DEF WriteMitre, At
<1>2. cases' = [cases EXCEPT ![j.on].mitre = j.mitre] /\ Continue(w, AfterAttach(j)) /\ UNCHANGED <<tasks, forced>>
  BY <1>1 DEF WriteMitre
<1>3. \A c \in CaseIds : /\ DOMAIN cases'[c] = DOMAIN cases[c] /\ cases'[c].status = cases[c].status
                         /\ cases'[c].closed = cases[c].closed /\ OpenTasks(c)' = OpenTasks(c)
  BY <1>1, <1>2 DEF CasesInv, CaseRows, OpenTasks, TasksOf
<1>4. CaseRows' /\ ClosedHasTime'
  BY <1>1, <1>2, <1>3 DEF CasesInv, CaseRows, ClosedHasTime
<1>5. /\ JobOK(AfterAttach(j)) /\ AfterAttach(j).on \in {None, j.on}
      /\ j.on \notin crowded => Knows(AfterAttach(j), j.on, cases'[j.on].status, OpenTasks(j.on)')
  BY <1>1, <1>3, AttachJob DEF Knows
<1> QED BY <1>1, <1>2, <1>3, <1>4, <1>5, WorkOnOneCase

\* A task of a case that is not closed is added or changed.
LEMMA TaskStep ==
  ASSUME CasesInv, NEW w \in Workers, NEW j, j = job[w], j.pc \notin {"idle", "write"},
         NEW g, Continue(w, g), JobOK(g), g.on \in {None, j.on}, g.pc = "write" => ~Closes(g.patch),
         UNCHANGED <<cases, forced>>,
         tasks' \in [Tasks -> [case : CaseIds \cup {None}, status : TASK_STATUS]],
         \A t \in Tasks : tasks'[t] = tasks[t] \/ (tasks[t].case \in {None, j.on} /\ tasks'[t].case = j.on)
  PROVE  CasesInv'
<1>1. j.on \in CaseIds /\ (j.on \notin crowded => cases[j.on].status # "CLOSED")
  BY AtWork
<1>2. \A c \in CaseIds \ {j.on} : OpenTasks(c)' = OpenTasks(c)
  BY <1>1, CasesAssumption DEF OpenTasks, TasksOf
<1>3. CaseRows' /\ ClosedHasTime'
  BY DEF CasesInv, CaseRows, ClosedHasTime
<1>4. j.on \notin crowded => Knows(g, j.on, cases'[j.on].status, OpenTasks(j.on)')
  BY <1>1 DEF Knows
<1> QED BY <1>1, <1>2, <1>3, <1>4, WorkOnOneCase

LEMMA AddTaskStep == ASSUME CasesInv, NEW w \in Workers, AddTask(w) PROVE CasesInv'
<1>1. PICK j : j = job[w] /\ j.pc = "add_task" /\ JobOK(j) /\ j.on \in CaseIds
  BY AtWork DEF AddTask, At, CasesInv
<1>2. PICK t \in Tasks : tasks[t].case = None /\ tasks' = [tasks EXCEPT ![t].case = j.on]
  BY <1>1 DEF AddTask
<1> DEFINE g == IF j.left = 1 THEN NoJob ELSE [j EXCEPT !.left = @ - 1]
<1>3. JobOK(g) /\ g.on \in {None, j.on} /\ g.pc # "write"
  BY <1>1, IdleCaseJob DEF JobOK
<1>4. Continue(w, g) /\ UNCHANGED <<cases, forced>>
  BY <1>1 DEF AddTask
<1> HIDE DEF g
<1>5. /\ tasks' \in [Tasks -> [case : CaseIds \cup {None}, status : TASK_STATUS]]
      /\ \A s \in Tasks : tasks'[s] = tasks[s] \/ (tasks[s].case = None /\ tasks'[s].case = j.on)
  BY <1>1, <1>2 DEF CasesInv, CaseRows
<1> QED BY <1>1, <1>3, <1>4, <1>5, TaskStep

LEMMA SetTaskStep == ASSUME CasesInv, NEW w \in Workers, SetTask(w) PROVE CasesInv'
<1>1. PICK j : j = job[w] /\ j.pc = "set_task" /\ JobOK(j) /\ j.on \in CaseIds
  BY AtWork DEF SetTask, At, CasesInv
<1>2. CASE \E t \in TasksOf(j.on), s \in TASK_STATUS :
             /\ tasks' = [tasks EXCEPT ![t].status = s]
             /\ Continue(w, IF j.open /\ s \in {"DOING", "DONE"}
                            THEN Write(j.on, [status |-> "IN_PROGRESS"], FALSE) ELSE NoJob)
  <2>1. PICK t \in TasksOf(j.on), s \in TASK_STATUS :
             /\ tasks' = [tasks EXCEPT ![t].status = s]
             /\ Continue(w, IF j.open /\ s \in {"DOING", "DONE"}
                            THEN Write(j.on, [status |-> "IN_PROGRESS"], FALSE) ELSE NoJob)
    BY <1>2
  <2>2. PICK c \in CaseIds : c = j.on
    BY <1>1
  <2>3. PICK p : p = [status |-> "IN_PROGRESS"]
    OBVIOUS
  <2> DEFINE h == Write(c, p, FALSE)
             g == IF j.open /\ s \in {"DOING", "DONE"} THEN h ELSE NoJob
  <2>4. {"pc", "on"} \subseteq DOMAIN h /\ h.pc = "write" /\ h.on = c /\ h.patch = p
    BY PatchJob
  <2> HIDE DEF h
  <2>5. JobOK(h) /\ ~Closes(h.patch)
    <3>1. DOMAIN p = {"status"} /\ p.status = "IN_PROGRESS"
      BY <2>3
    <3> QED BY <1>1, <2>2, <2>4, <3>1 DEF JobOK, Closes
  <2>6. JobOK(g) /\ g.on \in {None, j.on} /\ (g.pc = "write" => ~Closes(g.patch))
    BY <2>2, <2>4, <2>5, IdleCaseJob
  <2>7. Continue(w, g) /\ UNCHANGED <<cases, forced>>
    BY <1>1, <2>1, <2>2, <2>3 DEF SetTask, h
  <2> HIDE DEF g
  <2>8. /\ tasks' \in [Tasks -> [case : CaseIds \cup {None}, status : TASK_STATUS]]
        /\ \A u \in Tasks : tasks'[u] = tasks[u] \/ (tasks[u].case = j.on /\ tasks'[u].case = j.on)
    BY <2>1 DEF CasesInv, CaseRows, TasksOf
  <2> QED BY <1>1, <2>6, <2>7, <2>8, TaskStep
<1>3. CASE TasksOf(j.on) = {} /\ Done(w) /\ UNCHANGED tasks
  BY <1>1, <1>3, IdleCaseJob, QuietCaseStep DEF SetTask, Done
<1> QED BY <1>1, <1>2, <1>3 DEF SetTask
\* A case is closed only while none of its tasks is open, or by force.
LEMMA CheckTasksStep == ASSUME CasesInv, NEW w \in Workers, CheckTasks(w) PROVE CasesInv'
<1>1. PICK j : j = job[w] /\ j.pc = "close" /\ j.on \in CaseIds
  BY AtWork DEF CheckTasks, At
<1>2. PICK p : p = [status |-> "CLOSED", closed |-> TRUE]
  OBVIOUS
<1> DEFINE h == Write(j.on, p, j.force)
           g == IF OpenTasks(j.on) # {} /\ ~j.force THEN NoJob ELSE h
<1>3. {"pc", "on"} \subseteq DOMAIN h /\ h.pc = "write" /\ h.on = j.on /\ h.patch = p /\ h.force = j.force
  BY <1>1, WriteJob
<1>4. Continue(w, g) /\ UNCHANGED <<cases, tasks, forced>>
  BY <1>1, <1>2 DEF CheckTasks
<1> HIDE DEF h
<1>5. JobOK(h)
  <2>1. DOMAIN p = {"status", "closed"} /\ p.closed = TRUE
    BY <1>2
  <2> QED BY <1>1, <1>3, <2>1 DEF JobOK
<1>6. JobOK(g) /\ g.on \in {None, j.on} /\ (g.pc = "write" => g.force \/ OpenTasks(j.on) = {})
  BY <1>3, <1>5, IdleCaseJob
<1>7. Knows(g, j.on, cases[j.on].status, OpenTasks(j.on)) \/ g.on # j.on
  BY <1>1, <1>3, <1>6, IdleCaseJob, CasesAssumption DEF Knows
<1> HIDE DEF g
<1> QED BY <1>1, <1>4, <1>6, <1>7, QuietWork

\* What a write leaves of a case.
LEMMA PatchedCase ==
  ASSUME NEW r, NEW p, {"status", "closed", "mitre"} \subseteq DOMAIN r
  PROVE  LET s == Patched(r, p)
         IN  /\ {"status", "closed", "mitre"} \subseteq DOMAIN s
             /\ s.status = (IF "status" \in DOMAIN p THEN p.status ELSE r.status)
             /\ s.closed = (IF "closed" \in DOMAIN p THEN p.closed ELSE r.closed)
  BY DEF Patched

LEMMA WriteCaseStep == ASSUME CasesInv, NEW w \in Workers, WriteCase(w) PROVE CasesInv'
<1>1. PICK j : j = job[w] /\ j.pc = "write" /\ JobOK(j) /\ j.on \in CaseIds
  BY AtWork DEF WriteCase, At, CasesInv
<1>2. PICK s : s = Patched(cases[j.on], j.patch)
  OBVIOUS
<1>3. cases' = [cases EXCEPT ![j.on] = s] /\ UNCHANGED tasks /\ Continue(w, NoJob)
  BY <1>1, <1>2 DEF WriteCase, Done
<1>4. forced' = CASE j.force -> forced \cup {j.on}
                  [] ~j.force /\ "closed" \in DOMAIN j.patch -> forced \ {j.on}
                  [] OTHER -> forced
  BY <1>1 DEF WriteCase
<1>5. /\ {"status", "closed", "mitre"} \subseteq DOMAIN s
      /\ s.status = (IF "status" \in DOMAIN j.patch THEN j.patch.status ELSE cases[j.on].status)
      /\ s.closed = (IF "closed" \in DOMAIN j.patch THEN j.patch.closed ELSE cases[j.on].closed)
  BY <1>1, <1>2, PatchedCase DEF JobOK, CasesInv, CaseRows
<1>6. cases'[j.on] = s /\ \A c \in CaseIds \ {j.on} : cases'[c] = cases[c]
  BY <1>1, <1>3 DEF CasesInv, CaseRows
<1>7. CaseRows'
  BY <1>1, <1>3, <1>5, <1>6 DEF CasesInv, CaseRows
<1>8. ClosedHasTime'
  <2>1. s.status = "CLOSED" => s.closed
    BY <1>1, <1>5 DEF CasesInv, ClosedHasTime, JobOK, Closes
  <2> QED BY <1>6, <2>1 DEF CasesInv, ClosedHasTime
<1>9. \A c \in CaseIds : OpenTasks(c)' = OpenTasks(c)
  BY <1>3 DEF OpenTasks, TasksOf
<1>10. \A c \in CaseIds \ {j.on} : c \in forced' <=> c \in forced
  BY <1>4
<1>11. ASSUME j.on \notin crowded, s.status = "CLOSED", j.on \notin forced'
       PROVE  OpenTasks(j.on) = {}
  <2>1. OneAtWork(j.on) /\ ~j.force
    BY <1>1, <1>4, <1>11 DEF CasesInv
  <2>2. CASE Closes(j.patch)
    BY <1>1, <2>1, <2>2 DEF OneAtWork
  <2>3. CASE ~Closes(j.patch)
    <3>1. "status" \notin DOMAIN j.patch /\ cases[j.on].status = "CLOSED"
      BY <1>5, <1>11, <2>3 DEF Closes
    <3>2. "closed" \notin DOMAIN j.patch
      BY <1>1, <3>1 DEF JobOK
    <3>3. j.on \notin forced
      BY <1>4, <1>11, <2>1, <3>2
    <3> QED BY <2>1, <3>1, <3>3 DEF OneAtWork
  <2> QED BY <2>2, <2>3
<1>12. NoJob.on # j.on
  BY <1>1, IdleCaseJob, CasesAssumption
<1> QED BY <1>1, <1>3, <1>6, <1>7, <1>8, <1>9, <1>10, <1>11, <1>12, IdleCaseJob, WorkOnOneCase

LEMMA CasesStep == ASSUME CasesInv, [CasesNext]_caseVars PROVE CasesInv'
<1>1. CASE UNCHANGED caseVars
  BY <1>1 DEF caseVars, requestVars, CasesInv, CaseRows, JobOK, ClosedHasTime, OneAtWork, OpenTasks, TasksOf
<1> QED BY <1>1, OpenCaseStep, StartCaseStep, LinkStep, DeriveStep, WriteMitreStep, EndStep, AddIocStep,
         AddTaskStep, SetTaskStep, CheckTasksStep, WriteCaseStep DEF CasesNext

LEMMA CasesStart == RequestsInit /\ CasesInit => CasesInv
<1> SUFFICES ASSUME RequestsInit, CasesInit PROVE CasesInv
  OBVIOUS
<1>1. \A w \in Workers : job[w] = NoJob
  BY DEF RequestsInit
<1>2. CaseRows /\ \A c \in CaseIds : cases[c].status = "absent"
  BY DEF CasesInit, CaseRows, NoCase, NoTask, TASK_STATUS
<1> QED BY <1>1, <1>2, IdleCaseJob, CasesAssumption DEF RequestsInit, CasesInv, ClosedHasTime, OneAtWork

\* A closed case has its closing time however requests interleave, and no open task unless it was closed
\* by force or two requests were at work on it (closeCase and updateTask, cases.js 182-200 and 251-270).
THEOREM ClosedCasesAreSettled == CasesSpec => []ClosedIsSettled
<1>1. CasesInv => ClosedIsSettled
  BY DEF CasesInv, OneAtWork, ClosedIsSettled
<1> QED BY <1>1, CasesStart, CasesStep, PTL DEF CasesSpec
-----------------------------------------------------------------------------
(* Closed cases are frozen. *)

\* What leaves the rows of a case alone leaves its content alone.
LEMMA SameRows ==
  ASSUME NEW c \in CaseIds, Linked(c)' = Linked(c), iocs'[c] = iocs[c],
         TasksOf(c)' = TasksOf(c), \A t \in TasksOf(c) : tasks'[t] = tasks[t]
  PROVE  Content(c)' = Content(c)
  BY DEF Content

LEMMA FrozenStep ==
  ASSUME CasesInv, [CasesNext]_caseVars, NEW c \in CaseIds \ crowded', cases[c].status = "CLOSED"
  PROVE  Content(c)' = Content(c)
<1>1. c \notin crowded
  <2>1. \A w \in Workers : (\E j : Continue(w, j)) => crowded \subseteq crowded'
    BY DEF Continue
  <2>2. ASSUME NEW w \in Workers, OpenCase(w) \/ StartContent(w) \/ StartUnlink(w) \/ StartClose(w) \/ StartReopen(w)
        PROVE  \E j : Continue(w, j)
    BY <2>2 DEF OpenCase, StartContent, StartUnlink, StartClose, StartReopen
  <2>3. ASSUME NEW w \in Workers, StartEscalate(w) \/ StartUpdate(w)
        PROVE  \E j : Continue(w, j)
    BY <2>3 DEF StartEscalate, StartUpdate
  <2>4. ASSUME NEW w \in Workers, Link(w) \/ Derive(w) \/ WriteMitre(w) \/ Unlink(w) \/ AddIoc(w) \/ RemoveIoc(w)
        PROVE  \E j : Continue(w, j)
    BY <2>4 DEF Link, Derive, WriteMitre, Unlink, AddIoc, RemoveIoc, Done
  <2>5. ASSUME NEW w \in Workers, AddTask(w) \/ SetTask(w) \/ CheckTasks(w) \/ WriteCase(w)
        PROVE  \E j : Continue(w, j)
    BY <2>5 DEF AddTask, SetTask, CheckTasks, WriteCase, Done
  <2>6. CASE UNCHANGED caseVars
    BY <2>6 DEF caseVars, requestVars
  <2> QED BY <2>1, <2>2, <2>3, <2>4, <2>5, <2>6 DEF CasesNext
<1>2. ASSUME NEW w \in Workers, job[w].pc \notin {"idle", "write"} PROVE job[w].on # c /\ job[w].on \in CaseIds
  BY <1>1, <1>2, AtWork
<1>3. ASSUME UNCHANGED <<tasks, links, iocs>> PROVE Content(c)' = Content(c)
  BY <1>3 DEF Content, Linked, TasksOf
<1>4. ASSUME NEW w \in Workers, OpenCase(w) \/ WriteMitre(w) \/ WriteCase(w) PROVE Content(c)' = Content(c)
  BY <1>3, <1>4 DEF OpenCase, WriteMitre, WriteCase
<1>5. ASSUME NEW w \in Workers, Link(w) \/ Unlink(w) PROVE Content(c)' = Content(c)
  <2>1. job[w].on # c /\ UNCHANGED <<tasks, iocs>>
    BY <1>2, <1>5 DEF Link, Unlink, At
  <2>2. Linked(c)' = Linked(c)
    BY <1>5, <2>1 DEF Link, Unlink, Linked
  <2> QED BY <2>1, <2>2, SameRows DEF TasksOf
<1>6. ASSUME NEW w \in Workers, AddIoc(w) \/ RemoveIoc(w) PROVE Content(c)' = Content(c)
  <2>1. job[w].on # c /\ UNCHANGED <<cases, tasks, links>>
    BY <1>2, <1>6 DEF AddIoc, RemoveIoc, At
  <2>2. \E S : iocs' = [iocs EXCEPT ![job[w].on] = S]
    BY <1>6 DEF AddIoc, RemoveIoc
  <2>3. iocs'[c] = iocs[c]
    BY <2>1, <2>2 DEF CasesInv
  <2> QED BY <2>1, <2>3, SameRows DEF Linked, TasksOf
<1>7. ASSUME NEW w \in Workers, AddTask(w) \/ SetTask(w) PROVE Content(c)' = Content(c)
  <2>1. job[w].on # c /\ UNCHANGED <<cases, links, iocs>>
    BY <1>2, <1>7 DEF AddTask, SetTask, At
  <2>2. \/ \E t \in Tasks : tasks[t].case = None /\ tasks' = [tasks EXCEPT ![t].case = job[w].on]
        \/ \E t \in Tasks : \E s : tasks[t].case = job[w].on /\ tasks' = [tasks EXCEPT ![t].status = s]
        \/ UNCHANGED tasks
    BY <1>7 DEF AddTask, SetTask, TasksOf
  <2>3. \A t \in Tasks : /\ tasks'[t].case = c <=> tasks[t].case = c
                         /\ tasks[t].case = c => tasks'[t] = tasks[t]
    BY <2>1, <2>2, CasesAssumption DEF CasesInv, CaseRows
  <2> QED BY <2>1, <2>3, SameRows DEF Linked, TasksOf
<1>8. CASE UNCHANGED caseVars
  BY <1>3, <1>8 DEF caseVars
<1> QED BY <1>3, <1>4, <1>5, <1>6, <1>7, <1>8
        DEF CasesNext, StartContent, StartUnlink, StartClose, StartReopen, StartEscalate, StartUpdate, Derive, CheckTasks

\* A closed case keeps its alerts, indicators and tasks, unless two requests were at work on it
\* (writable, cases.js 53-58).
THEOREM ClosedCasesAreFrozen == CasesSpec => ClosedIsFrozen
<1>1. CasesInv /\ [CasesNext]_caseVars =>
        [\A c \in CaseIds \ crowded' : cases[c].status = "CLOSED" => Content(c)' = Content(c)]_caseVars
  BY FrozenStep
<1> QED BY <1>1, CasesStart, CasesStep, PTL DEF CasesSpec, ClosedIsFrozen

-----------------------------------------------------------------------------
(* Channels. *)

ChannelJobOK(j) ==
  /\ {"pc", "on"} \subseteq DOMAIN j
  /\ j.on = IF j.pc = "save" THEN List ELSE None
  /\ j.pc = "save" =>
       /\ ListOK(j.list)
       /\ DOMAIN j.list \cup j.gone \subseteq drawn /\ j.gone \cap DOMAIN j.list = {}
  /\ j.pc = "record" => \A c \in DOMAIN j.results : j.results[c] \in BOOLEAN

\* The one request that is about to save the list has it as it was stored last.
OneSaves ==
  /\ removed \cap DOMAIN channels = {}
  /\ \A v, w \in Workers : At(v, "save") /\ At(w, "save") => v = w
  /\ \A w \in Workers : At(w, "save") => removed \cap DOMAIN job[w].list = {}

ChannelsInv ==
  /\ ChannelsTypeOK
  /\ DOMAIN job = Workers /\ \A w \in Workers : ChannelJobOK(job[w])
  /\ List \notin crowded => OneSaves

\* A request reads the list and goes on to save it changed.
LEMMA ReadListStep ==
  ASSUME ChannelsInv, NEW w \in Workers, NEW list, NEW gone, Continue(w, SaveList(list, gone)),
         UNCHANGED <<channels, removed>>, drawn \subseteq drawn', drawn' \subseteq ChannelIds,
         ListOK(list), DOMAIN list \cup gone \subseteq drawn', gone \cap DOMAIN list = {},
         removed \cap DOMAIN list \subseteq removed \cap DOMAIN channels
  PROVE  ChannelsInv'
<1> DEFINE j == SaveList(list, gone)
<1>1. DOMAIN job' = Workers /\ job'[w] = j /\ \A v \in Workers \ {w} : job'[v] = job[v]
  BY ContinueJob DEF ChannelsInv
<1>2. ChannelJobOK(j)' /\ j.pc = "save" /\ j.list = list /\ j.on = List
  <2>1. DOMAIN [list |-> list, gone |-> gone] = {"list", "gone"}
    OBVIOUS
  <2> QED BY <2>1, JobFields DEF SaveList, ChannelJobOK
<1> HIDE DEF j
<1>3. ASSUME NEW v \in Workers PROVE ChannelJobOK(job[v])'
  BY <1>1, <1>2 DEF ChannelsInv, ChannelJobOK
<1>4. ChannelsTypeOK'
  BY DEF ChannelsInv, ChannelsTypeOK
<1>5. ASSUME List \notin crowded' PROVE OneSaves'
  <2>1. List \notin crowded /\ \A v \in Workers \ {w} : job[v].on # List
    BY <1>2, <1>5, ContinueAlone, ChannelsAssumption DEF j
  <2>2. \A v \in Workers \ {w} : job'[v].pc # "save"
    BY <1>1, <2>1 DEF ChannelsInv, ChannelJobOK
  <2> QED BY <1>1, <1>2, <2>1, <2>2 DEF OneSaves, At, ChannelsInv
<1> QED BY <1>1, <1>3, <1>4, <1>5 DEF ChannelsInv

\* A step between two awaits of a delivery, which holds no list.
LEMMA DeliverStep ==
  ASSUME ChannelsInv, NEW w \in Workers, NEW j, Continue(w, j), ChannelJobOK(j), j.pc # "save", ~At(w, "save"),
         UNCHANGED <<channels, drawn, removed>>
  PROVE  ChannelsInv'
<1>1. DOMAIN job' = Workers /\ job'[w] = j /\ \A v \in Workers \ {w} : job'[v] = job[v]
  BY ContinueJob DEF ChannelsInv
<1>2. crowded' = crowded
  BY DEF Continue, ChannelJobOK
<1>3. ASSUME NEW v \in Workers PROVE ChannelJobOK(job[v])'
  BY <1>1 DEF ChannelsInv, ChannelJobOK, ListOK
<1>4. ChannelsTypeOK'
  BY DEF ChannelsInv, ChannelsTypeOK, ListOK
<1>5. List \notin crowded' => OneSaves'
  BY <1>1, <1>2 DEF ChannelsInv, OneSaves, At
<1> QED BY <1>1, <1>3, <1>4, <1>5 DEF ChannelsInv

LEMMA AddChannelStep == ASSUME ChannelsInv, NEW w \in Workers, StartAdd(w) PROVE ChannelsInv'
<1>1. PICK c \in ChannelIds \ drawn, evs \in (SUBSET EVENTS) \ {{}} :
        /\ drawn' = drawn \cup {c}
        /\ Continue(w, SaveList(Patched(channels, [x \in {c} |-> [enabled |-> TRUE, events |-> evs, last |-> None]]), {}))
  BY DEF StartAdd
<1> DEFINE new == [enabled |-> TRUE, events |-> evs, last |-> None]
           list == Patched(channels, [x \in {c} |-> new])
<1>2. /\ DOMAIN list = DOMAIN channels \cup {c} /\ list[c] = new
      /\ \A d \in DOMAIN channels : d # c => list[d] = channels[d]
  BY DEF Patched
<1>3. new \in Channel
  BY DEF Channel
<1>4. IsFiniteSet(DOMAIN list) /\ Cardinality(DOMAIN list) =< MAX_CHANNELS
  <2>1. IsFiniteSet(DOMAIN channels) /\ Cardinality(DOMAIN channels) < MAX_CHANNELS
    BY DEF ChannelsInv, ChannelsTypeOK, ListOK, StartAdd
  <2>2. c \notin DOMAIN channels
    BY DEF ChannelsInv, ChannelsTypeOK, ListOK
  <2>3. IsFiniteSet(DOMAIN list) /\ Cardinality(DOMAIN list) = Cardinality(DOMAIN channels) + 1
    BY <1>2, <2>1, <2>2, FS_AddElement
  <2> QED BY <2>1, <2>3, FS_CardinalityType, ChannelsAssumption
<1> HIDE DEF new, list
<1>5. ListOK(list)
  BY <1>1, <1>2, <1>3, <1>4 DEF ListOK, ChannelsInv, ChannelsTypeOK
<1>6. removed \cap DOMAIN list \subseteq removed \cap DOMAIN channels
  BY <1>1, <1>2 DEF ChannelsInv, ChannelsTypeOK
<1>7. Continue(w, SaveList(list, {}))
  BY <1>1 DEF list, new
<1>8. drawn \subseteq drawn' /\ drawn' \subseteq ChannelIds /\ DOMAIN list \cup {} \subseteq drawn'
  BY <1>1, <1>2 DEF ChannelsInv, ChannelsTypeOK
<1>9. UNCHANGED <<channels, removed>>
  BY DEF StartAdd
<1> QED BY <1>5, <1>6, <1>7, <1>8, <1>9, ReadListStep

LEMMA PatchChannelStep == ASSUME ChannelsInv, NEW w \in Workers, StartPatch(w) PROVE ChannelsInv'
<1>1. PICK c \in DOMAIN channels, row \in Channel : Continue(w, SaveList([channels EXCEPT ![c] = row], {}))
  <2>1. PICK c \in DOMAIN channels :
          \/ \E b \in BOOLEAN : Continue(w, SaveList([channels EXCEPT ![c].enabled = b], {}))
          \/ \E evs \in SUBSET EVENTS : /\ evs \cap Patchable # {}
                                        /\ Continue(w, SaveList([channels EXCEPT ![c].events = evs \cap Patchable], {}))
    BY DEF StartPatch
  <2>2. channels[c] \in Channel
    BY DEF ChannelsInv, ChannelsTypeOK, ListOK
  <2>3. \A b \in BOOLEAN : [channels[c] EXCEPT !.enabled = b] \in Channel
    BY <2>2 DEF Channel
  <2>4. ASSUME NEW evs \in SUBSET EVENTS, evs # {} PROVE [channels[c] EXCEPT !.events = evs] \in Channel
    <3>1. evs \in (SUBSET EVENTS) \ {{}}
      BY <2>4
    <3> QED BY <2>2, <3>1 DEF Channel
  <2>5. CASE \E b \in BOOLEAN : Continue(w, SaveList([channels EXCEPT ![c].enabled = b], {}))
    BY <2>3, <2>5
  <2>6. CASE \E evs \in SUBSET EVENTS : /\ evs \cap Patchable # {}
                                        /\ Continue(w, SaveList([channels EXCEPT ![c].events = evs \cap Patchable], {}))
    <3>1. PICK evs \in SUBSET EVENTS : /\ evs \cap Patchable # {}
                                       /\ Continue(w, SaveList([channels EXCEPT ![c].events = evs \cap Patchable], {}))
      BY <2>6
    <3>2. [channels[c] EXCEPT !.events = evs \cap Patchable] \in Channel
      <4>1. evs \cap Patchable \in SUBSET EVENTS
        OBVIOUS
      <4> QED BY <2>4, <3>1, <4>1
    <3> QED BY <3>1, <3>2
  <2> QED BY <2>1, <2>5, <2>6
<1> DEFINE list == [channels EXCEPT ![c] = row]
<1>2. ListOK(list)
  BY DEF StartPatch, ChannelsInv, ChannelsTypeOK, ListOK
<1> QED BY <1>1, <1>2, ReadListStep DEF StartPatch, ChannelsInv, ChannelsTypeOK

LEMMA RemoveChannelStep == ASSUME ChannelsInv, NEW w \in Workers, StartRemove(w) PROVE ChannelsInv'
<1>1. PICK c \in DOMAIN channels : Continue(w, SaveList(Restrict(channels, DOMAIN channels \ {c}), {c}))
  BY DEF StartRemove
<1> DEFINE list == Restrict(channels, DOMAIN channels \ {c})
<1>2. DOMAIN list = DOMAIN channels \ {c} /\ \A d \in DOMAIN list : list[d] = channels[d]
  BY DEF Restrict
<1> HIDE DEF list
<1>3. IsFiniteSet(DOMAIN list) /\ Cardinality(DOMAIN list) =< MAX_CHANNELS
  <2>1. IsFiniteSet(DOMAIN channels) /\ Cardinality(DOMAIN channels) =< MAX_CHANNELS
    BY DEF ChannelsInv, ChannelsTypeOK, ListOK
  <2>2. IsFiniteSet(DOMAIN list) /\ Cardinality(DOMAIN list) =< Cardinality(DOMAIN channels)
    BY <1>2, <2>1, FS_Subset
  <2> QED BY <2>1, <2>2, FS_CardinalityType, ChannelsAssumption
<1>4. ListOK(list)
  BY <1>2, <1>3 DEF StartRemove, ListOK, ChannelsInv, ChannelsTypeOK
<1>5. {c} \subseteq drawn
  BY DEF ChannelsInv, ChannelsTypeOK, ListOK
<1> QED BY <1>1, <1>2, <1>4, <1>5, ReadListStep DEF list, StartRemove, ChannelsInv, ChannelsTypeOK

LEMMA RecordStep == ASSUME ChannelsInv, NEW w \in Workers, Record(w) PROVE ChannelsInv'
<1> DEFINE r == job[w].results
           list == [c \in DOMAIN channels |->
                      IF c \in DOMAIN r THEN [channels[c] EXCEPT !.last = r[c]] ELSE channels[c]]
<1>1. \A c \in DOMAIN r : r[c] \in BOOLEAN
  BY DEF Record, At, ChannelsInv, ChannelJobOK
<1>2. \A c \in DOMAIN list : list[c] \in Channel
  <2>1. ASSUME NEW c \in DOMAIN channels, NEW b \in BOOLEAN PROVE [channels[c] EXCEPT !.last = b] \in Channel
    BY DEF ChannelsInv, ChannelsTypeOK, ListOK, Channel
  <2> QED BY <1>1, <2>1 DEF ChannelsInv, ChannelsTypeOK, ListOK
<1>3. DOMAIN list = DOMAIN channels
  OBVIOUS
<1>4. Continue(w, SaveList(list, {}))
  BY DEF Record
<1> HIDE DEF list
<1>5. ListOK(list)
  BY <1>2, <1>3 DEF Record, ChannelsInv, ChannelsTypeOK, ListOK
<1> QED BY <1>3, <1>4, <1>5, ReadListStep DEF Record, ChannelsInv, ChannelsTypeOK

LEMMA SendStep == ASSUME ChannelsInv, NEW w \in Workers, StartDeliver(w) \/ Deliver(w) PROVE ChannelsInv'
<1>1. \A to : DOMAIN [to |-> to] = {"to"} /\ \A r : DOMAIN [results |-> r] = {"results"}
  OBVIOUS
<1>2. \A to : ChannelJobOK(Job("deliver", None, [to |-> to])) /\ Job("deliver", None, [to |-> to]).pc = "deliver"
  BY <1>1, JobFields DEF ChannelJobOK
<1>3. ASSUME NEW r, \A c \in DOMAIN r : r[c] \in BOOLEAN
      PROVE  ChannelJobOK(Job("record", None, [results |-> r])) /\ Job("record", None, [results |-> r]).pc = "record"
  <2>1. Job("record", None, [results |-> r]).results = r
    BY <1>1, JobFields
  <2> QED BY <1>1, <1>3, <2>1, JobFields DEF ChannelJobOK
<1>4. CASE StartDeliver(w)
  BY <1>2, <1>4, DeliverStep DEF StartDeliver, Idle, At
<1>5. CASE Deliver(w)
  BY <1>3, <1>5, DeliverStep DEF Deliver, At
<1> QED BY <1>4, <1>5

LEMMA SaveListStep == ASSUME ChannelsInv, NEW w \in Workers, SaveChannels(w) PROVE ChannelsInv'
<1> DEFINE list == job[w].list
           gone == job[w].gone
<1>1. DOMAIN job' = Workers /\ job'[w] = NoJob /\ \A v \in Workers \ {w} : job'[v] = job[v]
  BY ContinueJob DEF SaveChannels, Done, ChannelsInv
<1>2. ChannelJobOK(NoJob) /\ NoJob.pc = "idle" /\ NoJob.on = None
  BY DEF ChannelJobOK, NoJob
<1>3. ListOK(list) /\ gone \cap DOMAIN list = {}
  BY DEF SaveChannels, At, ChannelsInv, ChannelJobOK
<1>4. channels' = list /\ removed' = removed \cup gone /\ drawn' = drawn /\ crowded' = crowded
  BY <1>2 DEF SaveChannels, Done, Continue
<1>5. ChannelsTypeOK'
  <2>1. ListOK(channels)'
    BY <1>3, <1>4 DEF ListOK
  <2>2. DOMAIN list \cup gone \subseteq drawn
    BY DEF SaveChannels, At, ChannelsInv, ChannelJobOK
  <2> QED BY <1>4, <2>1, <2>2 DEF ChannelsInv, ChannelsTypeOK
<1>6. ASSUME NEW v \in Workers PROVE ChannelJobOK(job[v])'
  BY <1>1, <1>2, <1>4 DEF ChannelsInv, ChannelJobOK, ListOK
<1>7. ASSUME List \notin crowded' PROVE OneSaves'
  <2>1. OneSaves
    BY <1>4, <1>7 DEF ChannelsInv
  <2>2. \A v \in Workers : job'[v].pc # "save"
    BY <1>1, <1>2, <2>1 DEF OneSaves, SaveChannels, At
  <2> QED BY <1>3, <1>4, <2>1, <2>2 DEF OneSaves, SaveChannels, At
<1> QED BY <1>1, <1>5, <1>6, <1>7 DEF ChannelsInv

LEMMA ChannelsStep == ASSUME ChannelsInv, [ChannelsNext]_channelVars PROVE ChannelsInv'
<1>1. CASE UNCHANGED channelVars
  BY <1>1 DEF channelVars, requestVars, ChannelsInv, ChannelsTypeOK, ListOK, ChannelJobOK, OneSaves, At
<1>2. CASE ChannelsNext
  BY <1>2, AddChannelStep, PatchChannelStep, RemoveChannelStep, RecordStep, SendStep, SaveListStep DEF ChannelsNext
<1> QED BY <1>1, <1>2

LEMMA ChannelsStart == RequestsInit /\ ChannelsInit => ChannelsInv
<1> SUFFICES ASSUME RequestsInit, ChannelsInit PROVE ChannelsInv
  OBVIOUS
<1>1. DOMAIN channels = {}
  BY DEF ChannelsInit
<1>2. ListOK(channels)
  BY <1>1, FS_EmptySet, ChannelsAssumption DEF ListOK
<1>3. \A w \in Workers : ChannelJobOK(job[w]) /\ ~At(w, "save")
  BY DEF RequestsInit, ChannelJobOK, NoJob, At
<1>4. OneSaves
  BY <1>1, <1>3 DEF OneSaves
<1> QED BY <1>2, <1>3, <1>4 DEF ChannelsInv, ChannelsTypeOK, ChannelsInit, RequestsInit

\* Whatever is delivered, recorded, added, changed and removed meanwhile: a channel that was removed stays
\* removed (record and saveChannels, notify.js 201-210), unless two requests read the list before either
\* saved it.
THEOREM RemovedChannelsStayRemoved == ChannelsSpec => []RemovedStaysRemoved
<1>1. ChannelsInv => RemovedStaysRemoved
  BY DEF ChannelsInv, OneSaves, RemovedStaysRemoved
<1> QED BY <1>1, ChannelsStart, ChannelsStep, PTL DEF ChannelsSpec

\* The list of channels never grows past MAX_CHANNELS and every row stays what a delivery can read
\* (casework.js, the checks of POST and PATCH), also when requests overwrite each other's list.
THEOREM ChannelsStayTyped == ChannelsSpec => []ChannelsTypeOK
<1>1. ChannelsInv => ChannelsTypeOK
  BY DEF ChannelsInv
<1> QED BY <1>1, ChannelsStart, ChannelsStep, PTL DEF ChannelsSpec

-----------------------------------------------------------------------------
(* Hunts. *)

HuntJobOK(j) ==
  /\ {"pc", "on"} \subseteq DOMAIN j
  /\ j.pc \in {"idle", "delete", "search", "compare", "store_run", "count_run"}
  /\ j.on \in HuntIds \cup {None}
  /\ j.pc = "idle" => j.on = None
  /\ j.pc \in {"delete", "compare", "count_run"} => j.on # None
  /\ j.pc \in {"search", "compare", "store_run", "count_run"} => "count" \in DOMAIN j /\ j.count \in Nat
  /\ j.pc \in {"compare", "store_run"} =>
       {"found", "new"} \subseteq DOMAIN j /\ j.found \subseteq Findings /\ j.new \in {None} \cup SUBSET Findings

\* A run that was compared leaves unmarked only what runs of its hunt have found.
Compared(w) ==
  LET j == job[w] IN
  j.pc = "store_run" /\ j.on # None /\ j.new # None /\ hunts[j.on].state = "saved" =>
    j.found \ j.new \subseteq FoundBy(RunsOf(j.on))

\* The one request at work on a hunt knows its counter, which is behind by the run it has stored.
Counted(h) ==
  /\ \A v, w \in Workers : job[v].on = h /\ job[w].on = h => v = w
  /\ \A w \in Workers : job[w].on = h =>
       /\ job[w].pc \in {"search", "compare", "store_run", "count_run"} => job[w].count = hunts[h].runs
       /\ Cardinality(RunsOf(h)) = hunts[h].runs + (IF job[w].pc = "count_run" THEN 1 ELSE 0)

HuntsInv ==
  /\ HuntsTypeOK
  /\ DOMAIN job = Workers /\ \A w \in Workers : HuntJobOK(job[w]) /\ Compared(w)
  /\ RunsAreKept
  /\ \A h \in HuntIds : hunts[h].state = "absent" => RunsOf(h) = {} /\ ~Served(h) /\ hunts[h].runs = 0
  /\ \A h \in HuntIds \ crowded : hunts[h].state = "saved" => Counted(h)

\* The runs of a hunt are finitely many.
LEMMA RunsAreFinite == ASSUME HuntsTypeOK, NEW h PROVE IsFiniteSet(RunsOf(h)) /\ Cardinality(RunsOf(h)) \in Nat
<1>1. IsFiniteSet(1 .. lastRun)
  BY FS_Interval DEF HuntsTypeOK
<1>2. RunsOf(h) \subseteq 1 .. lastRun
  BY DEF HuntsTypeOK, RunsOf
<1> QED BY <1>1, <1>2, FS_Subset, FS_CardinalityType

LEMMA IdleHuntJob == HuntJobOK(NoJob) /\ NoJob.pc = "idle" /\ NoJob.on = None
  BY DEF HuntJobOK, NoJob

\* What a request that works on its hunt has to know of it.
HuntJobKnows(j, h) ==
  /\ j.pc \in {"search", "compare", "store_run", "count_run"} => j.count = hunts[h].runs
  /\ Cardinality(RunsOf(h)) = hunts[h].runs + (IF j.pc = "count_run" THEN 1 ELSE 0)

\* A request that reads, and goes on working on the same hunt if on any.
LEMMA QuietHuntStep ==
  ASSUME HuntsInv, NEW w \in Workers, NEW j, Continue(w, j), UNCHANGED <<hunts, runs, lastRun>>,
         HuntJobOK(j), job[w].on \in {None, j.on},
         j.on # None => hunts[j.on].state # "absent",
         j.pc = "store_run" /\ j.on # None /\ j.new # None /\ hunts[j.on].state = "saved" =>
           j.found \ j.new \subseteq FoundBy(RunsOf(j.on)),
         j.on \in HuntIds \ crowded' /\ hunts[j.on].state = "saved" => HuntJobKnows(j, j.on)
  PROVE  HuntsInv'
<1>1. DOMAIN job' = Workers /\ job'[w] = j /\ \A v \in Workers \ {w} : job'[v] = job[v]
  BY ContinueJob DEF HuntsInv
<1>2. \A h : RunsOf(h)' = RunsOf(h)
  BY DEF RunsOf
<1>3. \A own : FoundBy(own)' = FoundBy(own)
  BY DEF FoundBy
<1>4. HuntsTypeOK'
  BY DEF HuntsInv, HuntsTypeOK
<1>5. ASSUME NEW v \in Workers PROVE HuntJobOK(job[v])' /\ Compared(v)'
  BY <1>1, <1>2, <1>3 DEF HuntsInv, HuntJobOK, Compared
<1>6. ASSUME NEW h \in HuntIds, ~Served(h)' PROVE ~Served(h)
  BY <1>1, <1>6, HuntsAssumption DEF Served
<1>7. ASSUME NEW h \in HuntIds, Served(h)', ~Served(h) PROVE j.on = h
  BY <1>1, <1>7 DEF Served
<1>8. crowded \subseteq crowded'
  BY DEF Continue
<1>9. RunsAreKept'
  <2>1. ASSUME NEW i \in DOMAIN runs
        PROVE  LET r == runs[i] IN
               r.hunt # None /\ r.new # None /\ hunts[r.hunt].state = "saved" =>
                 r.found \ r.new \subseteq FoundBy({k \in RunsOf(r.hunt) : k < i})'
    BY <1>2, <1>3 DEF HuntsInv, RunsAreKept
  <2>2. ASSUME NEW h \in HuntIds, hunts[h].state = "saved", h \notin crowded', ~Served(h)'
        PROVE  hunts[h].runs = Cardinality(RunsOf(h))
    BY <1>6, <1>8, <2>2 DEF HuntsInv, RunsAreKept
  <2> QED BY <1>2, <1>3, <2>1, <2>2 DEF RunsAreKept
<1>10. ASSUME NEW h \in HuntIds, hunts[h].state = "absent" PROVE RunsOf(h) = {} /\ ~Served(h)' /\ hunts[h].runs = 0
  BY <1>7, <1>10, HuntsAssumption DEF HuntsInv
<1>11. ASSUME NEW h \in HuntIds \ crowded', hunts[h].state = "saved" PROVE Counted(h)'
  <2>1. Counted(h) /\ h \notin crowded
    BY <1>8, <1>11 DEF HuntsInv
  <2>2. j.on = h => \A v \in Workers \ {w} : job[v].on # h
    BY <1>11, ContinueAlone, HuntsAssumption
  <2>3. \A u, v \in Workers : job'[u].on = h /\ job'[v].on = h => u = v
    BY <1>1, <2>1, <2>2 DEF Counted
  <2>4. j.on = h => HuntJobKnows(j, h)
    BY <1>11
  <2> QED BY <1>1, <1>2, <2>1, <2>3, <2>4 DEF Counted, HuntJobKnows
<1> QED BY <1>1, <1>2, <1>4, <1>5, <1>9, <1>10, <1>11 DEF HuntsInv

\* What a request knows of a hunt nobody else works on.
LEMMA KnownHunt ==
  ASSUME HuntsInv, NEW w \in Workers, NEW j, Continue(w, j), NEW h \in HuntIds \ crowded',
         j.on = h, hunts[h].state = "saved"
  PROVE  /\ job[w].on = h => HuntJobKnows(job[w], h)
         /\ job[w].on = None => hunts[h].runs = Cardinality(RunsOf(h))
<1>1. h \notin crowded /\ \A v \in Workers \ {w} : job[v].on # h
  BY ContinueAlone, HuntsAssumption
<1>2. Counted(h)
  BY <1>1 DEF HuntsInv
<1>3. job[w].on = None => ~Served(h)
  BY <1>1, HuntsAssumption DEF Served
<1> QED BY <1>1, <1>2, <1>3 DEF Counted, HuntJobKnows, HuntsInv, RunsAreKept

LEMMA CountIsNat == ASSUME HuntsInv, NEW h \in HuntIds PROVE hunts[h].runs \in Nat /\ Cardinality(RunsOf(h)) \in Nat
  BY RunsAreFinite DEF HuntsInv, HuntsTypeOK

LEMMA StartHuntStep == ASSUME HuntsInv, NEW w \in Workers, StartDelete(w) \/ StartRun(w) PROVE HuntsInv'
<1>0. DOMAIN <<>> = {} /\ \A n : DOMAIN [count |-> n] = {"count"}
  OBVIOUS
<1>1. UNCHANGED <<hunts, runs, lastRun>> /\ job[w].on = None
  BY DEF StartDelete, StartRun, Idle, At, HuntsInv, HuntJobOK
<1>2. CASE StartDelete(w)
  <2>1. PICK h \in HuntIds : hunts[h].state = "saved" /\ Continue(w, Job("delete", h, <<>>))
    BY <1>2 DEF StartDelete
  <2>2. PICK j : j = Job("delete", h, <<>>)
    OBVIOUS
  <2>3. HuntJobOK(j) /\ j.pc = "delete" /\ j.on = h
    BY <1>0, <2>2, JobFields, HuntsAssumption DEF HuntJobOK
  <2>4. h \notin crowded' => HuntJobKnows(j, h)
    BY <1>1, <2>1, <2>2, <2>3, KnownHunt, CountIsNat DEF HuntJobKnows
  <2> QED BY <1>1, <2>1, <2>2, <2>3, <2>4, QuietHuntStep
<1>3. CASE StartRun(w)
  <2>1. PICK h \in HuntIds \cup {None}, n \in Nat : /\ h # None => hunts[h].state = "saved" /\ n = hunts[h].runs
                                                   /\ Continue(w, Job("search", h, [count |-> n]))
    BY <1>3, HuntsAssumption, CountIsNat DEF StartRun
  <2>2. PICK j : j = Job("search", h, [count |-> n])
    OBVIOUS
  <2>3. HuntJobOK(j) /\ j.pc = "search" /\ j.on = h /\ j.count = n
    BY <1>0, <2>2, JobFields DEF HuntJobOK
  <2>4. h \in HuntIds \ crowded' => HuntJobKnows(j, h)
    BY <1>1, <2>1, <2>2, <2>3, KnownHunt, CountIsNat, HuntsAssumption DEF HuntJobKnows
  <2> QED BY <1>1, <2>1, <2>2, <2>3, <2>4, QuietHuntStep
<1> QED BY <1>2, <1>3

LEMMA SearchStep == ASSUME HuntsInv, NEW w \in Workers, Search(w) PROVE HuntsInv'
<1> DEFINE next == IF job[w].on = None THEN "store_run" ELSE "compare"
<1>1. PICK found \in SUBSET Findings : Continue(w, Patched(job[w], [pc |-> next, found |-> found, new |-> None]))
  BY DEF Search
<1> DEFINE patch == [pc |-> next, found |-> found, new |-> None]
<1>2. DOMAIN patch = {"pc", "found", "new"}
  OBVIOUS
<1>3. PICK j : j = Patched(job[w], patch)
  OBVIOUS
<1>4. /\ DOMAIN j = DOMAIN job[w] \cup {"pc", "found", "new"}
      /\ j.pc = next /\ j.found = found /\ j.new = None
      /\ \A x \in DOMAIN job[w] : x \notin {"pc", "found", "new"} => j[x] = job[w][x]
  BY <1>2, <1>3 DEF Patched
<1>5. HuntJobOK(job[w]) /\ job[w].pc = "search"
  BY DEF Search, At, HuntsInv
<1>6. HuntJobOK(j) /\ j.on = job[w].on /\ j.count = job[w].count
  BY <1>4, <1>5 DEF HuntJobOK
<1>7. job[w].on # None => hunts[job[w].on].state # "absent"
  BY <1>5 DEF HuntsInv, HuntJobOK, Served
<1>8. j.on \in HuntIds \ crowded' /\ hunts[j.on].state = "saved" => HuntJobKnows(j, j.on)
  BY <1>1, <1>3, <1>4, <1>5, <1>6, KnownHunt, HuntsAssumption DEF HuntJobKnows
<1> QED BY <1>1, <1>3, <1>4, <1>6, <1>7, <1>8, QuietHuntStep DEF Search

LEMMA CompareStep == ASSUME HuntsInv, NEW w \in Workers, Compare(w) PROVE HuntsInv'
<1> DEFINE h == job[w].on
           own == RunsOf(h)
           new == IF own = {} THEN None ELSE job[w].found \ runs[Max(own)].found
<1>1. HuntJobOK(job[w]) /\ job[w].pc = "compare" /\ h \in HuntIds
  BY DEF Compare, At, HuntsInv, HuntJobOK
<1>2. PICK j : j = [job[w] EXCEPT !.pc = "store_run", !.new = new]
  OBVIOUS
<1>3. Continue(w, j)
  BY <1>2 DEF Compare
<1>4. own # {} => Max(own) \in own
  <2>1. own \in SUBSET (0 .. lastRun)
    BY DEF HuntsInv, HuntsTypeOK, RunsOf
  <2> QED BY <2>1, GreatestNatural DEF HuntsInv, HuntsTypeOK
<1>5. new # None => job[w].found \ new \subseteq FoundBy(own)
  BY <1>4 DEF FoundBy
<1>6. new \in {None} \cup SUBSET Findings
  BY <1>1 DEF HuntJobOK
<1> HIDE DEF new
<1>7. HuntJobOK(j) /\ j.on = h /\ j.pc = "store_run" /\ j.found = job[w].found /\ j.new = new /\ j.count = job[w].count
  BY <1>1, <1>2, <1>6 DEF HuntJobOK
<1>8. hunts[h].state # "absent"
  BY <1>1 DEF HuntsInv, Served
<1>9. h \notin crowded' /\ hunts[h].state = "saved" => HuntJobKnows(j, h)
  BY <1>1, <1>3, <1>7, KnownHunt DEF HuntJobKnows
<1>10. UNCHANGED <<hunts, runs, lastRun>>
  BY DEF Compare
<1> HIDE DEF h, own
<1> QED BY <1>3, <1>5, <1>7, <1>8, <1>9, <1>10, QuietHuntStep DEF h, own

LEMMA SaveHuntStep == ASSUME HuntsInv, NEW w \in Workers, SaveHunt(w) PROVE HuntsInv'
<1>1. PICK h0 \in HuntIds : hunts[h0].state = "absent" /\ hunts' = [hunts EXCEPT ![h0].state = "saved"]
  BY DEF SaveHunt
<1>2. UNCHANGED <<runs, lastRun, job, crowded>>
  BY DEF SaveHunt, requestVars
<1>3. RunsOf(h0) = {} /\ ~Served(h0) /\ hunts[h0].runs = 0
  BY <1>1 DEF HuntsInv
<1>4. /\ DOMAIN hunts' = HuntIds /\ hunts'[h0].state = "saved" /\ hunts'[h0].runs = 0
      /\ \A h \in HuntIds : h # h0 => hunts'[h] = hunts[h]
  BY <1>1, <1>3 DEF HuntsInv, HuntsTypeOK
<1>5. \A h : RunsOf(h)' = RunsOf(h) /\ Served(h)' = Served(h)
  BY <1>2 DEF RunsOf, Served
<1>6. \A own : FoundBy(own)' = FoundBy(own)
  BY <1>2 DEF FoundBy
<1>7. HuntsTypeOK'
  BY <1>1, <1>2 DEF HuntsInv, HuntsTypeOK
<1>8. \A i \in DOMAIN runs : runs[i].hunt # h0
  BY <1>3 DEF RunsOf
<1>9. RunsAreKept'
  <2>1. ASSUME NEW i \in DOMAIN runs
        PROVE  LET r == runs[i] IN
               r.hunt # None /\ r.new # None /\ hunts'[r.hunt].state = "saved" =>
                 r.found \ r.new \subseteq FoundBy({k \in RunsOf(r.hunt) : k < i})
    BY <1>4, <1>8 DEF HuntsInv, RunsAreKept, HuntsTypeOK, Run
  <2>2. ASSUME NEW h \in HuntIds, hunts'[h].state = "saved", h \notin crowded, ~Served(h)
        PROVE  hunts'[h].runs = Cardinality(RunsOf(h))
    BY <1>3, <1>4, <2>2, FS_EmptySet DEF HuntsInv, RunsAreKept
  <2> QED BY <1>2, <1>5, <1>6, <2>1, <2>2 DEF RunsAreKept
<1>10. ASSUME NEW v \in Workers PROVE HuntJobOK(job[v])' /\ Compared(v)'
  <2>1. job[v].on # h0
    BY <1>3 DEF Served
  <2> QED BY <1>2, <1>4, <1>5, <1>6, <2>1 DEF HuntsInv, HuntJobOK, Compared
<1>11. ASSUME NEW h \in HuntIds, hunts'[h].state = "absent" PROVE RunsOf(h)' = {} /\ ~Served(h)' /\ hunts'[h].runs = 0
  BY <1>4, <1>5, <1>11 DEF HuntsInv
<1>12. ASSUME NEW h \in HuntIds \ crowded, hunts'[h].state = "saved" PROVE Counted(h)'
  <2>1. CASE h = h0
    BY <1>2, <1>3, <2>1 DEF Counted, Served
  <2>2. CASE h # h0
    BY <1>2, <1>4, <1>5, <1>12, <2>2 DEF HuntsInv, Counted
  <2> QED BY <2>1, <2>2
<1> QED BY <1>2, <1>7, <1>9, <1>10, <1>11, <1>12 DEF HuntsInv

LEMMA DeleteHuntStep == ASSUME HuntsInv, NEW w \in Workers, DeleteHunt(w) PROVE HuntsInv'
<1> DEFINE h0 == job[w].on
<1>1. DOMAIN job' = Workers /\ job'[w] = NoJob /\ \A v \in Workers \ {w} : job'[v] = job[v]
  BY ContinueJob DEF DeleteHunt, Done, HuntsInv
<1>2. crowded' = crowded /\ lastRun' = lastRun
  BY IdleHuntJob DEF DeleteHunt, Done, Continue
<1>3. h0 \in HuntIds
  BY DEF DeleteHunt, At, HuntsInv, HuntJobOK
<1>4. /\ DOMAIN hunts' = HuntIds /\ hunts'[h0].state = "deleted"
      /\ \A h \in HuntIds : h # h0 => hunts'[h] = hunts[h]
  BY <1>3 DEF DeleteHunt, HuntsInv, HuntsTypeOK
<1>5. /\ DOMAIN runs' = DOMAIN runs \ RunsOf(h0)
      /\ \A i \in DOMAIN runs' : runs'[i] = runs[i] /\ runs[i].hunt # h0
  BY DEF DeleteHunt, Restrict, RunsOf
<1>6. \A h : h # h0 => RunsOf(h)' = RunsOf(h)
  BY <1>5 DEF RunsOf
<1>7. \A h : h # h0 => \A own \in SUBSET RunsOf(h) : FoundBy(own)' = FoundBy(own)
  <2>1. \A h : h # h0 => \A i \in RunsOf(h) : runs'[i] = runs[i]
    BY <1>5 DEF RunsOf
  <2> QED BY <2>1 DEF FoundBy
<1>8. HuntsTypeOK'
  <2>1. hunts' \in [HuntIds -> [state : {"absent", "saved", "deleted"}, runs : Nat]]
    BY <1>3 DEF DeleteHunt, HuntsInv, HuntsTypeOK
  <2> QED BY <1>2, <1>5, <2>1 DEF HuntsInv, HuntsTypeOK
<1>9. ASSUME NEW h \in HuntIds, h # h0 PROVE Served(h)' = Served(h)
  BY <1>1, <1>9, IdleHuntJob, HuntsAssumption DEF Served
<1> HIDE DEF h0
<1>10. RunsAreKept'
  <2>1. ASSUME NEW i \in DOMAIN runs', runs'[i].hunt # None, runs'[i].new # None, hunts'[runs'[i].hunt].state = "saved"
        PROVE  (runs[i].found \ runs[i].new \subseteq FoundBy({k \in RunsOf(runs[i].hunt) : k < i}))'
    <3>1. PICK h \in HuntIds : h = runs[i].hunt /\ h # h0 /\ runs'[i] = runs[i] /\ i \in DOMAIN runs
      BY <1>5, <2>1 DEF HuntsInv, HuntsTypeOK, Run
    <3>2. runs[i].found \ runs[i].new \subseteq FoundBy({k \in RunsOf(h) : k < i})
      BY <1>4, <2>1, <3>1 DEF HuntsInv, RunsAreKept
    <3>3. {k \in RunsOf(h) : k < i} \in SUBSET RunsOf(h)
      OBVIOUS
    <3> QED BY <1>6, <1>7, <3>1, <3>2, <3>3
  <2>2. ASSUME NEW h \in HuntIds, hunts'[h].state = "saved", h \notin crowded, ~Served(h)'
        PROVE  hunts'[h].runs = Cardinality(RunsOf(h)')
    BY <1>4, <1>6, <1>9, <2>2 DEF HuntsInv, RunsAreKept
  <2> QED BY <1>2, <2>1, <2>2 DEF RunsAreKept
<1>11. ASSUME NEW v \in Workers PROVE HuntJobOK(job[v])' /\ Compared(v)'
  <2>1. CASE v = w
    BY <1>1, <2>1, IdleHuntJob DEF HuntJobOK, Compared
  <2>2. CASE v # w /\ job[v].on # h0
    <3>1. job'[v] = job[v] /\ RunsOf(job[v].on)' = RunsOf(job[v].on) /\ RunsOf(job[v].on) \in SUBSET RunsOf(job[v].on)
      BY <1>1, <1>6, <2>2
    <3>2. FoundBy(RunsOf(job[v].on))' = FoundBy(RunsOf(job[v].on))
      BY <1>7, <2>2, <3>1
    <3>3. HuntJobOK(job[v]) /\ Compared(v)
      BY DEF HuntsInv
    <3> QED BY <1>4, <2>2, <3>1, <3>2, <3>3 DEF HuntJobOK, Compared
  <2>3. CASE v # w /\ job[v].on = h0
    BY <1>1, <1>4, <2>3 DEF HuntsInv, HuntJobOK, Compared
  <2> QED BY <2>1, <2>2, <2>3
<1>12. ASSUME NEW h \in HuntIds, hunts'[h].state = "absent" PROVE RunsOf(h)' = {} /\ ~Served(h)' /\ hunts'[h].runs = 0
  BY <1>4, <1>6, <1>9, <1>12 DEF HuntsInv
<1>13. ASSUME NEW h \in HuntIds \ crowded, hunts'[h].state = "saved" PROVE Counted(h)'
  <2>1. h # h0 /\ Counted(h) /\ hunts'[h] = hunts[h] /\ RunsOf(h)' = RunsOf(h)
    BY <1>4, <1>6, <1>13 DEF HuntsInv
  <2>2. \A v \in Workers : job'[v].on = h => job'[v] = job[v]
    BY <1>1, <2>1, IdleHuntJob, HuntsAssumption
  <2> QED BY <2>1, <2>2 DEF Counted
<1> QED BY <1>1, <1>2, <1>8, <1>10, <1>11, <1>12, <1>13 DEF HuntsInv

LEMMA StoreRunStep == ASSUME HuntsInv, NEW w \in Workers, StoreRun(w) PROVE HuntsInv'
<1>0. PICK h0, i0, run : /\ h0 = job[w].on /\ i0 = lastRun + 1
                          /\ run = [hunt |-> h0, found |-> job[w].found, new |-> job[w].new]
  OBVIOUS
<1>1. PICK j : /\ j = IF h0 = None THEN NoJob ELSE [job[w] EXCEPT !.pc = "count_run"]
               /\ Continue(w, j)
  BY <1>0 DEF StoreRun
<1>2. DOMAIN job' = Workers /\ job'[w] = j /\ \A v \in Workers \ {w} : job'[v] = job[v]
  BY <1>1, ContinueJob DEF HuntsInv
<1>3. HuntJobOK(job[w]) /\ Compared(w) /\ job[w].pc = "store_run"
  BY DEF StoreRun, At, HuntsInv
<1>4. HuntJobOK(j) /\ j.pc # "store_run" /\ j.on = h0 /\ (h0 # None => j.pc = "count_run" /\ j.count = job[w].count)
  BY <1>0, <1>1, <1>3, IdleHuntJob DEF HuntJobOK
<1>5. hunts' = hunts /\ lastRun' = i0 /\ lastRun \in Nat /\ i0 \notin DOMAIN runs
  BY <1>0 DEF StoreRun, HuntsInv, HuntsTypeOK
<1>6. run \in Run /\ run.hunt = h0 /\ run.found = job[w].found /\ run.new = job[w].new
  BY <1>0, <1>3 DEF HuntJobOK, Run
<1>7. /\ DOMAIN runs' = DOMAIN runs \cup {i0} /\ runs'[i0] = run
      /\ \A i \in DOMAIN runs : runs'[i] = runs[i]
  BY <1>0, <1>5 DEF StoreRun, Patched
<1>8. RunsOf(h0)' = RunsOf(h0) \cup {i0} /\ \A h : h # h0 => RunsOf(h)' = RunsOf(h)
  BY <1>5, <1>6, <1>7 DEF RunsOf
<1>9. \A own \in SUBSET DOMAIN runs : FoundBy(own)' = FoundBy(own)
  BY <1>7 DEF FoundBy
<1>10. \A h : RunsOf(h) \in SUBSET DOMAIN runs
  BY DEF RunsOf
<1>11. ASSUME NEW h, NEW i \in DOMAIN runs PROVE {k \in RunsOf(h)' : k < i} = {k \in RunsOf(h) : k < i}
  <2>1. i \in Nat /\ ~(i0 < i)
    BY <1>0, <1>5 DEF HuntsInv, HuntsTypeOK
  <2>2. \A k : k \in RunsOf(h)' => k \in RunsOf(h) \/ k = i0
    BY <1>8
  <2>3. RunsOf(h) \subseteq RunsOf(h)'
    BY <1>8
  <2> QED BY <2>1, <2>2, <2>3
<1>12. {k \in RunsOf(h0)' : k < i0} = RunsOf(h0)
  BY <1>0, <1>5, <1>8, <1>10 DEF HuntsInv, HuntsTypeOK
<1>13. HuntsTypeOK'
  <2>1. DOMAIN runs' \subseteq 1 .. lastRun'
    BY <1>0, <1>5, <1>7 DEF HuntsInv, HuntsTypeOK
  <2>2. \A i \in DOMAIN runs' : runs'[i] \in Run
    BY <1>6, <1>7 DEF HuntsInv, HuntsTypeOK
  <2>3. hunts' \in [HuntIds -> [state : {"absent", "saved", "deleted"}, runs : Nat]] /\ lastRun' \in Nat
    BY <1>0, <1>5 DEF HuntsInv, HuntsTypeOK
  <2> QED BY <2>1, <2>2, <2>3 DEF HuntsTypeOK
<1>14. \A h : h # None => Served(h)' = Served(h)
  BY <1>0, <1>2, <1>4 DEF Served
<1>15. crowded \subseteq crowded'
  BY <1>1 DEF Continue
<1> DEFINE Marked(r, own) ==
             r.hunt # None /\ r.new # None /\ hunts[r.hunt].state = "saved" => r.found \ r.new \subseteq FoundBy(own)
<1>16. ASSUME NEW i \in DOMAIN runs PROVE Marked(runs[i], {k \in RunsOf(runs[i].hunt) : k < i})
  BY DEF HuntsInv, RunsAreKept
<1>17. Marked(run, RunsOf(h0))
  BY <1>0, <1>3, <1>6 DEF Compared
<1>18. ASSUME NEW i \in DOMAIN runs' PROVE Marked(runs[i], {k \in RunsOf(runs[i].hunt) : k < i})'
  <2>1. CASE i \in DOMAIN runs
    <3>0. PICK h : h = runs[i].hunt
      OBVIOUS
    <3>1. PICK own \in SUBSET DOMAIN runs : /\ own = {k \in RunsOf(h) : k < i}
                                            /\ own = {k \in RunsOf(h)' : k < i}
      <4>1. {k \in RunsOf(h) : k < i} \in SUBSET DOMAIN runs
        BY <1>10
      <4>2. {k \in RunsOf(h)' : k < i} = {k \in RunsOf(h) : k < i}
        BY <1>11, <2>1
      <4> QED BY <4>1, <4>2
    <3>2. FoundBy(own)' = FoundBy(own) /\ runs'[i] = runs[i]
      BY <1>7, <1>9, <2>1
    <3>3. Marked(runs[i], own)
      BY <1>16, <2>1, <3>0, <3>1
    <3>4. (own = {k \in RunsOf(runs[i].hunt) : k < i})'
      <4>1. (runs[i].hunt = h)'
        BY <3>0, <3>2
      <4> QED BY <3>1, <4>1
    <3> QED BY <1>5, <3>2, <3>3, <3>4
  <2>2. CASE i = i0
    <3>1. PICK own \in SUBSET DOMAIN runs : own = RunsOf(h0)
      BY <1>10
    <3>2. FoundBy(own)' = FoundBy(own) /\ runs'[i] = run
      BY <1>7, <1>9, <2>2
    <3>3. (own = {k \in RunsOf(runs[i].hunt) : k < i})'
      <4>1. runs'[i].hunt = h0
        BY <1>6, <3>2
      <4>2. RunsOf(runs[i].hunt)' = RunsOf(h0)'
        <5>1. PICK h : h = h0
          OBVIOUS
        <5>2. (runs[i].hunt = h)'
          BY <4>1, <5>1
        <5>3. (RunsOf(runs[i].hunt) = RunsOf(h))'
          BY <5>2
        <5> QED BY <1>8, <5>1, <5>3
      <4> QED BY <1>12, <2>2, <3>1, <4>2
    <3> QED BY <1>5, <1>17, <3>1, <3>2, <3>3
  <2> QED BY <1>7, <2>1, <2>2
<1>19. ASSUME NEW h \in HuntIds \ crowded', hunts[h].state = "saved"
       PROVE  /\ h # h0 => RunsOf(h)' = RunsOf(h)
              /\ h = h0 => Cardinality(RunsOf(h)') = Cardinality(RunsOf(h)) + 1 /\ HuntJobKnows(job[w], h)
  <2>1. i0 \notin RunsOf(h)
    BY <1>5, <1>10
  <2>2. h = h0 => Cardinality(RunsOf(h)') = Cardinality(RunsOf(h)) + 1
    BY <1>8, <2>1, RunsAreFinite, FS_AddElement DEF HuntsInv
  <2> QED BY <1>0, <1>1, <1>4, <1>8, <1>19, <2>2, KnownHunt
<1>20. RunsAreKept'
  <2>1. ASSUME NEW h \in HuntIds, hunts[h].state = "saved", h \notin crowded', ~Served(h)'
        PROVE  hunts[h].runs = Cardinality(RunsOf(h)')
    <3>1. h # h0 /\ ~Served(h)
      BY <1>2, <1>4, <1>14, <2>1, HuntsAssumption DEF Served
    <3> QED BY <1>8, <1>15, <2>1, <3>1 DEF HuntsInv, RunsAreKept
  <2> QED BY <1>5, <1>18, <2>1 DEF RunsAreKept
<1>21. ASSUME NEW v \in Workers PROVE HuntJobOK(job[v])' /\ Compared(v)'
  <2>1. CASE v = w
    BY <1>2, <1>4, <2>1 DEF HuntJobOK, Compared
  <2>2. CASE v # w
    <3>1. FoundBy(RunsOf(job[v].on)) \subseteq FoundBy(RunsOf(job[v].on))'
      <4>1. PICK h : h = job[v].on /\ h = job'[v].on
        BY <1>2, <2>2
      <4>2. RunsOf(h) \subseteq RunsOf(h)' /\ \A i \in RunsOf(h) : runs'[i] = runs[i]
        BY <1>7, <1>8, <1>10
      <4>3. FoundBy(RunsOf(h)) \subseteq FoundBy(RunsOf(h))'
        BY <4>2 DEF FoundBy
      <4> QED BY <4>1, <4>3
    <3> QED BY <1>2, <1>5, <2>2, <3>1 DEF HuntsInv, HuntJobOK, Compared
  <2> QED BY <2>1, <2>2
<1>22. ASSUME NEW h \in HuntIds, hunts'[h].state = "absent" PROVE RunsOf(h)' = {} /\ ~Served(h)' /\ hunts'[h].runs = 0
  <2>1. h # h0
    BY <1>0, <1>5, <1>22 DEF HuntsInv, Served
  <2> QED BY <1>5, <1>8, <1>14, <1>22, <2>1, HuntsAssumption DEF HuntsInv
<1>23. ASSUME NEW h \in HuntIds \ crowded', hunts[h].state = "saved" PROVE Counted(h)'
  <2>1. Counted(h) /\ h \notin crowded
    BY <1>15, <1>23 DEF HuntsInv
  <2>2. \A u, v \in Workers : job'[u].on = h /\ job'[v].on = h => u = v
    BY <1>1, <1>2, <1>23, <2>1, ContinueAlone, HuntsAssumption DEF Counted
  <2>3. CASE h # h0
    <3>1. \A v \in Workers : job'[v].on = h => job'[v] = job[v]
      BY <1>0, <1>2, <1>4, <2>3
    <3> QED BY <1>5, <1>19, <1>23, <2>1, <2>2, <2>3, <3>1 DEF Counted
  <2>4. CASE h = h0
    <3>1. \A v \in Workers : job'[v].on = h => v = w
      BY <1>2, <1>4, <2>2, <2>4
    <3>2. j.count = hunts[h].runs /\ Cardinality(RunsOf(h)') = hunts[h].runs + 1 /\ j.pc = "count_run"
      BY <1>0, <1>3, <1>4, <1>19, <1>23, <2>4, CountIsNat, HuntsAssumption DEF HuntJobKnows
    <3> QED BY <1>2, <1>5, <2>2, <3>1, <3>2 DEF Counted
  <2> QED BY <2>3, <2>4
<1> QED BY <1>2, <1>5, <1>13, <1>20, <1>21, <1>22, <1>23 DEF HuntsInv

LEMMA CountRunStep == ASSUME HuntsInv, NEW w \in Workers, CountRun(w) PROVE HuntsInv'
<1> DEFINE h0 == job[w].on
<1>1. DOMAIN job' = Workers /\ job'[w] = NoJob /\ \A v \in Workers \ {w} : job'[v] = job[v]
  BY ContinueJob DEF CountRun, Done, HuntsInv
<1>2. crowded' = crowded /\ UNCHANGED <<runs, lastRun>>
  BY IdleHuntJob DEF CountRun, Done, Continue
<1>3. h0 \in HuntIds /\ job[w].pc = "count_run" /\ job[w].count \in Nat /\ hunts[h0].state # "absent"
  BY HuntsAssumption DEF CountRun, At, HuntsInv, HuntJobOK, Served
<1>4. /\ DOMAIN hunts' = HuntIds /\ \A h \in HuntIds : hunts'[h].state = hunts[h].state
      /\ \A h \in HuntIds : h # h0 => hunts'[h] = hunts[h]
      /\ hunts[h0].state = "saved" => hunts'[h0].runs = job[w].count + 1
  BY <1>3 DEF CountRun, HuntsInv, HuntsTypeOK
<1>5. HuntsTypeOK'
  <2>1. hunts' \in [HuntIds -> [state : {"absent", "saved", "deleted"}, runs : Nat]]
    BY <1>3 DEF CountRun, HuntsInv, HuntsTypeOK
  <2> QED BY <1>2, <2>1 DEF HuntsInv, HuntsTypeOK
<1>6. \A h : RunsOf(h)' = RunsOf(h)
  BY <1>2 DEF RunsOf
<1>7. \A own : FoundBy(own)' = FoundBy(own)
  BY <1>2 DEF FoundBy
<1>8. \A h : h # h0 /\ h # None => Served(h)' = Served(h)
  BY <1>1, IdleHuntJob DEF Served
<1>9. ASSUME NEW h \in HuntIds \ crowded, hunts[h].state = "saved", h = h0
      PROVE  hunts'[h].runs = Cardinality(RunsOf(h)) /\ ~Served(h)'
  <2>1. Counted(h)
    BY <1>9 DEF HuntsInv
  <2>2. hunts'[h].runs = Cardinality(RunsOf(h))
    BY <1>3, <1>4, <1>9, <2>1 DEF Counted
  <2>3. ~Served(h)'
    BY <1>1, <1>9, <2>1, IdleHuntJob, HuntsAssumption DEF Counted, Served
  <2> QED BY <2>2, <2>3
<1> HIDE DEF h0
<1>10. RunsAreKept'
  <2>1. ASSUME NEW i \in DOMAIN runs, runs[i].hunt # None, runs[i].new # None, hunts'[runs[i].hunt].state = "saved"
        PROVE  runs[i].found \ runs[i].new \subseteq FoundBy({k \in RunsOf(runs[i].hunt) : k < i})
    BY <1>4, <2>1 DEF HuntsInv, RunsAreKept, HuntsTypeOK, Run
  <2>2. ASSUME NEW h \in HuntIds, hunts'[h].state = "saved", h \notin crowded, ~Served(h)'
        PROVE  hunts'[h].runs = Cardinality(RunsOf(h))
    BY <1>4, <1>8, <1>9, <2>2, HuntsAssumption DEF HuntsInv, RunsAreKept
  <2> QED BY <1>2, <1>6, <1>7, <2>1, <2>2 DEF RunsAreKept
<1>11. ASSUME NEW v \in Workers PROVE HuntJobOK(job[v])' /\ Compared(v)'
  <2>1. CASE v = w
    BY <1>1, <2>1, IdleHuntJob DEF HuntJobOK, Compared
  <2>2. CASE v # w
    BY <1>1, <1>4, <1>6, <1>7, <2>2 DEF HuntsInv, HuntJobOK, Compared
  <2> QED BY <2>1, <2>2
<1>12. ASSUME NEW h \in HuntIds, hunts'[h].state = "absent" PROVE RunsOf(h) = {} /\ ~Served(h)' /\ hunts'[h].runs = 0
  BY <1>3, <1>4, <1>8, <1>12, HuntsAssumption DEF HuntsInv
<1>13. ASSUME NEW h \in HuntIds \ crowded, hunts'[h].state = "saved" PROVE Counted(h)'
  <2>1. CASE h = h0
    BY <1>4, <1>9, <1>13, <2>1 DEF Counted, Served
  <2>2. CASE h # h0
    <3>1. \A v \in Workers : job'[v].on = h => job'[v] = job[v]
      BY <1>1, IdleHuntJob, HuntsAssumption
    <3>2. Counted(h) /\ hunts'[h] = hunts[h]
      BY <1>4, <1>13, <2>2 DEF HuntsInv
    <3> QED BY <1>6, <3>1, <3>2 DEF Counted
  <2> QED BY <2>1, <2>2
<1> QED BY <1>1, <1>2, <1>5, <1>6, <1>10, <1>11, <1>12, <1>13 DEF HuntsInv

LEMMA HuntsStep == ASSUME HuntsInv, [HuntsNext]_huntVars PROVE HuntsInv'
<1>1. CASE UNCHANGED huntVars
  <2>1. UNCHANGED <<hunts, runs, lastRun, job, crowded>>
    BY <1>1 DEF huntVars, requestVars
  <2>2. \A own : FoundBy(own)' = FoundBy(own)
    BY <2>1 DEF FoundBy
  <2>3. \A h : RunsOf(h)' = RunsOf(h) /\ Served(h)' = Served(h)
    BY <2>1 DEF RunsOf, Served
  <2>4. HuntsTypeOK'
    BY <2>1 DEF HuntsInv, HuntsTypeOK
  <2>5. \A v \in Workers : HuntJobOK(job[v])' /\ Compared(v)'
    BY <2>1, <2>2, <2>3 DEF HuntsInv, HuntJobOK, Compared
  <2>6. RunsAreKept'
    BY <2>1, <2>2, <2>3 DEF HuntsInv, RunsAreKept
  <2>7. \A h : Counted(h)' = Counted(h)
    BY <2>1, <2>3 DEF Counted
  <2> QED BY <2>1, <2>3, <2>4, <2>5, <2>6, <2>7 DEF HuntsInv
<1>2. CASE HuntsNext
  BY <1>2, SaveHuntStep, StartHuntStep, DeleteHuntStep, SearchStep, CompareStep, StoreRunStep, CountRunStep DEF HuntsNext
<1> QED BY <1>1, <1>2

LEMMA HuntsStart == RequestsInit /\ HuntsInit => HuntsInv
<1> SUFFICES ASSUME RequestsInit, HuntsInit PROVE HuntsInv
  OBVIOUS
<1>1. DOMAIN runs = {}
  BY DEF HuntsInit
<1>2. \A h : RunsOf(h) = {}
  BY <1>1 DEF RunsOf
<1>3. \A v \in Workers : job[v] = NoJob
  BY DEF RequestsInit
<1>4. \A h \in HuntIds : ~Served(h) /\ hunts[h].state = "absent" /\ hunts[h].runs = 0
  BY <1>3, IdleHuntJob, HuntsAssumption DEF Served, HuntsInit
<1>5. HuntsTypeOK
  BY <1>1 DEF HuntsTypeOK, HuntsInit
<1>6. RunsAreKept
  BY <1>1, <1>4 DEF RunsAreKept
<1>7. \A v \in Workers : HuntJobOK(job[v]) /\ Compared(v)
  BY <1>3, IdleHuntJob DEF Compared
<1>8. DOMAIN job = Workers
  BY DEF RequestsInit
<1> QED BY <1>2, <1>4, <1>5, <1>6, <1>7, <1>8 DEF HuntsInv

\* What a run leaves unmarked an earlier run of the same hunt has found (execute, cases.js 488-498), however
\* runs and deletions of hunts overlap; and a hunt two requests never worked on at once counts its runs.
THEOREM HuntRunsAreKept == HuntsSpec => []RunsAreKept
<1>1. HuntsInv => RunsAreKept
  BY DEF HuntsInv
<1> QED BY <1>1, HuntsStart, HuntsStep, PTL DEF HuntsSpec

-----------------------------------------------------------------------------
(* Workflows. *)

Outcomes == {"ok", "skipped", "failed", "cancelled"}
StepLists == UNION {[DOMAIN p -> Outcomes \cup {"pending"}] : p \in Plans}
Exec == [workflow : WorkflowIds, status : {"RUNNING", "SUCCEEDED", "PARTIAL", "FAILED"}, plan : Plans, steps : StepLists]

Stops(plan, steps, n) == steps[n] = "failed" /\ ~plan[n].continue_on_error

\* What is told of a step once the run is past it.
StepTold(plan, steps, n) ==
  /\ steps[n] \in Outcomes
  /\ steps[n] = "cancelled" <=> \E s \in DOMAIN plan : s < n /\ Stops(plan, steps, s)
  /\ plan[n].needs # None /\ plan[n].op = "nonempty" /\ steps[n] \in {"ok", "failed"} => steps[plan[n].needs] = "ok"

StepsSoFar(plan, steps, next) ==
  \A n \in DOMAIN plan : IF n < next THEN StepTold(plan, steps, n) ELSE steps[n] = "pending"

RunUnderWay(j) ==
  /\ {"run", "plan", "steps", "next"} \subseteq DOMAIN j
  /\ j.plan \in Plans /\ j.steps \in [DOMAIN j.plan -> Outcomes \cup {"pending"}]
  /\ j.run \in DOMAIN execs /\ execs[j.run].plan = j.plan
  /\ j.next \in 1 .. Len(j.plan) + 1 /\ StepsSoFar(j.plan, j.steps, j.next)

RunEnded(r) ==
  /\ \A n \in DOMAIN r.plan : StepTold(r.plan, r.steps, n)
  /\ r.status = StatusOf(r.plan, r.steps)

WorkflowsInv ==
  /\ DOMAIN workflows = WorkflowIds
  /\ \A id \in WorkflowIds : {"state", "enabled", "steps", "runs"} \subseteq DOMAIN workflows[id]
  /\ \A id \in WorkflowIds : Stored(id) => workflows[id].steps \in Plans
  /\ execs \in Seq(Exec)
  /\ \A i \in DOMAIN execs : execs[i].status # "RUNNING" => RunEnded(execs[i])
  /\ DOMAIN job = Workers
  /\ \A w \in Workers : {"pc", "on"} \subseteq DOMAIN job[w] /\ (At(w, "step") => RunUnderWay(job[w]))

LEMMA PlanSteps ==
  ASSUME NEW plan \in Plans
  PROVE  /\ DOMAIN plan = 1 .. Len(plan) /\ Len(plan) \in Nat
         /\ \A n \in DOMAIN plan : plan[n].needs # None => plan[n].needs \in DOMAIN plan /\ plan[n].needs < n
<1>1. DOMAIN plan = 1 .. Len(plan) /\ Len(plan) \in 1 .. 20 /\ \A n \in DOMAIN plan : plan[n] \in Steps(n)
  BY WorkflowsAssumption
<1>2. ASSUME NEW n \in DOMAIN plan, plan[n].needs # None PROVE plan[n].needs \in DOMAIN plan /\ plan[n].needs < n
  BY <1>1, <1>2 DEF Steps
<1> QED BY <1>1, <1>2

\* What a status stored at the end says.
LEMMA StatusTells ==
  ASSUME NEW r, r.plan \in Plans, RunEnded(r)
  PROVE  LET stops == {n \in DOMAIN r.plan : r.steps[n] = "failed" /\ ~r.plan[n].continue_on_error}
         IN  /\ r.status = "SUCCEEDED" <=> \A n \in DOMAIN r.plan : r.steps[n] \in {"ok", "skipped"}
             /\ r.status = "FAILED" <=> stops # {}
             /\ \A n \in DOMAIN r.plan : r.steps[n] = "cancelled" <=> \E s \in stops : s < n
             /\ \A n \in DOMAIN r.plan :
                  LET step == r.plan[n] IN
                  step.needs # None /\ step.op = "nonempty" /\ r.steps[n] \in {"ok", "failed"} => r.steps[step.needs] = "ok"
<1> DEFINE stops == {n \in DOMAIN r.plan : r.steps[n] = "failed" /\ ~r.plan[n].continue_on_error}
<1>1. \A n \in DOMAIN r.plan : n \in stops <=> Stops(r.plan, r.steps, n)
  BY DEF Stops
<1>2. ASSUME NEW n \in DOMAIN r.plan PROVE r.steps[n] = "cancelled" <=> \E s \in stops : s < n
  BY <1>1 DEF RunEnded, StepTold
<1>3. r.status = "FAILED" <=> stops # {}
  BY DEF RunEnded, StatusOf, Stopped
<1>4. r.status = "SUCCEEDED" <=> \A n \in DOMAIN r.plan : r.steps[n] # "failed"
  BY DEF RunEnded, StatusOf, Stopped
<1>5. (\A n \in DOMAIN r.plan : r.steps[n] # "failed") => \A n \in DOMAIN r.plan : r.steps[n] \in {"ok", "skipped"}
  BY <1>2 DEF RunEnded, StepTold, Outcomes
<1> QED BY <1>2, <1>3, <1>4, <1>5 DEF RunEnded, StepTold

\* The next step is told like the ones before it.
LEMMA NextStepTold ==
  ASSUME NEW plan \in Plans, NEW steps \in [DOMAIN plan -> Outcomes \cup {"pending"}], NEW next \in DOMAIN plan,
         StepsSoFar(plan, steps, next), NEW outcome \in Outcomes,
         IF Stopped(plan, steps) THEN outcome = "cancelled"
         ELSE \E met \in Verdicts(plan[next], steps) : outcome \in IF met THEN {"ok", "skipped", "failed"} ELSE {"skipped"}
  PROVE  LET new == [steps EXCEPT ![next] = outcome]
         IN  new \in [DOMAIN plan -> Outcomes \cup {"pending"}] /\ StepsSoFar(plan, new, next + 1)
<1> DEFINE new == [steps EXCEPT ![next] = outcome]
<1>1. DOMAIN plan = 1 .. Len(plan) /\ Len(plan) \in Nat
  BY PlanSteps
<1>2. new \in [DOMAIN plan -> Outcomes \cup {"pending"}]
  OBVIOUS
<1>3. new[next] = outcome /\ \A n \in DOMAIN plan : n # next => new[n] = steps[n]
  OBVIOUS
<1> HIDE DEF new
<1>4. \A s \in DOMAIN plan : s < next => (Stops(plan, new, s) <=> Stops(plan, steps, s))
  BY <1>1, <1>3 DEF Stops
<1>5. Stopped(plan, steps) <=> \E s \in DOMAIN plan : s < next /\ Stops(plan, steps, s)
  BY <1>1 DEF Stopped, Stops, StepsSoFar
<1>6. StepTold(plan, new, next)
  <2>1. outcome = "cancelled" <=> \E s \in DOMAIN plan : s < next /\ Stops(plan, new, s)
    BY <1>4, <1>5
  <2>2. ASSUME plan[next].needs # None, plan[next].op = "nonempty", outcome \in {"ok", "failed"}
        PROVE  new[plan[next].needs] = "ok"
    <3>1. ~Stopped(plan, steps)
      BY <2>2
    <3>2. steps[plan[next].needs] = "ok"
      BY <2>2, <3>1 DEF Verdicts
    <3> QED BY <1>1, <1>3, <2>2, <3>2, PlanSteps
  <2> QED BY <1>3, <2>1, <2>2 DEF StepTold
<1>7. ASSUME NEW n \in DOMAIN plan, n < next PROVE StepTold(plan, new, n)
  <2>1. StepTold(plan, steps, n) /\ new[n] = steps[n]
    BY <1>1, <1>3, <1>7 DEF StepsSoFar
  <2>2. \A s \in DOMAIN plan : s < n => (Stops(plan, new, s) <=> Stops(plan, steps, s))
    BY <1>1, <1>4, <1>7
  <2>3. plan[n].needs # None => new[plan[n].needs] = steps[plan[n].needs]
    BY <1>1, <1>3, <1>7, PlanSteps
  <2> QED BY <2>1, <2>2, <2>3 DEF StepTold
<1>8. ASSUME NEW n \in DOMAIN plan, ~(n < next + 1) PROVE new[n] = "pending"
  BY <1>1, <1>3, <1>8 DEF StepsSoFar
<1>9. \A n \in DOMAIN plan : n < next + 1 => n < next \/ n = next
  BY <1>1
<1> QED BY <1>2, <1>6, <1>7, <1>8, <1>9 DEF StepsSoFar, new

\* A request that goes on without a change of the runs; the workflows keep their rows.
LEMMA WorkflowsFrame ==
  ASSUME WorkflowsInv, NEW w \in Workers, NEW j, Continue(w, j), UNCHANGED execs,
         {"pc", "on"} \subseteq DOMAIN j, j.pc = "step" => RunUnderWay(j),
         DOMAIN workflows' = WorkflowIds,
         \A id \in WorkflowIds : {"state", "enabled", "steps", "runs"} \subseteq DOMAIN workflows'[id],
         \A id \in WorkflowIds : Stored(id)' => workflows'[id].steps \in Plans
  PROVE  WorkflowsInv'
<1>1. DOMAIN job' = Workers /\ job'[w] = j /\ \A v \in Workers \ {w} : job'[v] = job[v]
  BY ContinueJob DEF WorkflowsInv
<1>2. ASSUME NEW v \in Workers PROVE {"pc", "on"} \subseteq DOMAIN job'[v] /\ (At(v, "step")' => RunUnderWay(job[v])')
  BY <1>1 DEF WorkflowsInv, At, RunUnderWay
<1> QED BY <1>1, <1>2 DEF WorkflowsInv

\* Workflows are edited between requests.
LEMMA EditWorkflowStep ==
  ASSUME WorkflowsInv, NEW w \in Workers, SaveWorkflow(w) \/ SetEnabled(w) \/ DeleteWorkflow(w) PROVE WorkflowsInv'
<1>1. UNCHANGED <<execs, job>>
  BY DEF SaveWorkflow, SetEnabled, DeleteWorkflow, requestVars
<1>2. \A v \in Workers : RunUnderWay(job[v])' = RunUnderWay(job[v])
  BY <1>1 DEF RunUnderWay
<1>3. /\ DOMAIN workflows' = WorkflowIds
      /\ \A id \in WorkflowIds : {"state", "enabled", "steps", "runs"} \subseteq DOMAIN workflows'[id]
      /\ \A id \in WorkflowIds : Stored(id)' => workflows'[id].steps \in Plans
  <2>1. CASE SaveWorkflow(w)
    <3>1. PICK id \in WorkflowIds, plan \in Plans :
            workflows' = [workflows EXCEPT ![id].state = "saved", ![id].steps = plan,
                                           ![id].enabled = IF Stored(id) THEN @ ELSE TRUE]
      BY <2>1 DEF SaveWorkflow
    <3>2. /\ DOMAIN workflows' = WorkflowIds /\ DOMAIN workflows'[id] = DOMAIN workflows[id]
          /\ workflows'[id].steps = plan
          /\ \A other \in WorkflowIds : other # id => workflows'[other] = workflows[other]
      BY <3>1 DEF WorkflowsInv
    <3> QED BY <3>2 DEF WorkflowsInv, Stored
  <2>2. CASE SetEnabled(w)
    BY <2>2 DEF SetEnabled, WorkflowsInv, Stored
  <2>3. CASE DeleteWorkflow(w)
    BY <2>3 DEF DeleteWorkflow, WorkflowsInv, Stored
  <2> QED BY <2>1, <2>2, <2>3
<1> QED BY <1>1, <1>2, <1>3 DEF WorkflowsInv, At

LEMMA StartWorkflowStep == ASSUME WorkflowsInv, NEW w \in Workers, StartWorkflow(w) PROVE WorkflowsInv'
<1>0. PICK id \in WorkflowIds, plan \in Plans : \E steps, run :
        /\ steps = [n \in DOMAIN plan |-> "pending"] /\ run = Len(execs) + 1
        /\ execs' = Append(execs, [workflow |-> id, status |-> "RUNNING", plan |-> plan, steps |-> steps])
        /\ Continue(w, Job("step", id, [run |-> run, plan |-> plan, steps |-> steps, next |-> 1]))
  BY DEF StartWorkflow, WorkflowsInv
<1>1. PICK steps, run :
        /\ steps = [n \in DOMAIN plan |-> "pending"] /\ run = Len(execs) + 1
        /\ execs' = Append(execs, [workflow |-> id, status |-> "RUNNING", plan |-> plan, steps |-> steps])
        /\ Continue(w, Job("step", id, [run |-> run, plan |-> plan, steps |-> steps, next |-> 1]))
  BY <1>0
<1> DEFINE new == [workflow |-> id, status |-> "RUNNING", plan |-> plan, steps |-> steps]
           fields == [run |-> run, plan |-> plan, steps |-> steps, next |-> 1]
<1>2. PICK j : j = Job("step", id, fields)
  OBVIOUS
<1>3. DOMAIN job' = Workers /\ job'[w] = j /\ \A v \in Workers \ {w} : job'[v] = job[v]
  BY <1>1, <1>2, ContinueJob DEF WorkflowsInv
<1>4. DOMAIN fields = {"run", "plan", "steps", "next"}
  OBVIOUS
<1>5. /\ {"pc", "on", "run", "plan", "steps", "next"} \subseteq DOMAIN j
      /\ j.run = run /\ j.plan = plan /\ j.steps = steps /\ j.next = 1
  BY <1>2, <1>4, JobFields
<1>6. DOMAIN plan = 1 .. Len(plan) /\ Len(plan) \in Nat
  BY PlanSteps
<1>7. steps \in [DOMAIN plan -> Outcomes \cup {"pending"}]
  BY <1>1
<1>8. new \in Exec /\ new.plan = plan /\ new.status = "RUNNING"
  BY <1>7 DEF Exec, StepLists
<1> HIDE DEF new
<1>9. execs \in Seq(Exec) /\ execs' = Append(execs, new)
  BY <1>1 DEF WorkflowsInv, new
<1>10. /\ execs' \in Seq(Exec) /\ DOMAIN execs' = DOMAIN execs \cup {run} /\ execs'[run] = new
       /\ \A i \in DOMAIN execs : execs'[i] = execs[i]
  BY <1>1, <1>8, <1>9
<1>11. StepsSoFar(plan, steps, 1)
  BY <1>1, <1>6 DEF StepsSoFar
<1>12. RunUnderWay(j)'
  BY <1>5, <1>6, <1>7, <1>8, <1>10, <1>11 DEF RunUnderWay
<1>13. ASSUME NEW v \in Workers \ {w}, RunUnderWay(job[v]) PROVE RunUnderWay(job[v])'
  BY <1>3, <1>10, <1>13 DEF RunUnderWay
<1>14. \A i \in DOMAIN execs' : execs'[i].status # "RUNNING" => RunEnded(execs[i])'
  BY <1>8, <1>10 DEF WorkflowsInv, RunEnded
<1>15. UNCHANGED workflows
  BY DEF StartWorkflow
<1> QED BY <1>3, <1>5, <1>10, <1>12, <1>13, <1>14, <1>15 DEF WorkflowsInv, At, Stored

LEMMA RunStepStep == ASSUME WorkflowsInv, NEW w \in Workers, RunStep(w) PROVE WorkflowsInv'
<1>1. PICK j0 : j0 = job[w]
  OBVIOUS
<1>2. RunUnderWay(j0) /\ j0.pc = "step" /\ {"pc", "on"} \subseteq DOMAIN j0 /\ j0.next \in DOMAIN j0.plan
  BY <1>1 DEF RunStep, At, WorkflowsInv
<1>3. PICK outcome \in Outcomes :
        /\ IF Stopped(j0.plan, j0.steps) THEN outcome = "cancelled"
           ELSE \E met \in Verdicts(j0.plan[j0.next], j0.steps) :
                  outcome \in IF met THEN {"ok", "skipped", "failed"} ELSE {"skipped"}
        /\ Continue(w, [j0 EXCEPT !.steps[j0.next] = outcome, !.next = @ + 1])
  BY <1>1 DEF RunStep, Outcomes
<1> DEFINE new == [j0.steps EXCEPT ![j0.next] = outcome]
<1>4. PICK j : j = [j0 EXCEPT !.steps = new, !.next = j0.next + 1]
  OBVIOUS
<1>5. [j0 EXCEPT !.steps[j0.next] = outcome, !.next = @ + 1] = j
  BY <1>2, <1>4 DEF RunUnderWay
<1>6. new \in [DOMAIN j0.plan -> Outcomes \cup {"pending"}] /\ StepsSoFar(j0.plan, new, j0.next + 1)
  BY <1>2, <1>3, NextStepTold DEF RunUnderWay
<1> HIDE DEF new
<1>7. /\ DOMAIN j = DOMAIN j0 /\ j.run = j0.run /\ j.plan = j0.plan /\ j.steps = new /\ j.next = j0.next + 1
      /\ j.pc = j0.pc
  BY <1>2, <1>4 DEF RunUnderWay
<1>8. j.next \in 1 .. Len(j0.plan) + 1
  BY <1>2, <1>7, PlanSteps DEF RunUnderWay
<1>9. RunUnderWay(j)
  BY <1>2, <1>6, <1>7, <1>8 DEF RunUnderWay
<1>10. UNCHANGED <<workflows, execs>>
  BY DEF RunStep
<1>11. /\ DOMAIN workflows' = WorkflowIds
       /\ \A id \in WorkflowIds : {"state", "enabled", "steps", "runs"} \subseteq DOMAIN workflows'[id]
       /\ \A id \in WorkflowIds : Stored(id)' => workflows'[id].steps \in Plans
  BY <1>10 DEF WorkflowsInv, Stored
<1> QED BY <1>2, <1>3, <1>5, <1>7, <1>9, <1>10, <1>11, WorkflowsFrame

LEMMA FinishRunStep == ASSUME WorkflowsInv, NEW w \in Workers, FinishRun(w) PROVE WorkflowsInv'
<1>1. PICK j0 : j0 = job[w]
  OBVIOUS
<1>2. RunUnderWay(j0) /\ j0.next \notin DOMAIN j0.plan
  BY <1>1 DEF FinishRun, At, WorkflowsInv
<1>3. \A n \in DOMAIN j0.plan : StepTold(j0.plan, j0.steps, n)
  <2>1. DOMAIN j0.plan = 1 .. Len(j0.plan) /\ Len(j0.plan) \in Nat
    BY <1>2, PlanSteps DEF RunUnderWay
  <2>2. \A n \in DOMAIN j0.plan : n < j0.next
    BY <1>2, <2>1 DEF RunUnderWay
  <2> QED BY <1>2, <2>2 DEF RunUnderWay, StepsSoFar
<1> DEFINE status == StatusOf(j0.plan, j0.steps)
           new == [execs[j0.run] EXCEPT !.status = status, !.steps = j0.steps]
           patch == [pc |-> "read_workflow", count |-> 0]
<1>4. execs' = [execs EXCEPT ![j0.run] = new]
  <2>1. execs' = [execs EXCEPT ![j0.run].status = status, ![j0.run].steps = j0.steps]
    BY <1>1 DEF FinishRun
  <2> HIDE DEF status
  <2> QED BY <2>1, <1>2 DEF RunUnderWay, WorkflowsInv
<1>5. execs[j0.run] \in Exec /\ execs \in Seq(Exec) /\ execs[j0.run].plan = j0.plan
  BY <1>2 DEF RunUnderWay, WorkflowsInv
<1>6. status \in {"SUCCEEDED", "PARTIAL", "FAILED"}
  BY DEF StatusOf
<1>7. j0.steps \in StepLists
  BY <1>2 DEF RunUnderWay, StepLists
<1> HIDE DEF status
<1>8. new \in Exec /\ new.status = status /\ new.plan = j0.plan /\ new.steps = j0.steps
  BY <1>5, <1>6, <1>7 DEF Exec
<1> HIDE DEF new
<1>9. /\ execs' \in Seq(Exec) /\ DOMAIN execs' = DOMAIN execs /\ execs'[j0.run] = new
      /\ \A i \in DOMAIN execs : i # j0.run => execs'[i] = execs[i]
  BY <1>2, <1>4, <1>5, <1>8 DEF RunUnderWay
<1>10. \A i \in DOMAIN execs : execs'[i].plan = execs[i].plan
  BY <1>5, <1>8, <1>9
<1>11. RunEnded(new)
  BY <1>3, <1>8 DEF RunEnded, status
<1>12. PICK j : j = Patched(j0, patch)
  OBVIOUS
<1>13. {"pc", "on"} \subseteq DOMAIN j /\ j.pc = "read_workflow"
  <2>1. DOMAIN patch = {"pc", "count"}
    OBVIOUS
  <2> QED BY <1>1, <1>12, <2>1 DEF Patched, WorkflowsInv
<1>14. DOMAIN job' = Workers /\ job'[w] = j /\ \A v \in Workers \ {w} : job'[v] = job[v]
  BY <1>1, <1>12, ContinueJob DEF FinishRun, WorkflowsInv
<1>15. ASSUME NEW v \in Workers PROVE {"pc", "on"} \subseteq DOMAIN job'[v] /\ (At(v, "step")' => RunUnderWay(job[v])')
  BY <1>9, <1>10, <1>13, <1>14 DEF WorkflowsInv, At, RunUnderWay
<1>16. \A i \in DOMAIN execs' : execs'[i].status # "RUNNING" => RunEnded(execs[i])'
  BY <1>9, <1>11 DEF WorkflowsInv, RunEnded
<1>17. UNCHANGED workflows
  BY DEF FinishRun
<1> QED BY <1>9, <1>14, <1>15, <1>16, <1>17 DEF WorkflowsInv, Stored

\* The counter of the workflow is read and written.
LEMMA CountExecStep == ASSUME WorkflowsInv, NEW w \in Workers, ReadWorkflow(w) \/ CountExec(w) PROVE WorkflowsInv'
<1>1. PICK j : /\ {"pc", "on"} \subseteq DOMAIN j /\ j.pc # "step"
               /\ Continue(w, j)
  <2>1. {"pc", "on"} \subseteq DOMAIN NoJob /\ NoJob.pc = "idle"
    BY DEF NoJob
  <2>2. \A n : /\ {"pc", "on"} \subseteq DOMAIN [job[w] EXCEPT !.pc = "count_exec", !.count = n]
               /\ [job[w] EXCEPT !.pc = "count_exec", !.count = n].pc = "count_exec"
    BY DEF WorkflowsInv
  <2> QED BY <2>1, <2>2 DEF ReadWorkflow, CountExec, Done
<1>2. UNCHANGED execs
  BY DEF ReadWorkflow, CountExec
<1>3. /\ DOMAIN workflows' = WorkflowIds
      /\ \A id \in WorkflowIds : {"state", "enabled", "steps", "runs"} \subseteq DOMAIN workflows'[id]
      /\ \A id \in WorkflowIds : Stored(id)' => workflows'[id].steps \in Plans
  BY DEF ReadWorkflow, CountExec, WorkflowsInv, Stored
<1> QED BY <1>1, <1>2, <1>3, WorkflowsFrame

LEMMA WorkflowsStep == ASSUME WorkflowsInv, [WorkflowsNext]_workflowVars PROVE WorkflowsInv'
<1>1. CASE UNCHANGED workflowVars
  BY <1>1 DEF workflowVars, requestVars, WorkflowsInv, RunUnderWay, RunEnded, At, Stored
<1>2. CASE WorkflowsNext
  BY <1>2, EditWorkflowStep, StartWorkflowStep, RunStepStep, FinishRunStep, CountExecStep DEF WorkflowsNext
<1> QED BY <1>1, <1>2

LEMMA WorkflowsStart == RequestsInit /\ WorkflowsInit => WorkflowsInv
  BY DEF RequestsInit, WorkflowsInit, WorkflowsInv, NoJob, At, Stored

\* The status a run ends with tells how its steps ended (runWorkflow, workbench.js 306-341), for every list
\* of steps and however workflows are edited, deleted and run at the same time.
THEOREM WorkflowRunsAreTruthful == WorkflowsSpec => []RunIsTruthful
<1>1. WorkflowsInv => RunIsTruthful
  <2> SUFFICES ASSUME WorkflowsInv, NEW i \in DOMAIN execs, execs[i].status # "RUNNING"
               PROVE  LET r == execs[i]
                          stops == {n \in DOMAIN r.plan : r.steps[n] = "failed" /\ ~r.plan[n].continue_on_error}
                      IN  /\ r.status = "SUCCEEDED" <=> \A n \in DOMAIN r.plan : r.steps[n] \in {"ok", "skipped"}
                          /\ r.status = "FAILED" <=> stops # {}
                          /\ \A n \in DOMAIN r.plan : r.steps[n] = "cancelled" <=> \E s \in stops : s < n
                          /\ \A n \in DOMAIN r.plan :
                               LET step == r.plan[n] IN
                               step.needs # None /\ step.op = "nonempty" /\ r.steps[n] \in {"ok", "failed"} =>
                                 r.steps[step.needs] = "ok"
    BY DEF RunIsTruthful
  <2>1. execs[i].plan \in Plans /\ RunEnded(execs[i])
    <3>1. execs[i] \in Exec
      BY DEF WorkflowsInv
    <3> QED BY <3>1 DEF WorkflowsInv, Exec
  <2> QED BY <2>1, StatusTells
<1> QED BY <1>1, WorkflowsStart, WorkflowsStep, PTL DEF WorkflowsSpec

-----------------------------------------------------------------------------
(* The assistant. *)

ThreadMessage == [role : {"user", "answer", "calls", "tool"}, calls : SUBSET (Reads \cup Writes)]
CallsIn(messages) == UNION {messages[i].calls : i \in DOMAIN messages}

\* What comes at i, about these calls, answers them: nothing but other answers lies in between.
Follows(messages, i, calls) ==
  \E k \in 1 .. i - 1 :
    /\ messages[k].role = "calls" /\ calls \subseteq messages[k].calls
    /\ \A m \in k + 1 .. i - 1 : messages[m].role = "tool"

\* A conversation with these calls pending: every other call has its answer, and every answer its call.
Whole(messages, pending) ==
  /\ messages \in Seq(ThreadMessage) /\ pending \subseteq Reads \cup Writes
  /\ \A i \in DOMAIN messages : messages[i].role = "calls" =>
       \A c \in messages[i].calls : Answered(messages, i, c) \/ c \in pending
  /\ \A i \in DOMAIN messages : messages[i].role = "tool" => Follows(messages, i, messages[i].calls)
  /\ pending # {} => Follows(messages, Len(messages) + 1, pending)

ConversationOK(j) ==
  \/ j.pc = "idle"
  \/ /\ j.pc \in {"model", "call", "save"} /\ j.on = Thread
     /\ Whole(j.messages, j.pending)
     /\ j.pc = "model" => j.pending = {}
     /\ j.pc = "call" => j.pending # {}

\* No pending call ran, and what ran is in the conversation, from which the model never repeats a call.
RanOnce(messages, pending) ==
  \A c \in Writes :
    /\ ran[c] =< 1 /\ (c \in pending => ran[c] = 0)
    /\ ran[c] > 0 => c \in CallsIn(messages)

\* One request at a time: what ran is told by its conversation, or by the stored one between requests.
AloneOK ==
  /\ \A v, w \in Workers : ~Idle(v) /\ ~Idle(w) => v = w
  /\ \A w \in Workers : ~Idle(w) => RanOnce(job[w].messages, job[w].pending)
  /\ (\A w \in Workers : Idle(w)) => RanOnce(thread.messages, thread.pending)

AssistantInv ==
  /\ restarts \in Nat /\ ran \in [Writes -> Nat]
  /\ Whole(thread.messages, thread.pending)
  /\ DOMAIN job = Workers /\ \A w \in Workers : ConversationOK(job[w])
  /\ Thread \notin crowded /\ restarts = 0 => AloneOK

\* A set put in order is a sequence that holds each of its elements.
LEMMA OrderedSet ==
  ASSUME NEW S, IsFiniteSet(S)
  PROVE  /\ Cardinality(S) \in Nat /\ SetToSeq(S) \in [1 .. Cardinality(S) -> S]
         /\ \A c \in S : \E i \in 1 .. Cardinality(S) : SetToSeq(S)[i] = c
<1>1. PICK n : n = Cardinality(S)
  OBVIOUS
<1>2. n \in Nat /\ ExistsBijection(1 .. n, S)
  BY <1>1, FS_CardinalityType
<1>3. PICK f \in Bijection(1 .. n, S) : TRUE
  BY <1>2, Fun_ExistsBij
<1>4. f \in [1 .. n -> S] /\ IsInjective(f)
  BY <1>3 DEF Bijection, Injection, IsInjective
<1>5. PICK s : s = SetToSeq(S)
  OBVIOUS
<1>6. s \in [1 .. n -> S] /\ IsInjective(s)
  BY <1>1, <1>4, <1>5 DEF SetToSeq
<1>7. PICK R : R = {s[i] : i \in 1 .. n}
  OBVIOUS
<1>8. s \in Bijection(1 .. n, R)
  BY <1>6, <1>7 DEF Bijection, Injection, Surjection, IsInjective
<1>9. ExistsBijection(1 .. n, R)
  BY <1>8, Fun_ExistsBij
<1>10. Cardinality(R) = n
  BY <1>2, <1>9, FS_CountingElements
<1>11. R = S
  BY <1>1, <1>6, <1>7, <1>10, FS_Subset
<1> QED BY <1>1, <1>2, <1>5, <1>6, <1>7, <1>11

LEMMA CallsAreFinite == ASSUME NEW calls \in SUBSET (Reads \cup Writes) PROVE IsFiniteSet(calls)
BY FS_Subset, AssistantAssumption

\* The results of these calls: one message each, and nothing else.
LEMMA ResultsOfCalls ==
  ASSUME NEW calls \in SUBSET (Reads \cup Writes)
  PROVE  /\ Results(calls) \in Seq(ThreadMessage)
         /\ \A i \in DOMAIN Results(calls) : Results(calls)[i].role = "tool" /\ Results(calls)[i].calls \subseteq calls
         /\ \A c \in calls : \E i \in DOMAIN Results(calls) : Results(calls)[i] = Msg("tool", {c})
         /\ calls = {} => Results(calls) = <<>>
<1>1. PICK n, s : n = Cardinality(calls) /\ s = SetToSeq(calls)
  OBVIOUS
<1>2. n \in Nat /\ s \in [1 .. n -> calls] /\ \A c \in calls : \E i \in 1 .. n : s[i] = c
  BY <1>1, CallsAreFinite, OrderedSet
<1>3. Results(calls) = [i \in 1 .. n |-> Msg("tool", {s[i]})]
  BY <1>1 DEF Results
<1>4. \A i \in 1 .. n : Msg("tool", {s[i]}) \in ThreadMessage
  BY <1>2 DEF Msg, ThreadMessage
<1>5. \A i \in 1 .. n : Msg("tool", {s[i]}).role = "tool" /\ Msg("tool", {s[i]}).calls \subseteq calls
  BY <1>2 DEF Msg
<1>6. Results(calls) \in Seq(ThreadMessage)
  BY <1>2, <1>3, <1>4
<1>7. calls = {} => Results(calls) = <<>>
  <2>1. calls = {} => n = 0
    BY <1>1, FS_EmptySet
  <2>2. calls = {} => Results(calls) \in Seq(ThreadMessage) /\ DOMAIN Results(calls) = 1 .. 0
    BY <1>3, <1>6, <2>1
  <2> QED BY <2>2
<1>8. /\ DOMAIN Results(calls) = 1 .. n
      /\ \A i \in 1 .. n : Results(calls)[i] = Msg("tool", {s[i]})
  BY <1>3
<1>9. \A c \in calls : \E i \in 1 .. n : Results(calls)[i] = Msg("tool", {c})
  BY <1>2, <1>8
<1> QED BY <1>5, <1>6, <1>7, <1>8, <1>9

\* A conversation goes on.
LEMMA Joined ==
  ASSUME NEW M \in Seq(ThreadMessage), NEW T \in Seq(ThreadMessage)
  PROVE  /\ M \o T \in Seq(ThreadMessage) /\ Len(M) \in Nat /\ Len(T) \in Nat /\ Len(M \o T) = Len(M) + Len(T)
         /\ DOMAIN M = 1 .. Len(M) /\ DOMAIN T = 1 .. Len(T) /\ DOMAIN (M \o T) = 1 .. Len(M) + Len(T)
         /\ \A i \in 1 .. Len(M) : (M \o T)[i] = M[i]
         /\ \A i \in 1 .. Len(T) : (M \o T)[Len(M) + i] = T[i]
         /\ \A i \in Len(M) + 1 .. Len(M) + Len(T) : i - Len(M) \in 1 .. Len(T) /\ (M \o T)[i] = T[i - Len(M)]
OBVIOUS

LEMMA AppendIsJoin ==
  ASSUME NEW M \in Seq(ThreadMessage), NEW m \in ThreadMessage
  PROVE  Append(M, m) = M \o <<m>> /\ <<m>> \in Seq(ThreadMessage) /\ Len(<<m>>) = 1 /\ <<m>>[1] = m
OBVIOUS

\* Calls that are pending are answered, all but the ones that go on waiting.
LEMMA AnswersCome ==
  ASSUME NEW M, NEW P, NEW T \in Seq(ThreadMessage), NEW R, Whole(M, P), R \subseteq P,
         \A i \in DOMAIN T : T[i].role = "tool" /\ T[i].calls \subseteq P,
         \A c \in P \ R : \E i \in DOMAIN T : T[i] = Msg("tool", {c}),
         P = {} => T = <<>>
  PROVE  Whole(M \o T, R)
<1>1. M \in Seq(ThreadMessage) /\ P \subseteq Reads \cup Writes
  BY DEF Whole
<1>2. PICK N : N = M \o T
  OBVIOUS
<1>3. PICK m, t : m = Len(M) /\ t = Len(T)
  OBVIOUS
<1>4. /\ N \in Seq(ThreadMessage) /\ m \in Nat /\ t \in Nat /\ Len(N) = m + t
      /\ DOMAIN M = 1 .. m /\ DOMAIN T = 1 .. t /\ DOMAIN N = 1 .. m + t
      /\ \A i \in 1 .. m : N[i] = M[i]
      /\ \A i \in 1 .. t : N[m + i] = T[i]
      /\ \A i \in m + 1 .. m + t : i - m \in 1 .. t /\ N[i] = T[i - m]
  BY <1>1, <1>2, <1>3, Joined
<1>5. \A i \in m + 1 .. m + t : N[i].role = "tool" /\ N[i].calls \subseteq P
  BY <1>4
<1>6. ASSUME NEW i \in 1 .. m + 1, NEW calls, Follows(M, i, calls)
      PROVE  \E k \in 1 .. i - 1 :
               /\ N[k].role = "calls" /\ calls \subseteq N[k].calls
               /\ \A l \in k + 1 .. i - 1 : N[l].role = "tool"
  <2>1. PICK k \in 1 .. i - 1 :
          /\ M[k].role = "calls" /\ calls \subseteq M[k].calls
          /\ \A l \in k + 1 .. i - 1 : M[l].role = "tool"
    BY <1>6 DEF Follows
  <2>2. \A l \in 1 .. i - 1 : N[l] = M[l]
    BY <1>4
  <2>3. \A l \in k + 1 .. i - 1 : l \in 1 .. i - 1
    BY <1>4
  <2> QED BY <2>1, <2>2, <2>3
<1>7. ASSUME NEW i \in m + 1 .. m + t + 1, NEW calls, calls \subseteq P, P # {} PROVE Follows(N, i, calls)
  <2>1. Follows(M, m + 1, P)
    BY <1>3, <1>7 DEF Whole
  <2>2. PICK k \in 1 .. m + 1 - 1 :
          /\ N[k].role = "calls" /\ P \subseteq N[k].calls
          /\ \A l \in k + 1 .. m + 1 - 1 : N[l].role = "tool"
    BY <1>4, <1>6, <2>1
  <2>3. k \in 1 .. i - 1 /\ \A l \in k + 1 .. i - 1 : l \in k + 1 .. m + 1 - 1 \/ l \in m + 1 .. m + t
    BY <1>4
  <2>4. \A l \in k + 1 .. i - 1 : N[l].role = "tool"
    BY <1>5, <2>2, <2>3
  <2> QED BY <1>7, <2>2, <2>3, <2>4 DEF Follows
<1>8. ASSUME NEW i \in DOMAIN N, N[i].role = "calls", NEW c \in N[i].calls PROVE Answered(N, i, c) \/ c \in R
  <2>1. i \in 1 .. m
    BY <1>4, <1>5, <1>8
  <2>2. CASE Answered(M, i, c)
    <3>1. PICK k \in i + 1 .. m : M[k] = Msg("tool", {c})
      BY <1>3, <2>2 DEF Answered
    <3>2. k \in i + 1 .. m + t /\ N[k] = M[k]
      BY <1>4, <2>1
    <3> QED BY <1>4, <3>1, <3>2 DEF Answered
  <2>3. CASE c \in P \ R
    <3>1. PICK k \in 1 .. t : T[k] = Msg("tool", {c})
      BY <1>4, <2>3
    <3>2. m + k \in i + 1 .. m + t /\ N[m + k] = T[k]
      BY <1>4, <2>1
    <3> QED BY <1>4, <3>1, <3>2 DEF Answered
  <2>4. N[i] = M[i] /\ i \in DOMAIN M
    BY <1>4, <2>1
  <2> QED BY <1>8, <2>2, <2>3, <2>4 DEF Whole
<1>9. ASSUME NEW i \in DOMAIN N, N[i].role = "tool" PROVE Follows(N, i, N[i].calls)
  <2>1. CASE i \in 1 .. m
    <3>1. Follows(M, i, N[i].calls)
      BY <1>4, <1>9, <2>1 DEF Whole
    <3>2. i \in 1 .. m + 1
      BY <1>4, <2>1
    <3> QED BY <1>6, <3>1, <3>2 DEF Follows
  <2>2. CASE i \in m + 1 .. m + t
    <3>1. P # {}
      BY <1>4, <2>2
    <3>2. i \in m + 1 .. m + t + 1
      BY <1>4, <2>2
    <3> QED BY <1>5, <1>7, <2>2, <3>1, <3>2
  <2> QED BY <1>4, <2>1, <2>2
<1>10. R # {} => Follows(N, Len(N) + 1, R)
  <2>1. m + t + 1 \in m + 1 .. m + t + 1
    BY <1>4
  <2> QED BY <1>4, <1>7, <2>1
<1> QED BY <1>1, <1>2, <1>4, <1>8, <1>9, <1>10 DEF Whole

\* What the analyst or the model says goes after what is answered.
LEMMA SaidNext ==
  ASSUME NEW M, Whole(M, {}), NEW role \in {"user", "answer"}
  PROVE  Whole(Append(M, Msg(role, {})), {})
<1>1. M \in Seq(ThreadMessage) /\ Msg(role, {}) \in ThreadMessage /\ Msg(role, {}).role = role
  BY DEF Whole, ThreadMessage, Msg
<1>2. PICK N, m, s : N = Append(M, s) /\ m = Len(M) /\ s = Msg(role, {})
  OBVIOUS
<1>3. /\ N \in Seq(ThreadMessage) /\ m \in Nat /\ Len(N) = m + 1 /\ DOMAIN N = 1 .. m + 1 /\ DOMAIN M = 1 .. m
      /\ \A i \in 1 .. m : N[i] = M[i]
      /\ N[m + 1] = s
  BY <1>1, <1>2
<1>4. s.role = role
  BY <1>1, <1>2
<1>5. ASSUME NEW i \in DOMAIN N, N[i].role = "calls", NEW c \in N[i].calls PROVE Answered(N, i, c)
  <2>1. i \in 1 .. m
    BY <1>3, <1>4, <1>5
  <2>2. Answered(M, i, c)
    BY <1>3, <1>5, <2>1 DEF Whole
  <2>3. PICK k \in i + 1 .. m : M[k] = Msg("tool", {c})
    BY <1>2, <2>2 DEF Answered
  <2>4. k \in i + 1 .. m + 1 /\ N[k] = M[k]
    BY <1>3, <2>1
  <2> QED BY <1>3, <2>3, <2>4 DEF Answered
<1>6. ASSUME NEW i \in DOMAIN N, N[i].role = "tool" PROVE Follows(N, i, N[i].calls)
  <2>1. i \in 1 .. m
    BY <1>3, <1>4, <1>6
  <2>2. Follows(M, i, N[i].calls)
    BY <1>3, <1>6, <2>1 DEF Whole
  <2>3. \A l \in 1 .. i - 1 : N[l] = M[l]
    BY <1>3, <2>1
  <2>4. \A k \in 1 .. i - 1 : \A l \in k + 1 .. i - 1 : l \in 1 .. i - 1
    BY <1>3, <2>1
  <2> QED BY <2>2, <2>3, <2>4 DEF Follows
<1> QED BY <1>2, <1>3, <1>5, <1>6 DEF Whole

\* The model calls tools.
LEMMA CallsMade ==
  ASSUME NEW M, Whole(M, {}), NEW calls \in SUBSET (Reads \cup Writes)
  PROVE  Whole(Append(M, Msg("calls", calls)), calls)
<1>1. M \in Seq(ThreadMessage) /\ Msg("calls", calls) \in ThreadMessage
  BY DEF Whole, ThreadMessage, Msg
<1>2. PICK N, m, s : N = Append(M, s) /\ m = Len(M) /\ s = Msg("calls", calls)
  OBVIOUS
<1>3. /\ N \in Seq(ThreadMessage) /\ m \in Nat /\ Len(N) = m + 1 /\ DOMAIN N = 1 .. m + 1 /\ DOMAIN M = 1 .. m
      /\ \A i \in 1 .. m : N[i] = M[i]
      /\ N[m + 1] = s
  BY <1>1, <1>2
<1>4. s.role = "calls" /\ s.calls = calls
  BY <1>2 DEF Msg
<1>5. ASSUME NEW i \in DOMAIN N, N[i].role = "calls", NEW c \in N[i].calls PROVE Answered(N, i, c) \/ c \in calls
  <2>1. CASE i \in 1 .. m
    <3>1. Answered(M, i, c)
      BY <1>3, <1>5, <2>1 DEF Whole
    <3>2. PICK k \in i + 1 .. m : M[k] = Msg("tool", {c})
      BY <1>2, <3>1 DEF Answered
    <3>3. k \in i + 1 .. m + 1 /\ N[k] = M[k]
      BY <1>3, <2>1
    <3> QED BY <1>3, <3>2, <3>3 DEF Answered
  <2>2. CASE i = m + 1
    BY <1>3, <1>4, <1>5, <2>2
  <2> QED BY <1>3, <2>1, <2>2
<1>6. ASSUME NEW i \in DOMAIN N, N[i].role = "tool" PROVE Follows(N, i, N[i].calls)
  <2>1. i \in 1 .. m
    BY <1>3, <1>4, <1>6
  <2>2. Follows(M, i, N[i].calls)
    BY <1>3, <1>6, <2>1 DEF Whole
  <2>3. \A l \in 1 .. i - 1 : N[l] = M[l]
    BY <1>3, <2>1
  <2>4. \A k \in 1 .. i - 1 : \A l \in k + 1 .. i - 1 : l \in 1 .. i - 1
    BY <1>3, <2>1
  <2> QED BY <2>2, <2>3, <2>4 DEF Follows
<1>7. Follows(N, Len(N) + 1, calls)
  <2>1. m + 1 \in 1 .. Len(N) + 1 - 1 /\ (m + 1) + 1 .. Len(N) + 1 - 1 = {}
    BY <1>3
  <2> QED BY <1>3, <1>4, <2>1 DEF Follows
<1> QED BY <1>2, <1>3, <1>5, <1>6, <1>7 DEF Whole

LEMMA ResultsCome ==
  ASSUME NEW M, NEW P, NEW Q, NEW R, Whole(M, P), Q \subseteq P, R \subseteq P, P \ Q \subseteq R
  PROVE  Whole(M \o Results(Q), R)
<1>1. Q \in SUBSET (Reads \cup Writes)
  BY DEF Whole
<1>2. PICK T : T = Results(Q)
  OBVIOUS
<1>3. /\ T \in Seq(ThreadMessage)
      /\ \A i \in DOMAIN T : T[i].role = "tool" /\ T[i].calls \subseteq Q
      /\ \A c \in Q : \E i \in DOMAIN T : T[i] = Msg("tool", {c})
      /\ Q = {} => T = <<>>
  BY <1>1, <1>2, ResultsOfCalls
<1>4. \A i \in DOMAIN T : T[i].role = "tool" /\ T[i].calls \subseteq P
  BY <1>3
<1>5. \A c \in P \ R : \E i \in DOMAIN T : T[i] = Msg("tool", {c})
  BY <1>3
<1>6. P = {} => T = <<>>
  BY <1>3
<1> QED BY <1>2, <1>3, <1>4, <1>5, <1>6, AnswersCome

LEMMA OneAnswer ==
  ASSUME NEW M, NEW P, NEW c \in P, Whole(M, P)
  PROVE  Whole(Append(M, Msg("tool", {c})), P \ {c})
<1>1. M \in Seq(ThreadMessage) /\ P \subseteq Reads \cup Writes
  BY DEF Whole
<1>2. PICK s : s = Msg("tool", {c})
  OBVIOUS
<1>3. s \in ThreadMessage /\ s.role = "tool" /\ s.calls \subseteq P
  BY <1>1, <1>2 DEF Msg, ThreadMessage
<1>4. PICK T : T = <<s>>
  OBVIOUS
<1>5. T \in Seq(ThreadMessage) /\ DOMAIN T = {1} /\ T[1] = s /\ Append(M, s) = M \o T
  BY <1>1, <1>3, <1>4
<1>6. PICK R : R = P \ {c}
  OBVIOUS
<1>7. Whole(M \o T, R)
  <2>1. \A i \in DOMAIN T : T[i].role = "tool" /\ T[i].calls \subseteq P
    BY <1>3, <1>5
  <2>2. \A d \in P \ R : \E i \in DOMAIN T : T[i] = Msg("tool", {d})
    BY <1>2, <1>5, <1>6
  <2>3. P # {} /\ R \subseteq P
    BY <1>6
  <2> QED BY <1>5, <2>1, <2>2, <2>3, AnswersCome
<1> QED BY <1>2, <1>5, <1>6, <1>7

\* What a conversation tells of calls is not forgotten when it goes on.
LEMMA CallsStayIn ==
  ASSUME NEW M \in Seq(ThreadMessage)
  PROVE  /\ \A m \in ThreadMessage : CallsIn(M) \cup m.calls \subseteq CallsIn(Append(M, m))
         /\ \A T \in Seq(ThreadMessage) : CallsIn(M) \subseteq CallsIn(M \o T)
<1>1. ASSUME NEW T \in Seq(ThreadMessage) PROVE CallsIn(M) \subseteq CallsIn(M \o T)
  BY Joined DEF CallsIn
<1>2. ASSUME NEW m \in ThreadMessage PROVE CallsIn(M) \cup m.calls \subseteq CallsIn(Append(M, m))
  <2>1. PICK N, n : N = Append(M, m) /\ n = Len(M)
    OBVIOUS
  <2>2. DOMAIN N = 1 .. n + 1 /\ DOMAIN M = 1 .. n /\ n \in Nat /\ N[n + 1] = m /\ \A i \in 1 .. n : N[i] = M[i]
    BY <2>1
  <2>3. n + 1 \in DOMAIN N /\ DOMAIN M \subseteq DOMAIN N
    BY <2>2
  <2>4. CallsIn(M) \cup m.calls \subseteq CallsIn(N)
    BY <2>2, <2>3 DEF CallsIn
  <2> QED BY <2>1, <2>4
<1> QED BY <1>1, <1>2

\* The model is shown the end of the conversation, from something the analyst or it said on.
LEMMA ContextIsEnd ==
  ASSUME NEW M \in Seq(ThreadMessage)
  PROVE  \/ Context(M) = <<>>
         \/ \E s \in 1 .. Len(M) :
              /\ M[s].role \in {"user", "answer"}
              /\ Context(M) \in Seq(ThreadMessage) /\ Len(Context(M)) = Len(M) - s + 1
              /\ \A i \in 1 .. Len(M) - s + 1 : Context(M)[i] = M[s - 1 + i]
<1>1. PICK m : m = Len(M) /\ m \in Nat /\ DOMAIN M = 1 .. m
  OBVIOUS
<1>2. PICK f : f = IF m > KEEP THEN m - KEEP + 1 ELSE 1
  OBVIOUS
<1>3. f \in 1 .. m + 1
  BY <1>1, <1>2, AssistantAssumption
<1>4. PICK recent : recent = SubSeq(M, f, m)
  OBVIOUS
<1>5. /\ recent \in Seq(ThreadMessage) /\ Len(recent) = m - f + 1 /\ DOMAIN recent = 1 .. m - f + 1
      /\ \A i \in 1 .. m - f + 1 : recent[i] = M[f - 1 + i]
  BY <1>1, <1>3, <1>4
<1>6. PICK starts : starts = {i \in DOMAIN recent : recent[i].role \in {"user", "answer"}}
  OBVIOUS
<1>7. Context(M) = IF starts = {} THEN <<>> ELSE SubSeq(recent, CHOOSE i \in starts : \A k \in starts : i =< k, Len(recent))
  BY <1>1, <1>2, <1>4, <1>6 DEF Context
<1>8. CASE starts # {}
  <2>1. starts \in SUBSET Nat
    BY <1>5, <1>6, <1>3
  <2>2. \E i \in starts : \A k \in starts : i =< k
    BY <1>8, <2>1, LeastNatural
  <2>3. PICK s : s = CHOOSE i \in starts : \A k \in starts : i =< k
    OBVIOUS
  <2>4. s \in starts
    BY <2>2, <2>3
  <2>5. s \in 1 .. m - f + 1 /\ recent[s].role \in {"user", "answer"}
    BY <1>5, <1>6, <2>4
  <2>6. PICK ctx : ctx = SubSeq(recent, s, m - f + 1)
    OBVIOUS
  <2>7. Context(M) = ctx
    BY <1>5, <1>7, <1>8, <2>3, <2>6
  <2>8. /\ ctx \in Seq(ThreadMessage) /\ Len(ctx) = (m - f + 1) - s + 1
        /\ \A i \in 1 .. (m - f + 1) - s + 1 : ctx[i] = recent[s - 1 + i]
    <3>1. PICK r : r = m - f + 1
      OBVIOUS
    <3>2. r \in Nat /\ Len(recent) = r /\ s \in 1 .. r /\ ctx = SubSeq(recent, s, r)
      BY <1>1, <1>3, <1>5, <2>5, <2>6, <3>1
    <3>3. /\ ctx \in Seq(ThreadMessage) /\ Len(ctx) = r - s + 1
          /\ \A i \in 1 .. r - s + 1 : ctx[i] = recent[s - 1 + i]
      BY <1>5, <3>2
    <3> QED BY <3>1, <3>3
  <2>9. PICK t : t = f - 1 + s
    OBVIOUS
  <2>10. t \in 1 .. m /\ (m - f + 1) - s + 1 = m - t + 1
    BY <1>1, <1>3, <2>5, <2>9
  <2>11. M[t].role \in {"user", "answer"}
    BY <1>5, <2>5, <2>9
  <2>12. \A i \in 1 .. m - t + 1 : ctx[i] = M[t - 1 + i]
    <3> TAKE i \in 1 .. m - t + 1
    <3>1. ctx[i] = recent[s - 1 + i]
      BY <2>8, <2>10
    <3>2. /\ m \in Int /\ f \in Int /\ s \in Int /\ i \in Int /\ t = f - 1 + s
          /\ 1 =< s /\ 1 =< i /\ i =< m - t + 1
      BY <1>1, <1>3, <2>5, <2>9, <2>10
    <3>3. s - 1 + i \in 1 .. m - f + 1 /\ f - 1 + (s - 1 + i) = t - 1 + i
      BY ONLY <3>2
    <3> QED BY <1>5, <3>1, <3>3
  <2> QED BY <1>1, <2>7, <2>8, <2>10, <2>11, <2>12
<1> QED BY <1>7, <1>8

\* ... which is whole when nothing is pending.
LEMMA ContextIsWhole ==
  ASSUME NEW M, Whole(M, {}), NEW i \in DOMAIN Context(M)
  PROVE  /\ Context(M)[i].role = "calls" => \A c \in Context(M)[i].calls : Answered(Context(M), i, c)
         /\ Context(M)[i].role = "tool" =>
              \E k \in 1 .. i - 1 : Context(M)[k].role = "calls" /\ Context(M)[i].calls \subseteq Context(M)[k].calls
<1>1. M \in Seq(ThreadMessage)
  BY DEF Whole
<1>2. PICK ctx : ctx = Context(M)
  OBVIOUS
<1>3. ctx # <<>>
  <2>1. DOMAIN <<>> = {}
    OBVIOUS
  <2> QED BY <1>2, <2>1
<1>4. PICK m : m = Len(M) /\ m \in Nat /\ DOMAIN M = 1 .. m
  BY <1>1
<1>5. PICK s \in 1 .. m :
        /\ M[s].role \in {"user", "answer"}
        /\ ctx \in Seq(ThreadMessage) /\ Len(ctx) = m - s + 1
        /\ \A k \in 1 .. m - s + 1 : ctx[k] = M[s - 1 + k]
  BY <1>1, <1>2, <1>3, <1>4, ContextIsEnd
<1>6. PICK n : n = s - 1 + i
  OBVIOUS
<1>7. i \in 1 .. m - s + 1
  <2>1. DOMAIN ctx = 1 .. Len(ctx)
    BY <1>5
  <2> QED BY <1>2, <1>5, <2>1
<1>8. n \in s .. m /\ ctx[i] = M[n] /\ n \in DOMAIN M
  BY <1>4, <1>5, <1>6, <1>7
<1>9. ASSUME ctx[i].role = "calls", NEW c \in ctx[i].calls PROVE Answered(ctx, i, c)
  <2>1. Answered(M, n, c)
    BY <1>8, <1>9 DEF Whole
  <2>2. PICK k \in n + 1 .. m : M[k] = Msg("tool", {c})
    BY <1>4, <2>1 DEF Answered
  <2>3. k - s + 1 \in i + 1 .. m - s + 1 /\ s - 1 + (k - s + 1) = k
    BY <1>4, <1>5, <1>6, <1>7
  <2>4. ctx[k - s + 1] = M[k]
    <3>1. k - s + 1 \in 1 .. m - s + 1
      BY <1>7, <2>3
    <3> QED BY <1>5, <2>3, <3>1
  <2> QED BY <1>5, <2>2, <2>3, <2>4 DEF Answered
<1>10. ASSUME ctx[i].role = "tool" PROVE \E k \in 1 .. i - 1 : ctx[k].role = "calls" /\ ctx[i].calls \subseteq ctx[k].calls
  <2>1. Follows(M, n, ctx[i].calls)
    BY <1>8, <1>10 DEF Whole
  <2>2. PICK k \in 1 .. n - 1 : /\ M[k].role = "calls" /\ ctx[i].calls \subseteq M[k].calls
                                /\ \A l \in k + 1 .. n - 1 : M[l].role = "tool"
    BY <2>1 DEF Follows
  <2>3. s # n /\ s # k /\ s \notin k + 1 .. n - 1
    BY <1>5, <1>8, <1>10, <2>2
  <2>4. k - s + 1 \in 1 .. i - 1 /\ k - s + 1 \in 1 .. m - s + 1 /\ s - 1 + (k - s + 1) = k
    <3>1. s \in Int /\ k \in Int /\ n \in Int /\ m \in Int /\ i = n - s + 1
      BY <1>4, <1>6, <1>7, <1>8
    <3>2. 1 =< k /\ k =< n - 1 /\ 1 =< s /\ s =< n /\ n =< m
      BY <1>4, <1>8
    <3>3. s < k
      BY <2>3, <3>1, <3>2
    <3> QED BY <3>1, <3>2, <3>3
  <2>5. ctx[k - s + 1] = M[k]
    BY <1>5, <2>4
  <2> QED BY <2>2, <2>4, <2>5
<1> QED BY <1>2, <1>9, <1>10

\* A request goes on with a conversation that is whole.
LEMMA ConverseStep ==
  ASSUME AssistantInv, NEW w \in Workers, NEW pc \in {"model", "call", "save"}, NEW M, NEW P, NEW r,
         Converse(w, pc, M, P, r), Whole(M, P), pc = "model" => P = {}, pc = "call" => P # {},
         UNCHANGED <<thread, restarts>>, ran' \in [Writes -> Nat],
         AloneOK /\ (\A v \in Workers \ {w} : Idle(v)) =>
           \A c \in Writes : /\ ran'[c] =< 1 /\ (c \in P => ran'[c] = 0)
                             /\ ran'[c] > 0 => c \in CallsIn(M)
  PROVE  AssistantInv'
<1>1. PICK j : j = Job(pc, Thread, [messages |-> M, pending |-> P, round |-> r])
  OBVIOUS
<1>2. j.pc = pc /\ j.on = Thread /\ j.messages = M /\ j.pending = P
  <2>1. PICK fields : fields = [messages |-> M, pending |-> P, round |-> r]
    OBVIOUS
  <2>2. DOMAIN fields = {"messages", "pending", "round"} /\ fields["messages"] = M /\ fields["pending"] = P
    BY <2>1
  <2>3. \A x \in DOMAIN fields : x \notin {"pc", "on"} => j[x] = fields[x]
    BY <1>1, <2>1, JobFields
  <2>4. j.pc = pc /\ j.on = Thread
    BY <1>1, <2>1, JobFields
  <2> QED BY <2>2, <2>3, <2>4
<1>3. Continue(w, j)
  BY <1>1 DEF Converse
<1>4. DOMAIN job' = Workers /\ job'[w] = j /\ \A v \in Workers \ {w} : job'[v] = job[v]
  BY <1>3, ContinueJob DEF AssistantInv
<1>5. ConversationOK(j)
  BY <1>2 DEF ConversationOK
<1>6. \A v \in Workers : ConversationOK(job[v])' <=> ConversationOK(job'[v])
  BY DEF ConversationOK
<1>7. \A v \in Workers : ConversationOK(job[v])'
  BY <1>4, <1>5, <1>6 DEF AssistantInv
<1>8. ASSUME Thread \notin crowded', restarts' = 0 PROVE AloneOK'
  <2>1. Thread \notin crowded /\ \A v \in Workers \ {w} : job[v].on # Thread
    BY <1>2, <1>3, <1>8, ContinueAlone, AssistantAssumption DEF Thread
  <2>2. \A v \in Workers \ {w} : Idle(v)
    BY <2>1 DEF AssistantInv, ConversationOK, Idle, At
  <2>3. \A v \in Workers \ {w} : Idle(v)'
    BY <1>4, <2>2 DEF Idle, At
  <2>4. ~Idle(w)'
    BY <1>2, <1>4 DEF Idle, At
  <2>5. AloneOK
    BY <1>8, <2>1 DEF AssistantInv
  <2>6. \A c \in Writes : /\ ran'[c] =< 1 /\ (c \in P => ran'[c] = 0)
                          /\ ran'[c] > 0 => c \in CallsIn(M)
    BY <2>2, <2>5
  <2>7. RanOnce(job[w].messages, job[w].pending)'
    BY <1>2, <1>4, <2>6 DEF RanOnce
  <2> QED BY <2>3, <2>4, <2>7 DEF AloneOK
<1> QED BY <1>4, <1>7, <1>8 DEF AssistantInv

\* What ran is told by a conversation that goes on, with no more pending than before.
LEMMA RanOnceStays ==
  ASSUME NEW M, NEW P, NEW N, NEW Q, RanOnce(M, P), CallsIn(M) \subseteq CallsIn(N), Q \subseteq P
  PROVE  RanOnce(N, Q)
BY DEF RanOnce

LEMMA StartSendStep == ASSUME AssistantInv, NEW w \in Workers, StartSend(w) PROVE AssistantInv'
<1>1. PICK M, P : M = thread.messages /\ P = thread.pending
  OBVIOUS
<1>2. Whole(M, P)
  BY <1>1 DEF AssistantInv
<1>3. PICK N, s : N = M \o Results(P) /\ s = Msg("user", {})
  OBVIOUS
<1>4. Whole(N, {}) /\ Whole(Append(N, s), {})
  <2>1. Whole(N, {})
    BY <1>2, <1>3, ResultsCome
  <2> QED BY <1>3, <2>1, SaidNext
<1>5. Converse(w, "model", Append(N, s), {}, 1) /\ Idle(w) /\ UNCHANGED <<thread, ran, restarts>>
  BY <1>1, <1>3 DEF StartSend
<1>6. CallsIn(M) \subseteq CallsIn(Append(N, s))
  <2>1. M \in Seq(ThreadMessage) /\ N \in Seq(ThreadMessage) /\ P \in SUBSET (Reads \cup Writes)
    BY <1>2, <1>4 DEF Whole
  <2>2. Results(P) \in Seq(ThreadMessage)
    BY <2>1, ResultsOfCalls
  <2>3. s \in ThreadMessage
    BY <1>3 DEF Msg, ThreadMessage
  <2> QED BY <1>3, <2>1, <2>2, <2>3, CallsStayIn
<1>7. ASSUME AloneOK, \A v \in Workers \ {w} : Idle(v) PROVE RanOnce(Append(N, s), {})
  <2>1. RanOnce(M, P)
    BY <1>1, <1>5, <1>7 DEF AloneOK
  <2> QED BY <1>6, <2>1, RanOnceStays
<1>8. ran' \in [Writes -> Nat]
  BY <1>5 DEF AssistantInv
<1> QED BY <1>4, <1>5, <1>7, <1>8, ConverseStep DEF RanOnce

LEMMA StartConfirmStep == ASSUME AssistantInv, NEW w \in Workers, StartConfirm(w) PROVE AssistantInv'
<1>1. PICK M, P : M = thread.messages /\ P = thread.pending
  OBVIOUS
<1>2. Whole(M, P) /\ P # {} /\ Idle(w) /\ UNCHANGED <<thread, ran, restarts>>
  BY <1>1 DEF AssistantInv, StartConfirm
<1>3. ran' \in [Writes -> Nat]
  BY <1>2 DEF AssistantInv
<1>4. ASSUME AloneOK, \A v \in Workers \ {w} : Idle(v) PROVE RanOnce(M, P)
  BY <1>1, <1>2, <1>4 DEF AloneOK
<1>5. CASE Converse(w, "call", M, P, 1)
  BY <1>2, <1>3, <1>4, <1>5, ConverseStep DEF RanOnce
<1>6. CASE Converse(w, "model", M \o Results(P), {}, 1)
  <2>1. PICK N : N = M \o Results(P)
    OBVIOUS
  <2>2. Whole(N, {})
    BY <1>2, <2>1, ResultsCome
  <2>3. CallsIn(M) \subseteq CallsIn(N)
    <3>1. M \in Seq(ThreadMessage) /\ P \in SUBSET (Reads \cup Writes)
      BY <1>2 DEF Whole
    <3>2. Results(P) \in Seq(ThreadMessage)
      BY <3>1, ResultsOfCalls
    <3> QED BY <2>1, <3>1, <3>2, CallsStayIn
  <2>4. AloneOK /\ (\A v \in Workers \ {w} : Idle(v)) => RanOnce(N, {})
    BY <1>4, <2>3, RanOnceStays
  <2>5. Converse(w, "model", N, {}, 1)
    BY <1>6, <2>1
  <2> QED BY <1>2, <1>3, <2>2, <2>4, <2>5, ConverseStep DEF RanOnce
<1> QED BY <1>1, <1>5, <1>6 DEF StartConfirm

LEMMA CallStep == ASSUME AssistantInv, NEW w \in Workers, Call(w) PROVE AssistantInv'
<1>1. PICK M, P, c : M = job[w].messages /\ P = job[w].pending /\ c = CHOOSE x \in P : TRUE
  OBVIOUS
<1>2. Whole(M, P) /\ P # {} /\ ~Idle(w)
  BY <1>1 DEF AssistantInv, ConversationOK, Call, At, Idle
<1>3. c \in P
  BY <1>1, <1>2
<1>4. PICK N, Q, pc : /\ N = Append(M, Msg("tool", {c})) /\ Q = P \ {c}
                      /\ pc = (IF P = {c} THEN "model" ELSE "call")
  OBVIOUS
<1>5. /\ ran' = [ran EXCEPT ![c] = @ + 1] /\ Converse(w, pc, N, Q, 1)
      /\ UNCHANGED <<thread, restarts>>
  BY <1>1, <1>4 DEF Call
<1>6. pc \in {"model", "call", "save"} /\ (pc = "model" => Q = {}) /\ (pc = "call" => Q # {})
  BY <1>3, <1>4
<1>7. Whole(N, Q)
  BY <1>2, <1>3, <1>4, OneAnswer
<1>8. ran \in [Writes -> Nat]
  BY DEF AssistantInv
<1>9. ran' \in [Writes -> Nat]
  <2>1. CASE c \in Writes
    <3>1. PICK n : n = ran[c] + 1
      OBVIOUS
    <3>2. ran' = [ran EXCEPT ![c] = n] /\ n \in Nat
      BY <1>5, <1>8, <2>1, <3>1
    <3> QED BY <1>8, <3>2
  <2>2. CASE c \notin Writes
    BY <1>5, <1>8, <2>2
  <2> QED BY <2>1, <2>2
<1>10. CallsIn(M) \cup {c} \subseteq CallsIn(N)
  <2>1. M \in Seq(ThreadMessage) /\ P \subseteq Reads \cup Writes
    BY <1>2 DEF Whole
  <2>2. Msg("tool", {c}) \in ThreadMessage /\ Msg("tool", {c}).calls = {c}
    BY <1>3, <2>1 DEF Msg, ThreadMessage
  <2> QED BY <1>4, <2>1, <2>2, CallsStayIn
<1>11. ASSUME AloneOK, NEW d \in Writes
       PROVE  ran'[d] =< 1 /\ (d \in Q => ran'[d] = 0) /\ (ran'[d] > 0 => d \in CallsIn(N))
  <2>1. RanOnce(M, P)
    BY <1>1, <1>2, <1>11 DEF AloneOK
  <2>2. CASE d = c
    <3>1. ran[d] = 0 /\ ran'[d] = ran[d] + 1
      BY <1>3, <1>5, <1>8, <2>1, <2>2 DEF RanOnce
    <3>2. ran'[d] = 1
      BY <3>1
    <3>3. d \notin Q
      BY <1>4, <2>2
    <3>4. d \in CallsIn(N)
      BY <1>10, <2>2
    <3> QED BY <3>2, <3>3, <3>4
  <2>3. CASE d # c
    <3>1. ran'[d] = ran[d]
      BY <1>5, <1>8, <2>3
    <3> QED BY <1>4, <1>10, <2>1, <2>3, <3>1 DEF RanOnce
  <2> QED BY <2>2, <2>3
<1> QED BY <1>5, <1>6, <1>7, <1>9, <1>11, ConverseStep

LEMMA ModelStep == ASSUME AssistantInv, NEW w \in Workers, Model(w) PROVE AssistantInv'
<1>1. PICK M, r : M = job[w].messages /\ r = job[w].round
  OBVIOUS
<1>2. Whole(M, {}) /\ ~Idle(w) /\ job[w].pending = {} /\ UNCHANGED <<thread, ran, restarts>>
  BY <1>1 DEF AssistantInv, ConversationOK, Model, At, Idle
<1>3. ran \in [Writes -> Nat] /\ ran' \in [Writes -> Nat] /\ M \in Seq(ThreadMessage)
  BY <1>2 DEF AssistantInv, Whole
<1>4. AloneOK => RanOnce(M, {})
  BY <1>1, <1>2 DEF AloneOK
<1>5. CASE Converse(w, "save", M, {}, r)
  BY <1>2, <1>3, <1>4, <1>5, ConverseStep DEF RanOnce
<1>6. CASE Converse(w, "save", Append(M, Msg("answer", {})), {}, r)
  <2>1. PICK s : s = Msg("answer", {})
    OBVIOUS
  <2>2. PICK N : N = Append(M, s)
    OBVIOUS
  <2>3. Whole(N, {})
    BY <1>2, <2>1, <2>2, SaidNext
  <2>4. s \in ThreadMessage
    BY <2>1 DEF Msg, ThreadMessage
  <2>5. CallsIn(M) \subseteq CallsIn(N)
    BY <1>3, <2>2, <2>4, CallsStayIn
  <2>6. AloneOK => RanOnce(N, {})
    BY <1>4, <2>5, RanOnceStays
  <2>7. Converse(w, "save", N, {}, r)
    BY <1>6, <2>1, <2>2
  <2> QED BY <1>2, <1>3, <2>3, <2>6, <2>7, ConverseStep DEF RanOnce
<1>7. ASSUME NEW calls \in (SUBSET ((Reads \cup Writes) \ Drawn)) \ {{}},
             Converse(w, IF calls \cap Writes # {} \/ r = MAX_ROUNDS THEN "save" ELSE "model",
                      Append(M, Msg("calls", calls)) \o Results(calls \cap Reads), calls \cap Writes, r + 1)
      PROVE  AssistantInv'
  <2>1. PICK s : s = Msg("calls", calls)
    OBVIOUS
  <2>2. PICK L, T, Q : L = Append(M, s) /\ T = Results(calls \cap Reads) /\ Q = calls \cap Writes
    OBVIOUS
  <2>3. PICK N : N = L \o T
    OBVIOUS
  <2>4. PICK pc : pc = (IF calls \cap Writes # {} \/ r = MAX_ROUNDS THEN "save" ELSE "model")
    OBVIOUS
  <2>5. calls \in SUBSET (Reads \cup Writes) /\ calls \cap Drawn = {}
    OBVIOUS
  <2>6. Whole(L, calls)
    BY <1>2, <2>1, <2>2, <2>5, CallsMade
  <2>7. Whole(N, Q)
    BY <2>2, <2>3, <2>5, <2>6, ResultsCome
  <2>8. CallsIn(M) \cup calls \subseteq CallsIn(N)
    <3>1. s \in ThreadMessage /\ s.calls = calls
      BY <2>1, <2>5 DEF Msg, ThreadMessage
    <3>2. L \in Seq(ThreadMessage)
      BY <2>6 DEF Whole
    <3>3. calls \cap Reads \in SUBSET (Reads \cup Writes)
      OBVIOUS
    <3>4. T \in Seq(ThreadMessage)
      BY <2>2, <3>3, ResultsOfCalls
    <3> QED BY <1>3, <2>2, <2>3, <3>1, <3>2, <3>4, CallsStayIn
  <2>9. CallsIn(M) \subseteq Drawn
    <3>1. w \in {v \in Workers : ~Idle(v)}
      BY <1>2
    <3>2. \A i \in DOMAIN M : M[i] \in Range(job[w].messages)
      BY <1>1 DEF Range
    <3> QED BY <3>1, <3>2 DEF CallsIn, Drawn
  <2>10. ASSUME AloneOK, NEW d \in Writes
         PROVE  ran'[d] =< 1 /\ (d \in Q => ran'[d] = 0) /\ (ran'[d] > 0 => d \in CallsIn(N))
    <3>1. RanOnce(M, {})
      BY <1>4, <2>10
    <3>2. ran'[d] = ran[d] /\ ran[d] \in Nat
      BY <1>2, <1>3
    <3>3. d \in Q => d \notin CallsIn(M)
      BY <2>2, <2>5, <2>9
    <3> QED BY <2>8, <3>1, <3>2, <3>3 DEF RanOnce
  <2>11. Converse(w, pc, N, Q, r + 1)
    BY <1>7, <2>1, <2>2, <2>3, <2>4
  <2>12. pc \in {"model", "call", "save"} /\ (pc = "model" => Q = {}) /\ pc # "call"
    BY <2>2, <2>4
  <2> QED BY <1>2, <1>3, <2>7, <2>10, <2>11, <2>12, ConverseStep
<1> QED BY <1>1, <1>5, <1>6, <1>7 DEF Model

LEMMA SaveThreadStep == ASSUME AssistantInv, NEW w \in Workers, SaveThread(w) PROVE AssistantInv'
<1>1. PICK M, P : M = job[w].messages /\ P = job[w].pending
  OBVIOUS
<1>2. Whole(M, P) /\ ~Idle(w)
  BY <1>1 DEF AssistantInv, ConversationOK, SaveThread, At, Idle
<1>3. thread' = [messages |-> M, pending |-> P] /\ Continue(w, NoJob) /\ UNCHANGED <<ran, restarts>>
  BY <1>1 DEF SaveThread, Done
<1>4. thread'.messages = M /\ thread'.pending = P /\ NoJob.pc = "idle"
  BY <1>3 DEF NoJob
<1>5. DOMAIN job' = Workers /\ job'[w] = NoJob /\ \A v \in Workers \ {w} : job'[v] = job[v]
  BY <1>3, ContinueJob DEF AssistantInv
<1>6. \A v \in Workers : ConversationOK(job[v])' <=> ConversationOK(job'[v])
  BY DEF ConversationOK
<1>7. \A v \in Workers : ConversationOK(job[v])'
  <2>1. ConversationOK(NoJob)
    BY <1>4 DEF ConversationOK
  <2> QED BY <1>5, <1>6, <2>1 DEF AssistantInv
<1>8. ASSUME Thread \notin crowded', restarts' = 0 PROVE AloneOK'
  <2>1. Thread \notin crowded
    BY <1>3, <1>8, ContinueAlone, AssistantAssumption DEF Thread
  <2>2. AloneOK
    BY <1>3, <1>8, <2>1 DEF AssistantInv
  <2>3. \A v \in Workers \ {w} : Idle(v)
    BY <1>2, <2>2 DEF AloneOK
  <2>4. \A v \in Workers : Idle(v)'
    BY <1>4, <1>5, <2>3 DEF Idle, At
  <2>5. RanOnce(M, P)
    BY <1>1, <1>2, <2>2 DEF AloneOK
  <2>6. RanOnce(thread.messages, thread.pending)'
    BY <1>3, <1>4, <2>5 DEF RanOnce
  <2> QED BY <2>4, <2>6 DEF AloneOK
<1>9. Whole(thread.messages, thread.pending)'
  BY <1>2, <1>4
<1> QED BY <1>3, <1>5, <1>7, <1>8, <1>9 DEF AssistantInv

LEMMA QuietThreadStep == ASSUME AssistantInv, UNCHANGED <<thread, ran, restarts, requestVars>> PROVE AssistantInv'
<1>1. AloneOK => AloneOK'
  BY DEF requestVars, AloneOK, RanOnce, Idle, At
<1>2. \A v \in Workers : ConversationOK(job[v])' <=> ConversationOK(job[v])
  BY DEF ConversationOK, requestVars
<1> QED BY <1>1, <1>2 DEF AssistantInv, requestVars

LEMMA RestartThreadStep == ASSUME AssistantInv, Restart PROVE AssistantInv'
<1>1. restarts' \in Nat /\ restarts' # 0
  BY DEF AssistantInv, Restart
<1>2. ConversationOK(NoJob) /\ job' = [w \in Workers |-> NoJob]
  BY DEF ConversationOK, NoJob, Restart
<1>3. \A v \in Workers : ConversationOK(job[v])' <=> ConversationOK(job'[v])
  BY DEF ConversationOK
<1> QED BY <1>1, <1>2, <1>3 DEF AssistantInv, Restart

LEMMA AssistantStep == ASSUME AssistantInv, [AssistantNext]_assistantVars PROVE AssistantInv'
<1>1. CASE UNCHANGED assistantVars
  BY <1>1, QuietThreadStep DEF assistantVars
<1>2. ASSUME NEW w \in Workers, Reload(w) PROVE AssistantInv'
  BY <1>2, QuietThreadStep DEF Reload
<1> QED BY <1>1, <1>2, StartSendStep, StartConfirmStep, CallStep, ModelStep, SaveThreadStep, RestartThreadStep
        DEF AssistantNext

LEMMA AssistantStart == RequestsInit /\ AssistantInit => AssistantInv
<1> SUFFICES ASSUME RequestsInit, AssistantInit PROVE AssistantInv
  OBVIOUS
<1>1. thread.messages = <<>> /\ thread.pending = {} /\ DOMAIN <<>> = {} /\ <<>> \in Seq(ThreadMessage)
  BY DEF AssistantInit
<1>2. Whole(thread.messages, thread.pending)
  BY <1>1 DEF Whole
<1>3. ran \in [Writes -> Nat] /\ \A c \in Writes : ran[c] = 0
  BY DEF AssistantInit
<1>4. \A w \in Workers : job[w] = NoJob /\ Idle(w)
  BY DEF RequestsInit, Idle, At, NoJob
<1>5. RanOnce(thread.messages, thread.pending)
  BY <1>3 DEF RanOnce
<1>6. AloneOK
  BY <1>4, <1>5 DEF AloneOK
<1>7. ConversationOK(NoJob)
  BY DEF ConversationOK, NoJob
<1> QED BY <1>2, <1>3, <1>4, <1>6, <1>7 DEF AssistantInv, RequestsInit, AssistantInit

LEMMA AssistantAlways == AssistantSpec => []AssistantInv
BY AssistantStart, AssistantStep, PTL DEF AssistantSpec

\* Whatever requests overlap, are superseded, fail or are cut off by a restart, and however long the conversation
\* has become: in what converse of workbench.js sends to the model, every call has its answer and every answer its call.
THEOREM RequestsAreWhole == AssistantSpec => []RequestIsWhole
<1>1. AssistantInv => RequestIsWhole
  <2> SUFFICES ASSUME AssistantInv, NEW w \in Workers, At(w, "model"),
                      NEW ctx, ctx = Context(job[w].messages), NEW i \in DOMAIN ctx
               PROVE  /\ ctx[i].role = "calls" => \A c \in ctx[i].calls : Answered(ctx, i, c)
                      /\ ctx[i].role = "tool" => \E k \in 1 .. i - 1 : ctx[k].role = "calls" /\ ctx[i].calls \subseteq ctx[k].calls
    BY DEF RequestIsWhole
  <2>1. PICK M : M = job[w].messages
    OBVIOUS
  <2>2. Whole(M, {})
    BY <2>1 DEF AssistantInv, ConversationOK, At
  <2> QED BY <2>1, <2>2, ContextIsWhole
<1> QED BY <1>1, AssistantAlways, PTL

\* For any number of calls, rounds and messages: a call the analyst approved (confirm of workbench.js) runs once, as
\* long as requests on the thread do not overlap and the server does not restart.
THEOREM ApprovedCallsRunOnce == AssistantSpec => []CallRunsOnce
<1>1. AssistantInv => CallRunsOnce
  <2> SUFFICES ASSUME AssistantInv, Thread \notin crowded, restarts = 0, NEW c \in Writes PROVE ran[c] =< 1
    BY DEF CallRunsOnce
  <2>1. AloneOK
    BY DEF AssistantInv
  <2> QED BY <2>1 DEF AloneOK, RanOnce
<1> QED BY <1>1, AssistantAlways, PTL

-----------------------------------------------------------------------------
(* Custom rules. *)

Creating(w) == At(w, "write_rule") /\ job[w].new

\* The rules that have been stored at some time.
Born == used \ {job[w].rule : w \in {v \in Workers : Creating(v)}}

HitsOK(hits) == DOMAIN hits \subseteq Born /\ \A r \in DOMAIN hits : hits[r] \subseteq Lines

RuleJobOK(j) ==
  /\ {"pc", "on"} \subseteq DOMAIN j
  /\ \/ j.pc = "idle" /\ j.on = None
     \/ j.pc \in {"remove_rule", "invalidate"} /\ j.on = Set
     \/ j.pc = "write_rule" /\ j.on = Set /\ {"rule", "patch", "new"} \subseteq DOMAIN j /\ j.new \in BOOLEAN
         /\ IF j.new THEN j.rule \in used /\ j.patch.hits = 0 /\ DOMAIN j.patch = {"source", "enabled", "hits"}
            ELSE DOMAIN j.patch \subseteq {"source", "enabled"}
     \/ j.pc = "compile" /\ j.on = Set /\ DOMAIN j.set \subseteq Born /\ j.batch \subseteq Lines
     \/ j.pc \in {"read_hits", "write_hits"} /\ j.on \in DOMAIN j.hits /\ HitsOK(j.hits)

RuleRows ==
  /\ used \subseteq RuleIds /\ DOMAIN rules \subseteq Born
  /\ \A r \in DOMAIN rules : {"source", "enabled", "hits"} \subseteq DOMAIN rules[r]
  /\ fired \in [RuleIds -> Nat] /\ \A r \in RuleIds \ Born : fired[r] = 0
  /\ compiled # None => {"set", "fresh"} \subseteq DOMAIN compiled /\ DOMAIN compiled.set \subseteq Born

\* The one request at work on the rules: the cache is theirs until one is written, and what was listed still is.
OneOnSet ==
  /\ \A v, w \in Workers : job[v].on = Set /\ job[w].on = Set => v = w
  /\ Cached /\ (\A w \in Workers : ~At(w, "invalidate")) => compiled.set = Enabled
  /\ \A w \in Workers : At(w, "compile") => job[w].set = Enabled

\* The one batch that counts a rule has read its count as it is.
OneCounts(r) ==
  /\ \A v, w \in Workers : job[v].on = r /\ job[w].on = r => v = w
  /\ r \in DOMAIN rules =>
       /\ rules[r].hits = fired[r]
       /\ \A w \in Workers : At(w, "write_hits") /\ job[w].on = r => job[w].was = fired[r]

CustomInv ==
  /\ RuleRows
  /\ DOMAIN job = Workers /\ \A w \in Workers : RuleJobOK(job[w])
  /\ \A v, w \in Workers : Creating(v) /\ Creating(w) /\ job[v].rule = job[w].rule => v = w
  /\ Set \notin crowded => OneOnSet
  /\ \A r \in RuleIds \ crowded : OneCounts(r)

\* An object that two requests did not meet on is still one request's after a step.
LEMMA StillAlone ==
  ASSUME NEW w \in Workers, NEW j, Continue(w, j), NEW x, x # None, x \notin crowded', DOMAIN job = Workers,
         x \notin crowded => \A u, v \in Workers : job[u].on = x /\ job[v].on = x => u = v
  PROVE  \A u, v \in Workers : job'[u].on = x /\ job'[v].on = x => u = v
<1>1. job'[w] = j /\ \A v \in Workers \ {w} : job'[v] = job[v]
  BY ContinueJob
<1>2. x \notin crowded /\ (j.on = x => \A v \in Workers \ {w} : job[v].on # x)
  BY ContinueAlone
<1> QED BY <1>1, <1>2

\* What a step that stores no new rule leaves of who creates what.
LEMMA BornKept ==
  ASSUME CustomInv, NEW w \in Workers, NEW j, Continue(w, j), j.pc # "write_rule" \/ ~j.new, used' = used
  PROVE  /\ \A v \in Workers \ {w} : Creating(v)' <=> Creating(v)
         /\ ~Creating(w)'
         /\ Born \subseteq Born'
         /\ ~Creating(w) => Born' = Born
         /\ \A u, v \in Workers : Creating(u)' /\ Creating(v)' /\ job'[u].rule = job'[v].rule => u = v
<1>1. job'[w] = j /\ \A v \in Workers \ {w} : job'[v] = job[v]
  BY ContinueJob DEF CustomInv
<1>2. /\ \A v \in Workers \ {w} : Creating(v)' <=> Creating(v)
      /\ ~Creating(w)'
  BY <1>1 DEF Creating, At
<1>3. Born \subseteq Born' /\ (~Creating(w) => Born' = Born)
  BY <1>1, <1>2 DEF Born
<1>4. ASSUME NEW u \in Workers, NEW v \in Workers, Creating(u)', Creating(v)', job'[u].rule = job'[v].rule
      PROVE  u = v
  <2>1. u # w /\ v # w
    BY <1>2, <1>4
  <2>2. Creating(u) /\ Creating(v) /\ job[u].rule = job[v].rule
    BY <1>1, <1>2, <1>4, <2>1
  <2> QED BY <2>2 DEF CustomInv
<1> QED BY <1>2, <1>3, <1>4

\* What a step leaves of the requests it is not about.
LEMMA JobsKept ==
  ASSUME CustomInv, NEW w \in Workers, NEW j, Continue(w, j), RuleJobOK(j)',
         used \subseteq used', Born \subseteq Born'
  PROVE  DOMAIN job' = Workers /\ \A v \in Workers : RuleJobOK(job[v])'
<1>1. DOMAIN job' = Workers /\ job'[w] = j /\ \A v \in Workers \ {w} : job'[v] = job[v]
  BY ContinueJob DEF CustomInv
<1>2. ASSUME NEW v \in Workers \ {w} PROVE RuleJobOK(job[v])'
  <2>1. PICK k : k = job[v]
    OBVIOUS
  <2>2. RuleJobOK(k) /\ job'[v] = k
    BY <1>1, <2>1 DEF CustomInv
  <2>3. RuleJobOK(k)'
    BY <2>2 DEF RuleJobOK, HitsOK
  <2> QED BY <2>2, <2>3 DEF RuleJobOK, HitsOK
<1>3. RuleJobOK(job[w])'
  BY <1>1 DEF RuleJobOK, HitsOK
<1> QED BY <1>1, <1>2, <1>3

\* A step that changes no row.
LEMMA RowsQuiet ==
  ASSUME CustomInv, NEW w \in Workers, NEW j, Continue(w, j), RuleJobOK(j), j.pc # "write_rule" \/ ~j.new, ~Creating(w),
         UNCHANGED <<rules, used, fired>>,
         j.pc = "compile" => j.set = Enabled,
         j.pc = "write_hits" /\ j.on \in DOMAIN rules /\ j.on \notin crowded => j.was = fired[j.on],
         \/ compiled' = compiled /\ ~At(w, "invalidate")
         \/ compiled' = None
         \/ compiled' = [set |-> job[w].set, fresh |-> TRUE] /\ At(w, "compile")
  PROVE  CustomInv'
<1>1. DOMAIN job' = Workers /\ job'[w] = j /\ \A v \in Workers \ {w} : job'[v] = job[v]
  BY ContinueJob DEF CustomInv
<1>2. Born' = Born /\ \A u, v \in Workers : Creating(u)' /\ Creating(v)' /\ job'[u].rule = job'[v].rule => u = v
  BY BornKept
<1>3. RuleJobOK(j)'
  BY <1>2 DEF RuleJobOK, HitsOK
<1>4. \A v \in Workers : RuleJobOK(job[v])'
  BY <1>2, <1>3, JobsKept
<1>5. RuleRows'
  <2>1. DOMAIN rules' \subseteq Born' /\ \A r \in RuleIds \ Born' : fired'[r] = 0
    BY <1>2 DEF CustomInv, RuleRows
  <2>2. compiled' # None => {"set", "fresh"} \subseteq DOMAIN compiled' /\ DOMAIN compiled'.set \subseteq Born'
    <3>1. CASE compiled' = compiled
      BY <1>2, <3>1 DEF CustomInv, RuleRows
    <3>2. CASE compiled' = [set |-> job[w].set, fresh |-> TRUE] /\ At(w, "compile")
      <4>1. DOMAIN job[w].set \subseteq Born
        BY <3>2 DEF CustomInv, RuleJobOK, At
      <4> QED BY <1>2, <3>2, <4>1
    <3> QED BY <3>1, <3>2
  <2> QED BY <2>1, <2>2 DEF CustomInv, RuleRows
<1>6. ASSUME Set \notin crowded' PROVE OneOnSet'
  <2>1. Set \notin crowded /\ OneOnSet /\ (j.on = Set => \A v \in Workers \ {w} : job[v].on # Set)
    BY <1>6, ContinueAlone, CustomRulesAssumption DEF CustomInv
  <2>2. \A u, v \in Workers : job'[u].on = Set /\ job'[v].on = Set => u = v
    BY <1>6, <2>1, StillAlone, CustomRulesAssumption DEF CustomInv, OneOnSet
  <2>3. Enabled' = Enabled
    BY DEF Enabled
  <2>4. ASSUME Cached', \A v \in Workers : ~At(v, "invalidate")' PROVE compiled'.set = Enabled'
    <3>1. CASE compiled' = compiled /\ ~At(w, "invalidate")
      <4>1. \A v \in Workers : ~At(v, "invalidate")
        BY <1>1, <2>4, <3>1 DEF At
      <4> QED BY <2>1, <2>3, <2>4, <3>1, <4>1 DEF OneOnSet, Cached
    <3>2. CASE compiled' = [set |-> job[w].set, fresh |-> TRUE] /\ At(w, "compile")
      <4>1. job[w].set = Enabled
        BY <2>1, <3>2 DEF OneOnSet
      <4> QED BY <2>3, <3>2, <4>1
    <3>3. compiled' # None
      BY <2>4 DEF Cached
    <3> QED BY <3>1, <3>2, <3>3
  <2>5. ASSUME NEW v \in Workers, At(v, "compile")' PROVE job'[v].set = Enabled'
    BY <1>1, <2>1, <2>3, <2>5 DEF OneOnSet, At
  <2> QED BY <2>2, <2>4, <2>5 DEF OneOnSet
<1>7. ASSUME NEW r \in RuleIds \ crowded' PROVE OneCounts(r)'
  <2>1. r \notin crowded /\ r # None /\ (j.on = r => \A v \in Workers \ {w} : job[v].on # r)
    BY ContinueAlone, CustomRulesAssumption
  <2>2. OneCounts(r)
    BY <2>1 DEF CustomInv
  <2>3. \A u, v \in Workers : job'[u].on = r /\ job'[v].on = r => u = v
    BY <2>1, <2>2, StillAlone DEF CustomInv, OneCounts
  <2>4. ASSUME r \in DOMAIN rules', NEW v \in Workers, At(v, "write_hits")', job'[v].on = r
        PROVE  job'[v].was = fired'[r]
    BY <1>1, <2>1, <2>2, <2>4 DEF OneCounts, At
  <2>5. r \in DOMAIN rules' => rules'[r].hits = fired'[r]
    BY <2>2 DEF OneCounts
  <2> QED BY <2>3, <2>4, <2>5 DEF OneCounts
<1> QED BY <1>1, <1>2, <1>4, <1>5, <1>6, <1>7 DEF CustomInv

\* What is left to count names stored rules and lines they matched.
LEMMA CountJob ==
  ASSUME NEW w, NEW hits, HitsOK(hits), CountNext(w, hits)
  PROVE  \E j : Continue(w, j) /\ RuleJobOK(j) /\ j.pc \in {"idle", "read_hits"}
<1>1. CASE DOMAIN hits = {}
  BY <1>1 DEF CountNext, Done, NoJob, RuleJobOK
<1>2. CASE DOMAIN hits # {}
  <2>1. PICK r \in DOMAIN hits : Continue(w, Job("read_hits", r, [hits |-> hits]))
    BY <1>2 DEF CountNext
  <2>2. DOMAIN [hits |-> hits] = {"hits"}
    OBVIOUS
  <2>3. PICK j : j = Job("read_hits", r, [hits |-> hits])
    OBVIOUS
  <2>4. {"pc", "on"} \subseteq DOMAIN j /\ j.pc = "read_hits" /\ j.on = r /\ j.hits = hits
    BY <2>2, <2>3, JobFields
  <2> QED BY <2>1, <2>3, <2>4 DEF RuleJobOK
<1> QED BY <1>1, <1>2

\* A batch is matched against rules that have been stored.
LEMMA ScannedJob ==
  ASSUME NEW w, NEW set, NEW batch, DOMAIN set \subseteq Born, batch \subseteq Lines, Scanned(w, set, batch)
  PROVE  \E j : Continue(w, j) /\ RuleJobOK(j) /\ j.pc \in {"idle", "read_hits"}
<1> DEFINE hits == [r \in {r \in DOMAIN set : MatchedBy(set[r], batch) # {}} |-> MatchedBy(set[r], batch)]
<1>1. \A source : MatchedBy(source, batch) \subseteq Lines
  BY DEF MatchedBy
<1>2. HitsOK(hits)
  BY <1>1 DEF HitsOK
<1>3. CountNext(w, hits)
  BY DEF Scanned
<1> QED BY <1>2, <1>3, CountJob

LEMMA CreateStep == ASSUME CustomInv, NEW w \in Workers, StartCreate(w) PROVE CustomInv'
<1>1. PICK r \in RuleIds \ used, s \in Sources, b \in BOOLEAN :
        /\ used' = used \cup {r}
        /\ Continue(w, Job("write_rule", Set, [rule |-> r, patch |-> [source |-> s, enabled |-> b, hits |-> 0], new |-> TRUE]))
  BY DEF StartCreate
<1>2. PICK j : j = Job("write_rule", Set, [rule |-> r, patch |-> [source |-> s, enabled |-> b, hits |-> 0], new |-> TRUE])
  OBVIOUS
<1>3. /\ {"pc", "on", "rule", "patch", "new"} \subseteq DOMAIN j /\ j.pc = "write_rule" /\ j.on = Set
      /\ j.rule = r /\ j.new = TRUE /\ j.patch.hits = 0 /\ DOMAIN j.patch = {"source", "enabled", "hits"}
  <2>1. DOMAIN [rule |-> r, patch |-> [source |-> s, enabled |-> b, hits |-> 0], new |-> TRUE] = {"rule", "patch", "new"}
    OBVIOUS
  <2>2. j.patch = [source |-> s, enabled |-> b, hits |-> 0]
    BY <1>2, <2>1, JobFields
  <2> QED BY <1>2, <2>1, <2>2, JobFields
<1>4. DOMAIN job' = Workers /\ job'[w] = j /\ \A v \in Workers \ {w} : job'[v] = job[v]
  BY <1>1, <1>2, ContinueJob DEF CustomInv
<1>5. Creating(w)' /\ ~Creating(w) /\ \A v \in Workers \ {w} : Creating(v)' <=> Creating(v)
  BY <1>3, <1>4 DEF Creating, At, StartCreate, Idle
<1>6. \A v \in Workers : Creating(v) => job[v].rule \in used
  BY DEF CustomInv, RuleJobOK, Creating, At
<1>7. Born' = Born
  BY <1>1, <1>3, <1>4, <1>5, <1>6 DEF Born
<1>8. \A u, v \in Workers : Creating(u)' /\ Creating(v)' /\ job'[u].rule = job'[v].rule => u = v
  <2> SUFFICES ASSUME NEW u \in Workers, NEW v \in Workers, Creating(u)', Creating(v)', job'[u].rule = job'[v].rule
               PROVE  u = v
    OBVIOUS
  <2>1. \A x \in Workers \ {w} : Creating(x)' => job'[x].rule # r
    BY <1>1, <1>4, <1>5, <1>6
  <2>2. job'[w].rule = r
    BY <1>3, <1>4
  <2>3. CASE u = w \/ v = w
    BY <2>1, <2>2, <2>3
  <2>4. CASE u # w /\ v # w
    BY <1>4, <1>5, <2>4 DEF CustomInv
  <2> QED BY <2>3, <2>4
<1>9. RuleJobOK(j)'
  BY <1>1, <1>3 DEF RuleJobOK
<1>10. \A v \in Workers : RuleJobOK(job[v])'
  BY <1>1, <1>2, <1>7, <1>9, JobsKept
<1>11. RuleRows'
  BY <1>1, <1>7 DEF StartCreate, CustomInv, RuleRows
<1>12. ASSUME Set \notin crowded' PROVE OneOnSet'
  <2>1. Set \notin crowded /\ OneOnSet
    BY <1>1, <1>2, <1>12, ContinueAlone, CustomRulesAssumption DEF CustomInv
  <2>2. \A u, v \in Workers : job'[u].on = Set /\ job'[v].on = Set => u = v
    BY <1>1, <1>2, <1>12, <2>1, StillAlone, CustomRulesAssumption DEF CustomInv, OneOnSet
  <2>3. Enabled' = Enabled /\ compiled' = compiled
    BY DEF StartCreate, Enabled
  <2>4. \A pc \in {"invalidate", "compile"}, v \in Workers : At(v, pc)' <=> At(v, pc)
    BY <1>3, <1>4 DEF At, StartCreate, Idle
  <2>5. \A v \in Workers : At(v, "compile")' => job'[v].set = job[v].set
    BY <1>3, <1>4 DEF At
  <2> QED BY <2>1, <2>2, <2>3, <2>4, <2>5 DEF OneOnSet, Cached
<1>13. ASSUME NEW x \in RuleIds \ crowded' PROVE OneCounts(x)'
  <2>1. x \notin crowded /\ x # None
    BY <1>1, <1>2, ContinueAlone, CustomRulesAssumption
  <2>2. OneCounts(x)
    BY <2>1 DEF CustomInv
  <2>3. \A u, v \in Workers : job'[u].on = x /\ job'[v].on = x => u = v
    BY <1>1, <1>2, <2>1, <2>2, StillAlone DEF CustomInv, OneCounts
  <2>4. \A v \in Workers : At(v, "write_hits")' => At(v, "write_hits") /\ job'[v] = job[v]
    BY <1>3, <1>4 DEF At
  <2>5. rules' = rules /\ fired' = fired
    BY DEF StartCreate
  <2> QED BY <2>2, <2>3, <2>4, <2>5 DEF OneCounts
<1> QED BY <1>4, <1>8, <1>10, <1>11, <1>12, <1>13 DEF CustomInv

LEMMA EditRuleStep == ASSUME CustomInv, NEW w \in Workers, StartEdit(w) \/ StartDeleteRule(w) PROVE CustomInv'
<1>1. ~Creating(w) /\ ~At(w, "invalidate") /\ UNCHANGED <<rules, used, fired, compiled>>
  BY DEF StartEdit, StartDeleteRule, Idle, At, Creating
<1>2. ASSUME NEW pc \in {"write_rule", "remove_rule"}, NEW r, NEW patch, DOMAIN patch \subseteq {"source", "enabled"},
             Continue(w, Job(pc, Set, [rule |-> r, patch |-> patch, new |-> FALSE]))
      PROVE  CustomInv'
  <2>1. PICK j : j = Job(pc, Set, [rule |-> r, patch |-> patch, new |-> FALSE])
    OBVIOUS
  <2>2. DOMAIN [rule |-> r, patch |-> patch, new |-> FALSE] = {"rule", "patch", "new"}
    OBVIOUS
  <2>3. /\ {"pc", "on", "rule", "patch", "new"} \subseteq DOMAIN j /\ j.pc = pc /\ j.on = Set
        /\ j.new = FALSE /\ j.patch = patch
    BY <2>1, <2>2, JobFields
  <2>4. RuleJobOK(j)
    BY <1>2, <2>3 DEF RuleJobOK
  <2> QED BY <1>1, <1>2, <2>1, <2>3, <2>4, RowsQuiet
<1>3. CASE StartEdit(w)
  <2>1. PICK r \in DOMAIN rules, b \in BOOLEAN, s \in {s \in Sources : Lints(s)} :
          \E patch \in {[source |-> s], [source |-> s, enabled |-> b], [source |-> rules[r].source, enabled |-> b]} :
            Continue(w, Job("write_rule", Set, [rule |-> r, patch |-> patch, new |-> FALSE]))
    BY <1>3 DEF StartEdit
  <2>2. PICK patch : /\ patch \in {[source |-> s], [source |-> s, enabled |-> b], [source |-> rules[r].source, enabled |-> b]}
                     /\ Continue(w, Job("write_rule", Set, [rule |-> r, patch |-> patch, new |-> FALSE]))
    BY <2>1
  <2>3. DOMAIN patch \subseteq {"source", "enabled"}
    BY <2>2
  <2> QED BY <1>2, <2>2, <2>3
<1>4. CASE StartDeleteRule(w)
  <2>1. DOMAIN <<>> \subseteq {"source", "enabled"}
    OBVIOUS
  <2> QED BY <1>2, <1>4, <2>1 DEF StartDeleteRule
<1> QED BY <1>3, <1>4

LEMMA InvalidateStep == ASSUME CustomInv, NEW w \in Workers, Invalidate(w) PROVE CustomInv'
<1>1. PICK j : j = NoJob
  OBVIOUS
<1>2. RuleJobOK(j) /\ j.pc = "idle"
  BY <1>1 DEF NoJob, RuleJobOK
<1> QED BY <1>1, <1>2, RowsQuiet DEF Invalidate, Done, Creating, At

LEMMA ScanStep ==
  ASSUME CustomInv, NEW w \in Workers, ScanCached(w) \/ ListRules(w) \/ CompileRules(w) PROVE CustomInv'
<1>1. CASE ScanCached(w)
  <2>1. PICK batch \in SUBSET Lines : Scanned(w, compiled.set, batch)
    BY <1>1 DEF ScanCached
  <2>2. DOMAIN compiled.set \subseteq Born
    BY <1>1 DEF ScanCached, Cached, CustomInv, RuleRows
  <2>3. PICK j : Continue(w, j) /\ RuleJobOK(j) /\ j.pc \in {"idle", "read_hits"}
    BY <2>1, <2>2, ScannedJob
  <2> QED BY <1>1, <2>3, RowsQuiet DEF ScanCached, Idle, At, Creating
<1>2. CASE ListRules(w)
  <2>1. PICK batch \in SUBSET Lines : Continue(w, Job("compile", Set, [set |-> Enabled, batch |-> batch]))
    BY <1>2 DEF ListRules
  <2>2. PICK j : j = Job("compile", Set, [set |-> Enabled, batch |-> batch])
    OBVIOUS
  <2>3. DOMAIN [set |-> Enabled, batch |-> batch] = {"set", "batch"}
    OBVIOUS
  <2>4. /\ {"pc", "on"} \subseteq DOMAIN j /\ j.pc = "compile" /\ j.on = Set
        /\ j.set = Enabled /\ j.batch = batch
    BY <2>2, <2>3, JobFields
  <2>5. RuleJobOK(j)
    BY <2>4 DEF RuleJobOK, Enabled, CustomInv, RuleRows
  <2> QED BY <1>2, <2>1, <2>2, <2>4, <2>5, RowsQuiet DEF ListRules, Idle, At, Creating
<1>3. CASE CompileRules(w)
  <2>1. DOMAIN job[w].set \subseteq Born /\ job[w].batch \subseteq Lines
    BY <1>3 DEF CompileRules, At, CustomInv, RuleJobOK
  <2>2. PICK j : Continue(w, j) /\ RuleJobOK(j) /\ j.pc \in {"idle", "read_hits"}
    BY <1>3, <2>1, ScannedJob DEF CompileRules
  <2> QED BY <1>3, <2>2, RowsQuiet DEF CompileRules, At, Creating
<1> QED BY <1>1, <1>2, <1>3

LEMMA ReadHitsStep == ASSUME CustomInv, NEW w \in Workers, ReadHits(w) PROVE CustomInv'
<1>1. PICK on, hits, was : on = job[w].on /\ hits = job[w].hits /\ was = IF on \in DOMAIN rules THEN rules[on].hits ELSE None
  OBVIOUS
<1>2. PICK j : j = Job("write_hits", on, [hits |-> hits, was |-> was])
  OBVIOUS
<1>3. Continue(w, j)
  BY <1>1, <1>2 DEF ReadHits
<1>4. on \in DOMAIN hits /\ HitsOK(hits)
  BY <1>1 DEF ReadHits, At, CustomInv, RuleJobOK
<1>5. /\ {"pc", "on"} \subseteq DOMAIN j /\ j.pc = "write_hits" /\ j.on = on
      /\ j.hits = hits /\ j.was = was
  <2>1. DOMAIN [hits |-> hits, was |-> was] = {"hits", "was"}
    OBVIOUS
  <2> QED BY <1>2, <2>1, JobFields
<1>6. RuleJobOK(j)
  BY <1>4, <1>5 DEF RuleJobOK
<1>7. on \in RuleIds
  BY <1>4 DEF HitsOK, Born, CustomInv, RuleRows
<1>8. on \in DOMAIN rules /\ on \notin crowded => was = fired[on]
  BY <1>1, <1>7 DEF CustomInv, OneCounts
<1> QED BY <1>3, <1>5, <1>6, <1>8, RowsQuiet DEF ReadHits, At, Creating

LEMMA RemoveRuleStep == ASSUME CustomInv, NEW w \in Workers, RemoveRule(w) PROVE CustomInv'
<1>1. PICK k : k = job[w]
  OBVIOUS
<1>2. PICK j : j = [k EXCEPT !.pc = "invalidate"]
  OBVIOUS
<1>3. k.pc = "remove_rule" /\ k.on = Set /\ {"pc", "on"} \subseteq DOMAIN k
  BY <1>1 DEF RemoveRule, At, CustomInv, RuleJobOK
<1>4. {"pc", "on"} \subseteq DOMAIN j /\ j.pc = "invalidate" /\ j.on = Set
  BY <1>2, <1>3
<1>5. Continue(w, j) /\ rules' = Restrict(rules, DOMAIN rules \ {k.rule}) /\ UNCHANGED <<compiled, used, fired>>
  BY <1>1, <1>2 DEF RemoveRule
<1>6. DOMAIN job' = Workers /\ job'[w] = j /\ \A v \in Workers \ {w} : job'[v] = job[v]
  BY <1>5, ContinueJob DEF CustomInv
<1>7. DOMAIN rules' \subseteq DOMAIN rules /\ \A r \in DOMAIN rules' : rules'[r] = rules[r]
  BY <1>5 DEF Restrict
<1>8. Born' = Born /\ \A u, v \in Workers : Creating(u)' /\ Creating(v)' /\ job'[u].rule = job'[v].rule => u = v
  BY <1>1, <1>3, <1>4, <1>5, BornKept DEF Creating, At
<1>9. \A v \in Workers : RuleJobOK(job[v])'
  BY <1>4, <1>5, <1>8, JobsKept DEF RuleJobOK
<1>10. RuleRows'
  BY <1>5, <1>7, <1>8 DEF CustomInv, RuleRows
<1>11. ASSUME Set \notin crowded' PROVE OneOnSet'
  <2>1. Set \notin crowded /\ OneOnSet /\ \A v \in Workers \ {w} : job[v].on # Set
    BY <1>4, <1>5, <1>11, ContinueAlone, CustomRulesAssumption DEF CustomInv
  <2>2. \A u, v \in Workers : job'[u].on = Set /\ job'[v].on = Set => u = v
    BY <1>6, <2>1
  <2>3. At(w, "invalidate")'
    BY <1>4, <1>6 DEF At
  <2>4. \A v \in Workers : ~At(v, "compile")'
    BY <1>4, <1>6, <2>1 DEF At, CustomInv, RuleJobOK
  <2> QED BY <2>2, <2>3, <2>4 DEF OneOnSet
<1>12. ASSUME NEW x \in RuleIds \ crowded' PROVE OneCounts(x)'
  <2>1. x \notin crowded /\ x # None
    BY <1>5, ContinueAlone, CustomRulesAssumption
  <2>2. OneCounts(x)
    BY <2>1 DEF CustomInv
  <2>3. \A u, v \in Workers : job'[u].on = x /\ job'[v].on = x => u = v
    BY <1>5, <2>1, <2>2, StillAlone DEF CustomInv, OneCounts
  <2>4. \A v \in Workers : At(v, "write_hits")' => At(v, "write_hits") /\ job'[v] = job[v]
    BY <1>4, <1>6 DEF At
  <2> QED BY <1>5, <1>7, <2>2, <2>3, <2>4 DEF OneCounts
<1> QED BY <1>6, <1>8, <1>9, <1>10, <1>11, <1>12 DEF CustomInv

LEMMA WriteRuleStep == ASSUME CustomInv, NEW w \in Workers, WriteRule(w) PROVE CustomInv'
<1>1. PICK k, r, patch : k = job[w] /\ r = k.rule /\ patch = k.patch
  OBVIOUS
<1>2. PICK j : j = [k EXCEPT !.pc = "invalidate"]
  OBVIOUS
<1>3. /\ k.pc = "write_rule" /\ k.on = Set /\ {"pc", "on"} \subseteq DOMAIN k /\ k.new \in BOOLEAN
      /\ k.new => r \in used /\ patch.hits = 0 /\ DOMAIN patch = {"source", "enabled", "hits"}
      /\ ~k.new => DOMAIN patch \subseteq {"source", "enabled"}
  BY <1>1 DEF WriteRule, At, CustomInv, RuleJobOK
<1>4. {"pc", "on"} \subseteq DOMAIN j /\ j.pc = "invalidate" /\ j.on = Set
  BY <1>2, <1>3
<1>5. /\ Continue(w, j) /\ UNCHANGED <<compiled, used, fired>>
      /\ rules' = IF k.new THEN Patched(rules, [x \in {r} |-> patch])
                  ELSE IF r \in DOMAIN rules THEN [rules EXCEPT ![r] = Patched(rules[r], patch)] ELSE rules
  BY <1>1, <1>2 DEF WriteRule
<1>6. DOMAIN job' = Workers /\ job'[w] = j /\ \A v \in Workers \ {w} : job'[v] = job[v]
  BY <1>5, ContinueJob DEF CustomInv
<1>7. /\ Born \subseteq Born' /\ ~Creating(w)' /\ \A v \in Workers \ {w} : Creating(v)' <=> Creating(v)
      /\ \A u, v \in Workers : Creating(u)' /\ Creating(v)' /\ job'[u].rule = job'[v].rule => u = v
  BY <1>4, <1>5, BornKept
<1>8. k.new => r \in RuleIds /\ r \notin Born /\ r \in Born'
  <2> SUFFICES ASSUME k.new PROVE r \in RuleIds /\ r \notin Born /\ r \in Born'
    OBVIOUS
  <2>1. Creating(w) /\ job[w].rule = r
    BY <1>1, <1>3 DEF Creating, At
  <2>2. \A v \in Workers \ {w} : Creating(v) => job[v].rule # r
    BY <2>1 DEF CustomInv
  <2>3. \A v \in Workers : Creating(v)' => job'[v].rule # r
    BY <1>6, <1>7, <2>2
  <2> QED BY <1>3, <1>5, <2>1, <2>3 DEF Born, CustomInv, RuleRows
<1>9. \A v \in Workers : RuleJobOK(job[v])'
  BY <1>4, <1>5, <1>7, JobsKept DEF RuleJobOK
<1>10. ASSUME NEW x \in DOMAIN rules'
       PROVE  /\ {"source", "enabled", "hits"} \subseteq DOMAIN rules'[x]
              /\ \/ k.new /\ x = r /\ rules'[x].hits = 0
                 \/ x \in DOMAIN rules /\ rules'[x].hits = rules[x].hits
  <2>1. \A y \in DOMAIN rules : {"source", "enabled", "hits"} \subseteq DOMAIN rules[y]
    BY DEF CustomInv, RuleRows
  <2>2. CASE k.new
    <3>1. /\ DOMAIN rules' = DOMAIN rules \cup {r} /\ rules'[r] = patch
          /\ \A y \in DOMAIN rules : y # r => rules'[y] = rules[y]
      BY <1>5, <2>2 DEF Patched
    <3> QED BY <1>3, <1>10, <2>1, <2>2, <3>1
  <2>3. CASE ~k.new /\ r \in DOMAIN rules
    <3>1. PICK row : row = Patched(rules[r], patch)
      OBVIOUS
    <3>2. {"source", "enabled", "hits"} \subseteq DOMAIN row /\ row.hits = rules[r].hits
      BY <1>3, <2>1, <2>3, <3>1 DEF Patched
    <3>3. rules' = [rules EXCEPT ![r] = row]
      BY <1>5, <2>3, <3>1
    <3> QED BY <1>10, <2>1, <2>3, <3>2, <3>3
  <2>4. CASE ~k.new /\ r \notin DOMAIN rules
    BY <1>5, <1>10, <2>1, <2>4
  <2> QED BY <1>3, <2>2, <2>3, <2>4
<1>11. RuleRows'
  <2>1. DOMAIN rules' \subseteq Born'
    BY <1>7, <1>8, <1>10 DEF CustomInv, RuleRows
  <2>2. \A x \in DOMAIN rules' : {"source", "enabled", "hits"} \subseteq DOMAIN rules'[x]
    BY <1>10
  <2> QED BY <1>5, <1>7, <2>1, <2>2 DEF CustomInv, RuleRows
<1>12. ASSUME Set \notin crowded' PROVE OneOnSet'
  <2>1. Set \notin crowded /\ OneOnSet /\ \A v \in Workers \ {w} : job[v].on # Set
    BY <1>4, <1>5, <1>12, ContinueAlone, CustomRulesAssumption DEF CustomInv
  <2>2. \A u, v \in Workers : job'[u].on = Set /\ job'[v].on = Set => u = v
    BY <1>6, <2>1
  <2>3. At(w, "invalidate")'
    BY <1>4, <1>6 DEF At
  <2>4. \A v \in Workers : ~At(v, "compile")'
    BY <1>4, <1>6, <2>1 DEF At, CustomInv, RuleJobOK
  <2> QED BY <2>2, <2>3, <2>4 DEF OneOnSet
<1>13. ASSUME NEW x \in RuleIds \ crowded' PROVE OneCounts(x)'
  <2>1. x \notin crowded /\ x # None
    BY <1>5, ContinueAlone, CustomRulesAssumption
  <2>2. OneCounts(x)
    BY <2>1 DEF CustomInv
  <2>3. \A u, v \in Workers : job'[u].on = x /\ job'[v].on = x => u = v
    BY <1>5, <2>1, <2>2, StillAlone DEF CustomInv, OneCounts
  <2>4. \A v \in Workers : At(v, "write_hits")' => At(v, "write_hits") /\ job'[v] = job[v]
    BY <1>4, <1>6 DEF At
  <2>5. CASE k.new /\ x = r
    <3>1. fired[x] = 0
      BY <1>8, <2>5 DEF CustomInv, RuleRows
    <3>2. \A v \in Workers : At(v, "write_hits") => job[v].on # x
      BY <1>8, <2>5 DEF At, CustomInv, RuleJobOK, HitsOK
    <3>3. x \in DOMAIN rules' => rules'[x].hits = 0
      BY <1>3, <1>5, <2>5 DEF Patched
    <3> QED BY <1>5, <2>3, <2>4, <3>1, <3>2, <3>3 DEF OneCounts
  <2>6. CASE ~(k.new /\ x = r)
    <3>1. x \in DOMAIN rules' => x \in DOMAIN rules /\ rules'[x].hits = rules[x].hits
      BY <1>10, <2>6
    <3> QED BY <1>5, <2>2, <2>3, <2>4, <3>1 DEF OneCounts
  <2> QED BY <2>5, <2>6
<1> QED BY <1>6, <1>7, <1>9, <1>11, <1>12, <1>13 DEF CustomInv

LEMMA WriteHitsStep == ASSUME CustomInv, NEW w \in Workers, WriteHits(w) PROVE CustomInv'
<1>1. PICK k, r, n : k = job[w] /\ r = k.on /\ n = Cardinality(k.hits[r])
  OBVIOUS
<1>2. k.pc = "write_hits" /\ r \in DOMAIN k.hits /\ HitsOK(k.hits)
  BY <1>1 DEF WriteHits, At, CustomInv, RuleJobOK
<1>3. r \in Born /\ r \in RuleIds /\ n \in Nat
  <2>1. r \in Born /\ k.hits[r] \subseteq Lines
    BY <1>2 DEF HitsOK
  <2>2. IsFiniteSet(k.hits[r])
    BY <2>1, FS_Subset, CustomRulesAssumption
  <2> QED BY <1>1, <2>1, <2>2, FS_CardinalityType DEF Born, CustomInv, RuleRows
<1>4. PICK j : Continue(w, j) /\ RuleJobOK(j) /\ j.pc \in {"idle", "read_hits"}
  <2>1. PICK hits : hits = Restrict(k.hits, DOMAIN k.hits \ {r})
    OBVIOUS
  <2>2. HitsOK(hits)
    BY <1>2, <2>1 DEF HitsOK, Restrict
  <2>3. CountNext(w, hits)
    BY <1>1, <2>1 DEF WriteHits
  <2> QED BY <2>2, <2>3, CountJob
<1>5. /\ UNCHANGED <<compiled, used>> /\ fired' = [fired EXCEPT ![r] = fired[r] + n]
      /\ rules' = IF k.was # None /\ r \in DOMAIN rules THEN [rules EXCEPT ![r].hits = k.was + n] ELSE rules
  BY <1>1 DEF WriteHits
<1>6. DOMAIN job' = Workers /\ job'[w] = j /\ \A v \in Workers \ {w} : job'[v] = job[v]
  BY <1>4, ContinueJob DEF CustomInv
<1>7. Born' = Born /\ \A u, v \in Workers : Creating(u)' /\ Creating(v)' /\ job'[u].rule = job'[v].rule => u = v
  BY <1>1, <1>2, <1>4, <1>5, BornKept DEF Creating, At
<1>8. \A v \in Workers : RuleJobOK(job[v])'
  <2>1. RuleJobOK(j)'
    BY <1>4, <1>5, <1>7 DEF RuleJobOK, HitsOK
  <2> QED BY <1>4, <1>5, <1>7, <2>1, JobsKept
<1>9. /\ DOMAIN rules' = DOMAIN rules
      /\ \A x \in DOMAIN rules :
           /\ {"source", "enabled", "hits"} \subseteq DOMAIN rules'[x]
           /\ rules'[x].source = rules[x].source /\ rules'[x].enabled = rules[x].enabled
           /\ x # r => rules'[x] = rules[x]
  <2>1. \A x \in DOMAIN rules : {"source", "enabled", "hits"} \subseteq DOMAIN rules[x]
    BY DEF CustomInv, RuleRows
  <2>2. CASE k.was # None /\ r \in DOMAIN rules
    <3>1. PICK row : row = [rules[r] EXCEPT !.hits = k.was + n]
      OBVIOUS
    <3>2. rules' = [rules EXCEPT ![r] = row]
      BY <1>5, <2>2, <3>1
    <3>3. {"source", "enabled", "hits"} \subseteq DOMAIN row /\ row.source = rules[r].source /\ row.enabled = rules[r].enabled
      BY <2>1, <2>2, <3>1
    <3> QED BY <2>1, <2>2, <3>2, <3>3
  <2>3. CASE ~(k.was # None /\ r \in DOMAIN rules)
    BY <1>5, <2>1, <2>3
  <2> QED BY <2>2, <2>3
<1>10. Enabled' = Enabled
  <2>1. \A x \in DOMAIN rules : rules'[x].enabled = rules[x].enabled /\ rules'[x].source = rules[x].source
    BY <1>9
  <2>2. {x \in DOMAIN rules' : rules'[x].enabled} = {x \in DOMAIN rules : rules[x].enabled}
    BY <1>9, <2>1
  <2> QED BY <2>1, <2>2 DEF Enabled
<1>11. fired \in [RuleIds -> Nat] /\ fired' \in [RuleIds -> Nat] /\ \A x \in RuleIds : x # r => fired'[x] = fired[x]
  BY <1>3, <1>5 DEF CustomInv, RuleRows
<1>12. RuleRows'
  <2>1. \A x \in RuleIds \ Born' : fired'[x] = 0
    BY <1>3, <1>7, <1>11 DEF CustomInv, RuleRows
  <2> QED BY <1>5, <1>7, <1>9, <1>11, <2>1 DEF CustomInv, RuleRows
<1>13. ASSUME Set \notin crowded' PROVE OneOnSet'
  <2>1. Set \notin crowded /\ OneOnSet
    BY <1>4, <1>13, ContinueAlone, CustomRulesAssumption DEF CustomInv
  <2>2. \A u, v \in Workers : job'[u].on = Set /\ job'[v].on = Set => u = v
    BY <1>4, <1>13, <2>1, StillAlone, CustomRulesAssumption DEF CustomInv, OneOnSet
  <2>3. \A pc \in {"invalidate", "compile"}, v \in Workers : At(v, pc)' <=> At(v, pc)
    BY <1>1, <1>2, <1>4, <1>6 DEF At
  <2>4. \A v \in Workers : At(v, "compile")' => job'[v].set = job[v].set
    BY <1>4, <1>6 DEF At
  <2> QED BY <1>5, <1>10, <2>1, <2>2, <2>3, <2>4 DEF OneOnSet, Cached
<1>14. ASSUME NEW x \in RuleIds \ crowded' PROVE OneCounts(x)'
  <2>1. x \notin crowded /\ x # None
    BY <1>4, ContinueAlone, CustomRulesAssumption
  <2>2. OneCounts(x)
    BY <2>1 DEF CustomInv
  <2>3. \A u, v \in Workers : job'[u].on = x /\ job'[v].on = x => u = v
    BY <1>4, <2>1, <2>2, StillAlone DEF CustomInv, OneCounts
  <2>4. \A v \in Workers : At(v, "write_hits")' => v # w /\ At(v, "write_hits") /\ job'[v] = job[v]
    BY <1>4, <1>6 DEF At
  <2>5. CASE x = r
    <3>1. \A v \in Workers : At(v, "write_hits")' => job'[v].on # x
      BY <1>1, <2>2, <2>4, <2>5 DEF OneCounts
    <3>2. ASSUME x \in DOMAIN rules PROVE rules'[x].hits = fired'[x]
      <4>1. k.was = fired[x]
        BY <1>1, <1>2, <2>2, <2>5, <3>2 DEF OneCounts, At
      <4>2. k.was # None
        BY <1>3, <1>11, <2>5, <4>1, CustomRulesAssumption
      <4>3. rules' = [rules EXCEPT ![x].hits = k.was + n]
        BY <1>5, <2>5, <3>2, <4>2
      <4>4. "hits" \in DOMAIN rules[x]
        BY <3>2 DEF CustomInv, RuleRows
      <4>5. fired'[x] = fired[x] + n
        BY <1>3, <1>5, <1>11, <2>5
      <4> QED BY <3>2, <4>1, <4>3, <4>4, <4>5
    <3> QED BY <1>9, <2>3, <3>1, <3>2 DEF OneCounts
  <2>6. CASE x # r
    BY <1>9, <1>11, <2>2, <2>3, <2>4, <2>6 DEF OneCounts
  <2> QED BY <2>5, <2>6
<1> QED BY <1>6, <1>7, <1>8, <1>12, <1>13, <1>14 DEF CustomInv

LEMMA AgeStep == ASSUME CustomInv, CacheAges PROVE CustomInv'
<1>1. UNCHANGED <<rules, used, fired, job, crowded>> /\ compiled' = [compiled EXCEPT !.fresh = FALSE]
  BY DEF CacheAges, requestVars
<1>2. {"set", "fresh"} \subseteq DOMAIN compiled /\ DOMAIN compiled.set \subseteq Born
  BY DEF CacheAges, Cached, CustomInv, RuleRows
<1>3. {"set", "fresh"} \subseteq DOMAIN compiled' /\ compiled'.set = compiled.set /\ compiled'.fresh = FALSE
  BY <1>1, <1>2
<1>4. ~Cached'
  BY <1>3 DEF Cached
<1>5. Born' = Born /\ Enabled' = Enabled
  BY <1>1 DEF Born, Enabled, Creating, At
<1>6. RuleRows'
  BY <1>1, <1>2, <1>3, <1>5 DEF CustomInv, RuleRows
<1>7. \A w \in Workers : RuleJobOK(job[w])'
  BY <1>1, <1>5 DEF CustomInv, RuleJobOK, HitsOK
<1>8. Set \notin crowded' => OneOnSet'
  BY <1>1, <1>4, <1>5 DEF CustomInv, OneOnSet, At
<1>9. \A r \in RuleIds \ crowded' : OneCounts(r)'
  BY <1>1 DEF CustomInv, OneCounts, At
<1> QED BY <1>1, <1>6, <1>7, <1>8, <1>9 DEF CustomInv, Creating, At

LEMMA CustomStep == ASSUME CustomInv, [CustomNext]_customVars PROVE CustomInv'
<1>1. CASE UNCHANGED customVars
  <2>1. UNCHANGED <<rules, compiled, used, fired, job, crowded>>
    BY <1>1 DEF customVars, requestVars
  <2>2. Born' = Born /\ Enabled' = Enabled /\ Cached' = Cached
    BY <2>1 DEF Born, Enabled, Cached, Creating, At
  <2>3. \A w \in Workers : RuleJobOK(job[w])'
    BY <2>1, <2>2 DEF CustomInv, RuleJobOK, HitsOK
  <2>4. RuleRows'
    BY <2>1, <2>2 DEF CustomInv, RuleRows
  <2>5. Set \notin crowded' => OneOnSet'
    BY <2>1, <2>2 DEF CustomInv, OneOnSet, At
  <2>6. \A r \in RuleIds \ crowded' : OneCounts(r)'
    BY <2>1 DEF CustomInv, OneCounts, At
  <2> QED BY <2>1, <2>3, <2>4, <2>5, <2>6 DEF CustomInv, Creating, At
<1>2. CASE CustomNext
  BY <1>2, AgeStep, CreateStep, EditRuleStep, WriteRuleStep, InvalidateStep, RemoveRuleStep, ScanStep,
     ReadHitsStep, WriteHitsStep DEF CustomNext
<1> QED BY <1>1, <1>2

LEMMA CustomStart == RequestsInit /\ CustomInit => CustomInv
<1> SUFFICES ASSUME RequestsInit, CustomInit PROVE CustomInv
  OBVIOUS
<1>1. DOMAIN rules = {}
  BY DEF CustomInit
<1>2. \A w \in Workers : RuleJobOK(job[w]) /\ job[w].pc = "idle" /\ job[w].on = None
  BY DEF RequestsInit, NoJob, RuleJobOK
<1>3. RuleRows
  BY <1>1 DEF CustomInit, RuleRows
<1>4. OneOnSet
  BY <1>2, CustomRulesAssumption DEF CustomInit, OneOnSet, Cached, At
<1>5. \A r \in RuleIds : OneCounts(r)
  BY <1>1, <1>2, CustomRulesAssumption DEF OneCounts
<1> QED BY <1>2, <1>3, <1>4, <1>5 DEF CustomInv, RequestsInit, Creating, At

\* The rules that run are the ones that are stored: a cache that is used agrees with the collection once the
\* request that wrote it is answered (CustomRules.invalidate, called by saveCustom and deleteCustom), and the
\* count of a rule is the lines it has matched, whatever is edited meanwhile (recordHits), unless two requests
\* met on the collection or on the row.
THEOREM CustomRulesRunAsStored == CustomSpec => []RulesRunAsStored
<1>1. CustomInv => RulesRunAsStored
  <2> SUFFICES ASSUME CustomInv PROVE RulesRunAsStored
    OBVIOUS
  <2>1. ASSUME Cached, Set \notin crowded, ~Served(Set) PROVE compiled.set = Enabled
    <3>1. \A w \in Workers : ~At(w, "invalidate")
      BY <2>1 DEF Served, At, CustomInv, RuleJobOK
    <3> QED BY <2>1, <3>1 DEF CustomInv, OneOnSet
  <2>2. ASSUME NEW r \in DOMAIN rules, r \notin crowded, ~Served(r) PROVE rules[r].hits = fired[r]
    <3>1. r \in RuleIds
      BY DEF CustomInv, RuleRows, Born
    <3> QED BY <2>2, <3>1 DEF CustomInv, OneCounts
  <2> QED BY <2>1, <2>2 DEF RulesRunAsStored
<1> QED BY <1>1, CustomStart, CustomStep, PTL DEF CustomSpec

-----------------------------------------------------------------------------
(* Activity of assistants. *)

EndsOf(c) == {i \in RowsOf(c) : audit[i].status # "running"}

\* A call under way has no end yet, so no call has two.
CallsEndOnce ==
  /\ audit \in Seq([call : Calls, status : {"running", "ok", "failed"}])
  /\ DOMAIN job = Workers
  /\ \A w \in Workers : "pc" \in DOMAIN job[w] /\ (At(w, "tool") => job[w].on \in Calls)
  /\ \A w \in Workers, c \in Calls : At(w, "tool") /\ job[w].on = c => EndsOf(c) = {}
  /\ \A v, w \in Workers : At(v, "tool") /\ At(w, "tool") /\ job[v].on = job[w].on => v = w
  /\ \A c \in Calls : \A i, k \in EndsOf(c) : i = k

\* An answer holds every row between where it was asked from and its newest, or the call counts as untold.
PollOK(p) ==
  \/ p.pc = "idle"
  \/ /\ p.pc \in {"asked", "answered"} /\ p.after \in 0 .. page.last /\ p.fresh \in BOOLEAN
     /\ p.pc = "answered" =>
           /\ p.rows \subseteq DOMAIN audit
           /\ \A i \in DOMAIN audit, k \in p.rows : p.after < i /\ i =< k => i \in p.rows \/ audit[i].call \in untold

\* What the page shows as ended is what it has read the end of.
PageIsTrue ==
  /\ page.last \in 0 .. Len(audit) /\ DOMAIN page.calls \subseteq Calls
  /\ \A c \in Calls \ untold : \A i \in EndsOf(c) :
       i =< page.last => c \in DOMAIN page.calls /\ page.calls[c].status = audit[i].status
  /\ \A c \in DOMAIN page.calls : page.calls[c].status # "running" => \E i \in EndsOf(c) : i =< page.last

PopsOnce ==
  /\ popped \in [Calls -> [first : 0 .. 1, outcome : 0 .. 1]]
  /\ \A c \in Calls : popped[c].first = 1 => c \in page.announced
  /\ \A c \in Calls : popped[c].outcome = 1 => c \in page.done

Polling ==
  /\ timers.armed \in BOOLEAN /\ timers.orphans \in Nat
  /\ timers.armed \/ timers.orphans > 0 \/ \E p \in Polls : ~PollAt(p, "idle")

ActivityInv ==
  /\ CallsEndOnce
  /\ DOMAIN poll = Polls /\ \A p \in Polls : PollOK(poll[p])
  /\ PageIsTrue /\ PopsOnce /\ Polling

Status == {"running", "ok", "failed"}

\* A row more, or none as the write failed: what was there stays where it is.
LEMMA RowAdded ==
  ASSUME audit \in Seq([call : Calls, status : Status]), NEW c \in Calls, NEW s \in Status,
         AddRow([call |-> c, status |-> s])
  PROVE  /\ audit' \in Seq([call : Calls, status : Status])
         /\ Len(audit) \in Nat /\ DOMAIN audit = 1 .. Len(audit) /\ Len(audit') \in Nat /\ DOMAIN audit' = 1 .. Len(audit')
         /\ Len(audit) =< Len(audit')
         /\ \A i \in DOMAIN audit : i \in DOMAIN audit' /\ audit'[i] = audit[i]
         /\ \A i \in DOMAIN audit' \ DOMAIN audit :
              i = Len(audit) + 1 /\ audit'[i].call = c /\ audit'[i].status = s /\ \A k \in DOMAIN audit' \ DOMAIN audit : k = i
<1>1. PICK row : row = [call |-> c, status |-> s]
  OBVIOUS
<1>2. row \in [call : Calls, status : Status] /\ row.call = c /\ row.status = s
  BY <1>1
<1>3. CASE audit' = audit
  BY <1>3
<1>4. CASE audit' = Append(audit, row)
  BY <1>2, <1>4
<1> QED BY <1>1, <1>3, <1>4 DEF AddRow

\* A step of the server leaves what the page and its polls know true.
LEMMA ServerKeepsPage ==
  ASSUME ActivityInv, NEW c \in Calls, NEW s \in Status, AddRow([call |-> c, status |-> s]),
         UNCHANGED <<page, poll, timers, popped, untold>>
  PROVE  /\ DOMAIN poll' = Polls /\ \A p \in Polls : PollOK(poll[p])'
         /\ PageIsTrue' /\ PopsOnce' /\ Polling'
         /\ \A d \in Calls : EndsOf(d) \subseteq EndsOf(d)' /\ (d # c \/ s = "running" => EndsOf(d)' = EndsOf(d))
         /\ \A i \in EndsOf(c)' \ EndsOf(c) : \A k \in EndsOf(c)' \ EndsOf(c) : i = k
         /\ audit' \in Seq([call : Calls, status : Status])
<1>1. audit \in Seq([call : Calls, status : Status])
  BY DEF ActivityInv, CallsEndOnce, Status
<1>2. /\ audit' \in Seq([call : Calls, status : Status])
      /\ Len(audit) \in Nat /\ DOMAIN audit = 1 .. Len(audit) /\ Len(audit') \in Nat /\ DOMAIN audit' = 1 .. Len(audit')
      /\ Len(audit) =< Len(audit')
      /\ \A i \in DOMAIN audit : i \in DOMAIN audit' /\ audit'[i] = audit[i]
      /\ \A i \in DOMAIN audit' \ DOMAIN audit :
           i = Len(audit) + 1 /\ audit'[i].call = c /\ audit'[i].status = s /\ \A k \in DOMAIN audit' \ DOMAIN audit : k = i
  BY <1>1, RowAdded
<1>3. \A d : EndsOf(d) \subseteq EndsOf(d)' /\ \A i \in EndsOf(d)' : i \in DOMAIN audit => i \in EndsOf(d)
  BY <1>2 DEF EndsOf, RowsOf
<1>4. \A d : \A i \in EndsOf(d)' : i \notin DOMAIN audit => i = Len(audit) + 1 /\ d = c /\ s # "running"
  BY <1>2 DEF EndsOf, RowsOf
<1>5. \A p \in Polls : PollOK(poll[p])'
  <2> SUFFICES ASSUME NEW p \in Polls PROVE PollOK(poll[p])'
    OBVIOUS
  <2>1. PICK q : q = poll[p]
    OBVIOUS
  <2>2. PollOK(q)
    BY <2>1 DEF ActivityInv
  <2>3. ASSUME q.pc = "answered", q.rows \subseteq DOMAIN audit,
               \A i \in DOMAIN audit, k \in q.rows : q.after < i /\ i =< k => i \in q.rows \/ audit[i].call \in untold,
               NEW i \in DOMAIN audit', NEW k \in q.rows, q.after < i, i =< k
        PROVE  i \in q.rows \/ audit'[i].call \in untold
    <3>1. k \in 1 .. Len(audit) /\ i \in 1 .. Len(audit')
      BY <1>2, <2>3
    <3>2. i \in DOMAIN audit
      BY <1>2, <2>3, <3>1
    <3> QED BY <1>2, <2>3, <3>2
  <2>4. PollOK(q)'
    BY <1>2, <2>2, <2>3 DEF PollOK
  <2> QED BY <2>1, <2>4 DEF PollOK
<1>6. PageIsTrue'
  <2>1. page'.last \in 0 .. Len(audit')
    BY <1>2 DEF ActivityInv, PageIsTrue
  <2>2. ASSUME NEW d \in Calls \ untold, NEW i \in EndsOf(d)', i =< page.last
        PROVE  d \in DOMAIN page.calls /\ page.calls[d].status = audit'[i].status
    <3>1. page.last \in 0 .. Len(audit)
      BY DEF ActivityInv, PageIsTrue
    <3>2. i \in DOMAIN audit
      BY <1>2, <1>4, <2>2, <3>1
    <3>3. i \in EndsOf(d) /\ audit'[i] = audit[i]
      BY <1>2, <1>3, <2>2, <3>2
    <3> QED BY <2>2, <3>3 DEF ActivityInv, PageIsTrue
  <2>3. \A d \in DOMAIN page.calls : page.calls[d].status # "running" => \E i \in EndsOf(d)' : i =< page.last
    BY <1>3 DEF ActivityInv, PageIsTrue
  <2>4. DOMAIN page.calls \subseteq Calls
    BY DEF ActivityInv, PageIsTrue
  <2> QED BY <2>1, <2>2, <2>3, <2>4 DEF PageIsTrue
<1>7. PopsOnce' /\ Polling' /\ DOMAIN poll' = Polls
  BY DEF ActivityInv, PopsOnce, Polling, PollAt
<1>8. \A d \in Calls : d # c \/ s = "running" => EndsOf(d)' = EndsOf(d)
  <2> SUFFICES ASSUME NEW d \in Calls, d # c \/ s = "running" PROVE EndsOf(d)' \subseteq EndsOf(d)
    BY <1>3
  <2>1. ASSUME NEW i \in EndsOf(d)' PROVE i \in EndsOf(d)
    BY <1>3, <1>4, <2>1
  <2> QED BY <2>1
<1>9. ASSUME NEW i \in EndsOf(c)' \ EndsOf(c), NEW k \in EndsOf(c)' \ EndsOf(c) PROVE i = k
  <2>1. i \notin DOMAIN audit /\ k \notin DOMAIN audit
    BY <1>3, <1>9
  <2> QED BY <1>4, <1>9, <2>1
<1> QED BY <1>2, <1>3, <1>5, <1>6, <1>7, <1>8, <1>9

LEMMA StartToolStep == ASSUME ActivityInv, NEW w \in Workers, StartTool(w) PROVE ActivityInv'
<1>1. PICK c \in NotStarted : AddRow([call |-> c, status |-> "running"]) /\ Continue(w, Job("tool", c, <<>>))
  BY DEF StartTool
<1>2. PICK j : j = Job("tool", c, <<>>)
  OBVIOUS
<1>3. "pc" \in DOMAIN j /\ j.pc = "tool" /\ j.on = c
  BY <1>2, JobFields
<1>4. DOMAIN job' = Workers /\ job'[w] = j /\ \A v \in Workers \ {w} : job'[v] = job[v]
  BY <1>1, <1>2, ContinueJob DEF ActivityInv, CallsEndOnce
<1>5. c \in Calls /\ EndsOf(c) = {} /\ \A v \in Workers : job[v].on # c
  BY DEF NotStarted, EndsOf, RowsOf
<1>6. "running" \in Status
  BY DEF Status
<1>7. UNCHANGED <<page, poll, timers, popped, untold>>
  BY DEF StartTool
<1>8. /\ DOMAIN poll' = Polls /\ \A p \in Polls : PollOK(poll[p])'
      /\ PageIsTrue' /\ PopsOnce' /\ Polling'
      /\ \A d \in Calls : EndsOf(d)' = EndsOf(d)
      /\ audit' \in Seq([call : Calls, status : Status])
  BY <1>1, <1>5, <1>6, <1>7, ServerKeepsPage
<1>9. \A v \in Workers : "pc" \in DOMAIN job'[v] /\ (At(v, "tool")' => job'[v].on \in Calls)
  BY <1>3, <1>4, <1>5 DEF ActivityInv, CallsEndOnce, At
<1>12. \A v \in Workers, d \in Calls : At(v, "tool")' /\ job'[v].on = d => EndsOf(d)' = {}
  <2>1. ASSUME NEW v \in Workers, NEW d \in Calls, At(v, "tool")', job'[v].on = d PROVE EndsOf(d) = {}
    BY <1>3, <1>4, <1>5, <2>1 DEF ActivityInv, CallsEndOnce, At
  <2> QED BY <1>8, <2>1
<1>10. \A u, v \in Workers : At(u, "tool")' /\ At(v, "tool")' /\ job'[u].on = job'[v].on => u = v
  BY <1>3, <1>4, <1>5 DEF ActivityInv, CallsEndOnce, At
<1>11. \A d \in Calls : \A i, k \in EndsOf(d)' : i = k
  BY <1>8 DEF ActivityInv, CallsEndOnce
<1> QED BY <1>4, <1>8, <1>9, <1>10, <1>11, <1>12 DEF ActivityInv, CallsEndOnce, Status

LEMMA FinishToolStep == ASSUME ActivityInv, NEW w \in Workers, FinishTool(w) PROVE ActivityInv'
<1>1. PICK c, s : c = job[w].on /\ s \in {"ok", "failed"} /\ AddRow([call |-> c, status |-> s])
  BY DEF FinishTool
<1>2. c \in Calls /\ EndsOf(c) = {}
  <2>1. At(w, "tool") /\ job[w].on \in Calls
    BY DEF FinishTool, ActivityInv, CallsEndOnce
  <2> QED BY <1>1, <2>1 DEF ActivityInv, CallsEndOnce
<1>3. s \in Status
  BY <1>1 DEF Status
<1>4. DOMAIN job' = Workers /\ job'[w] = NoJob /\ \A v \in Workers \ {w} : job'[v] = job[v]
  BY ContinueJob DEF FinishTool, Done, ActivityInv, CallsEndOnce
<1>5. "pc" \in DOMAIN NoJob /\ NoJob.pc = "idle"
  BY DEF NoJob
<1>6. UNCHANGED <<page, poll, timers, popped, untold>>
  BY DEF FinishTool
<1>7. /\ DOMAIN poll' = Polls /\ \A p \in Polls : PollOK(poll[p])'
      /\ PageIsTrue' /\ PopsOnce' /\ Polling'
      /\ \A d \in Calls : d # c => EndsOf(d)' = EndsOf(d)
      /\ \A i \in EndsOf(c)', k \in EndsOf(c)' : i = k
      /\ audit' \in Seq([call : Calls, status : Status])
  BY <1>1, <1>2, <1>3, <1>6, ServerKeepsPage
<1>8. \A v \in Workers : "pc" \in DOMAIN job'[v] /\ (At(v, "tool")' => job'[v].on \in Calls)
  BY <1>4, <1>5 DEF ActivityInv, CallsEndOnce, At
<1>11. \A v \in Workers, d \in Calls : At(v, "tool")' /\ job'[v].on = d => EndsOf(d)' = {}
  <2>1. ASSUME NEW v \in Workers, NEW d \in Calls, At(v, "tool")', job'[v].on = d PROVE EndsOf(d) = {} /\ d # c
    BY <1>1, <1>4, <1>5, <2>1 DEF ActivityInv, CallsEndOnce, At, FinishTool
  <2> QED BY <1>7, <2>1
<1>9. \A u, v \in Workers : At(u, "tool")' /\ At(v, "tool")' /\ job'[u].on = job'[v].on => u = v
  BY <1>4, <1>5 DEF ActivityInv, CallsEndOnce, At
<1>10. \A d \in Calls : \A i, k \in EndsOf(d)' : i = k
  BY <1>7 DEF ActivityInv, CallsEndOnce
<1> QED BY <1>4, <1>7, <1>8, <1>9, <1>10, <1>11 DEF ActivityInv, CallsEndOnce, Status

\* A step of the page or a poll does not touch the calls themselves.
LEMMA CallsKept ==
  ASSUME ActivityInv, UNCHANGED <<audit, job>>
  PROVE  CallsEndOnce' /\ \A c \in Calls : EndsOf(c)' = EndsOf(c)
<1>1. \A c : EndsOf(c)' = EndsOf(c)
  BY DEF EndsOf, RowsOf
<1>2. \A w \in Workers : At(w, "tool")' <=> At(w, "tool")
  BY DEF At
<1> QED BY <1>1, <1>2 DEF ActivityInv, CallsEndOnce

LEMMA StartPollStep == ASSUME ActivityInv, NEW p \in Polls, StartPoll(p) PROVE ActivityInv'
<1>1. CallsEndOnce' /\ \A c \in Calls : EndsOf(c)' = EndsOf(c)
  BY CallsKept DEF StartPoll, requestVars
<1>2. UNCHANGED <<audit, page, popped, untold>>
  BY DEF StartPoll
<1>3. PICK orphans \in Nat : Ask(p, orphans)
  BY DEF StartPoll, ActivityInv, Polling
<1>4. PICK q : q = [pc |-> "asked", after |-> page.last, fresh |-> TRUE]
  OBVIOUS
<1>5. q.pc = "asked" /\ q.after = page.last /\ q.fresh \in BOOLEAN
  BY <1>4
<1>6. page.last \in Nat
  BY DEF ActivityInv, PageIsTrue
<1>7. PollOK(q)'
  BY <1>2, <1>5, <1>6 DEF PollOK
<1>8. PageIsTrue' /\ PopsOnce'
  BY <1>1, <1>2 DEF ActivityInv, PageIsTrue, PopsOnce
<1>9. \A k \in Polls : PollOK(poll[k]) => PollOK(poll[k]) /\ (poll'[k] = poll[k] => PollOK(poll[k])')
  BY <1>2 DEF PollOK
<1>10. CASE timers' = [armed |-> FALSE, orphans |-> orphans] /\ poll' = [poll EXCEPT ![p] = q]
  <2>1. DOMAIN poll' = Polls /\ poll'[p] = q /\ \A k \in Polls : k # p => poll'[k] = poll[k]
    BY <1>10 DEF ActivityInv
  <2>2. PollOK(poll[p])'
    BY <1>7, <2>1 DEF PollOK
  <2>3. \A k \in Polls : PollOK(poll[k])'
    BY <1>9, <2>1, <2>2 DEF ActivityInv
  <2>4. Polling'
    BY <1>5, <1>10, <2>1 DEF Polling, PollAt
  <2> QED BY <1>1, <1>8, <2>1, <2>3, <2>4 DEF ActivityInv
<1>11. CASE timers' = [armed |-> TRUE, orphans |-> orphans] /\ UNCHANGED poll
  <2>1. Polling'
    BY <1>11 DEF Polling
  <2> QED BY <1>1, <1>8, <1>9, <1>11, <2>1 DEF ActivityInv
<1> QED BY <1>3, <1>4, <1>10, <1>11 DEF Ask

LEMMA AnswerPollStep == ASSUME ActivityInv, NEW p \in Polls, AnswerPoll(p) PROVE ActivityInv'
<1>1. CallsEndOnce' /\ \A c \in Calls : EndsOf(c)' = EndsOf(c)
  BY CallsKept DEF AnswerPoll, requestVars
<1>2. PICK old, after, rows :
        /\ old = poll[p] /\ after = {i \in DOMAIN audit : i > old.after} /\ rows = Newest(LIMIT, after)
  OBVIOUS
<1>3. PICK q : q = [pc |-> "answered", after |-> old.after, fresh |-> old.fresh, rows |-> rows]
  OBVIOUS
<1>4. q.pc = "answered" /\ q.after = old.after /\ q.fresh = old.fresh /\ q.rows = rows
  BY <1>3
<1>5. poll' = [poll EXCEPT ![p] = q] /\ untold' = untold \cup {audit[i].call : i \in after \ rows}
  BY <1>2, <1>3 DEF AnswerPoll
<1>6. UNCHANGED <<audit, page, timers, popped>>
  BY DEF AnswerPoll
<1>7. old.pc = "asked" /\ old.after \in 0 .. page.last /\ old.fresh \in BOOLEAN
  <2>1. PollOK(old) /\ old.pc = "asked"
    BY <1>2 DEF AnswerPoll, PollAt, ActivityInv
  <2> QED BY <2>1 DEF PollOK
<1>8. rows \subseteq after
  BY <1>2 DEF Newest
<1>9. PollOK(q)'
  <2>1. ASSUME NEW i \in DOMAIN audit, q.after < i, i \notin q.rows PROVE audit[i].call \in untold'
    <3>1. old.after \in Int /\ i \in Int
      BY <1>7 DEF ActivityInv, CallsEndOnce
    <3>2. i \in after \ rows
      BY <1>2, <1>4, <2>1, <3>1
    <3> QED BY <1>5, <3>2
  <2>2. q.rows \subseteq DOMAIN audit
    BY <1>2, <1>4, <1>8
  <2> QED BY <1>4, <1>6, <1>7, <2>1, <2>2 DEF PollOK
<1>10. DOMAIN poll' = Polls /\ poll'[p] = q /\ \A k \in Polls : k # p => poll'[k] = poll[k]
  BY <1>5 DEF ActivityInv
<1>11. \A k \in Polls : PollOK(poll[k])'
  <2>1. \A k \in Polls : k # p => PollOK(poll[k])'
    BY <1>5, <1>6, <1>10 DEF ActivityInv, PollOK
  <2>2. PollOK(poll[p])'
    BY <1>9, <1>10 DEF PollOK
  <2> QED BY <2>1, <2>2
<1>12. PageIsTrue' /\ PopsOnce'
  BY <1>1, <1>5, <1>6 DEF ActivityInv, PageIsTrue, PopsOnce
<1>13. Polling'
  BY <1>4, <1>6, <1>10 DEF ActivityInv, Polling, PollAt
<1> QED BY <1>1, <1>10, <1>11, <1>12, <1>13 DEF ActivityInv

\* What is shown of a call after these rows.
LEMMA MergedStatus ==
  ASSUME ActivityInv, NEW rows \in SUBSET DOMAIN audit, NEW c \in {audit[i].call : i \in rows}
  PROVE  \/ \E i \in rows \cap EndsOf(c) : Merged(c, rows).status = audit[i].status
         \/ rows \cap EndsOf(c) = {} /\ c \in DOMAIN page.calls /\ Merged(c, rows).status = page.calls[c].status
         \/ rows \cap EndsOf(c) = {} /\ c \notin DOMAIN page.calls /\ Merged(c, rows).status = "running"
<1> DEFINE mine == rows \cap RowsOf(c)
           starts == {i \in mine : audit[i].status = "running"}
           ends == mine \ starts
           known == c \in DOMAIN page.calls
<1>1. ends = rows \cap EndsOf(c)
  BY DEF EndsOf
<1>2. PICK started : started = IF starts # {} THEN CHOOSE i \in starts : TRUE
                               ELSE IF known THEN page.calls[c].started ELSE CHOOSE i \in ends : TRUE
  OBVIOUS
<1>3. PICK status : status = IF ends # {} THEN audit[CHOOSE i \in ends : TRUE].status
                             ELSE IF known THEN page.calls[c].status ELSE "running"
  OBVIOUS
<1>4. Merged(c, rows) = [status |-> status, started |-> started]
  BY <1>2, <1>3 DEF Merged
<1>5. Merged(c, rows).status = status
  BY <1>4
<1>6. CASE ends # {}
  <2>1. PICK e : e = CHOOSE i \in ends : TRUE
    OBVIOUS
  <2>2. e \in ends /\ status = audit[e].status
    BY <1>3, <1>6, <2>1
  <2> QED BY <1>1, <1>5, <2>2
<1>7. CASE ends = {}
  BY <1>1, <1>3, <1>5, <1>7
<1> QED BY <1>6, <1>7

\* The page takes an answer in.
LEMMA AbsorbStep ==
  ASSUME ActivityInv, NEW q, PollOK(q), q.pc = "answered", Absorb(q.rows, q.fresh), UNCHANGED <<audit, job>>
  PROVE  PageIsTrue' /\ PopsOnce' /\ untold \subseteq untold' /\ page'.last >= page.last
<1> DEFINE rows == q.rows
           touched == {audit[i].call : i \in rows}
           merged == [c \in DOMAIN page.calls \cup touched |-> IF c \in touched THEN Merged(c, rows) ELSE page.calls[c]]
           kept == Kept(merged)
           calls == [c \in kept |-> merged[c]]
           list == touched \cap kept
           last == Max({page.last} \cup rows)
<1>1. /\ rows \in SUBSET DOMAIN audit /\ q.after \in 0 .. page.last /\ q.fresh \in BOOLEAN
      /\ \A i \in DOMAIN audit, k \in rows : q.after < i /\ i =< k => i \in rows \/ audit[i].call \in untold
  BY DEF PollOK
<1>2. /\ audit \in Seq([call : Calls, status : {"running", "ok", "failed"}]) /\ Len(audit) \in Nat
      /\ DOMAIN audit = 1 .. Len(audit) /\ page.last \in 0 .. Len(audit) /\ DOMAIN page.calls \subseteq Calls
  BY DEF ActivityInv, CallsEndOnce, PageIsTrue
<1>3. last \in {page.last} \cup rows /\ \A i \in {page.last} \cup rows : i =< last
  <2>1. PICK S : S = {page.last} \cup rows
    OBVIOUS
  <2>2. S \in SUBSET (0 .. Len(audit)) /\ S # {}
    BY <1>1, <1>2, <2>1
  <2>3. Max(S) \in S /\ \A i \in S : i <= Max(S)
    BY <1>2, <2>2, GreatestNatural
  <2> QED BY <2>1, <2>3
<1>4. touched \subseteq Calls
  <2>1. \A i \in rows : audit[i] \in [call : Calls, status : {"running", "ok", "failed"}]
    <3>1. \A i \in DOMAIN audit : audit[i] \in [call : Calls, status : {"running", "ok", "failed"}]
      <4>1. PICK Row : Row = [call : Calls, status : {"running", "ok", "failed"}]
        OBVIOUS
      <4>2. audit \in Seq(Row) /\ DOMAIN audit = 1 .. Len(audit)
        BY <1>2, <4>1
      <4>3. \A i \in 1 .. Len(audit) : audit[i] \in Row
        BY <4>2
      <4> QED BY <4>1, <4>2, <4>3
    <3>2. rows \subseteq DOMAIN audit
      BY <1>1
    <3> HIDE DEF rows
    <3> QED BY <3>1, <3>2
  <2>2. \A i \in rows : audit[i].call \in Calls
    BY <2>1
  <2> HIDE DEF rows
  <2> QED BY <2>2
<1>5. DOMAIN merged = DOMAIN page.calls \cup touched /\ kept \subseteq DOMAIN merged
  BY DEF Kept
<1>6. untold' = untold \cup (DOMAIN merged \ kept)
  BY DEF Absorb
<1>7. page'.last = last /\ page'.calls = calls /\ page.announced \cup list \subseteq page'.announced /\ page.done \subseteq page'.done
  <2>1. CASE q.fresh
    <3>1. page' = [last |-> last, calls |-> calls,
                   announced |-> page.announced \cup list, done |-> page.done \cup DoneAfter(list, calls)]
      BY <2>1 DEF Absorb
    <3> HIDE DEF last, calls, list
    <3> QED BY <3>1
  <2>2. CASE ~q.fresh
    <3>1. page' = [last |-> last, calls |-> calls, announced |-> page.announced \cup kept,
                   done |-> page.done \cup {c \in kept : calls[c].status # "running"}]
      BY <2>2 DEF Absorb
    <3>2. list \subseteq kept
      OBVIOUS
    <3> HIDE DEF last, calls, list, kept
    <3> QED BY <3>1, <3>2
  <2> QED BY <2>1, <2>2
<1>8. \A c \in touched : \/ \E i \in rows \cap EndsOf(c) : merged[c].status = audit[i].status
                         \/ rows \cap EndsOf(c) = {} /\ c \in DOMAIN page.calls /\ merged[c].status = page.calls[c].status
                         \/ rows \cap EndsOf(c) = {} /\ c \notin DOMAIN page.calls /\ merged[c].status = "running"
  <2>1. \A c \in touched : merged[c] = Merged(c, rows)
    OBVIOUS
  <2> QED BY <1>1, <2>1, MergedStatus
<1>9. \A c \in DOMAIN page.calls \ touched : merged[c] = page.calls[c]
  OBVIOUS
<1>10. \A c \in kept : calls[c] = merged[c]
  OBVIOUS
<1>11. DOMAIN calls = kept
  OBVIOUS
<1>12. \A c \in Calls : EndsOf(c)' = EndsOf(c) /\ \A i, k \in EndsOf(c) : i = k
  BY CallsKept DEF ActivityInv, CallsEndOnce
<1>13. \A c \in Calls : \A i \in EndsOf(c) : i \in DOMAIN audit /\ audit[i].call = c
  BY DEF EndsOf, RowsOf
<1>14. \A i \in rows : audit[i].call \in touched
  OBVIOUS
<1> HIDE DEF touched, merged, kept, calls, list, last
<1>15. PageIsTrue'
  <2>1. ASSUME NEW c \in Calls \ untold', NEW i \in EndsOf(c), i =< last
        PROVE  c \in kept /\ calls[c].status = audit[i].status
    <3>1. CASE i =< page.last
      <4>1. c \in DOMAIN page.calls /\ page.calls[c].status = audit[i].status
        BY <1>6, <2>1, <3>1 DEF ActivityInv, PageIsTrue
      <4>2. c \in kept
        BY <1>5, <1>6, <2>1, <4>1
      <4>3. merged[c].status = audit[i].status
        BY <1>8, <1>9, <1>12, <2>1, <4>1
      <4> QED BY <1>10, <4>2, <4>3
    <3>2. CASE page.last < i
      <4>1. last \in rows
        BY <1>1, <1>2, <1>3, <1>13, <2>1, <3>2
      <4>2. i \in rows
        <5>1. i \in Int /\ q.after \in Int /\ q.after =< page.last /\ page.last \in Int
          BY <1>1, <1>2, <1>13, <2>1
        <5>2. q.after < i
          BY <3>2, <5>1
        <5> QED BY <1>1, <1>6, <1>13, <2>1, <4>1, <5>2
      <4>3. c \in touched
        BY <1>13, <1>14, <2>1, <4>2
      <4>4. merged[c].status = audit[i].status
        BY <1>8, <1>12, <2>1, <4>2, <4>3
      <4>5. c \in kept
        BY <1>5, <1>6, <2>1, <4>3
      <4> QED BY <1>10, <4>4, <4>5
    <3>3. i \in Int /\ page.last \in Int
      BY <1>2, <1>13, <2>1
    <3> QED BY <3>1, <3>2, <3>3
  <2>2. ASSUME NEW c \in kept, calls[c].status # "running" PROVE \E i \in EndsOf(c) : i =< last
    <3>1. merged[c].status # "running"
      BY <1>10, <2>2
    <3>2. CASE \E i \in rows \cap EndsOf(c) : merged[c].status = audit[i].status
      BY <1>3, <3>2
    <3>3. CASE c \in DOMAIN page.calls /\ merged[c].status = page.calls[c].status
      <4>1. PICK i \in EndsOf(c) : i =< page.last
        BY <3>1, <3>3 DEF ActivityInv, PageIsTrue
      <4>2. page.last =< last /\ i \in Int /\ page.last \in Int /\ last \in Int
        BY <1>1, <1>2, <1>3, <1>13, <3>3, <4>1
      <4> QED BY <4>1, <4>2
    <3> QED BY <1>5, <1>8, <1>9, <3>1, <3>2, <3>3
  <2>3. last \in 0 .. Len(audit) /\ kept \subseteq Calls
    BY <1>1, <1>2, <1>3, <1>4, <1>5
  <2>4. \A c \in kept : EndsOf(c)' = EndsOf(c)
    BY <1>12, <2>3
  <2> QED BY <1>7, <1>11, <1>12, <2>1, <2>2, <2>3, <2>4 DEF PageIsTrue
<1>16. PopsOnce'
  <2>1. CASE ~q.fresh
    BY <1>7, <2>1 DEF Absorb, ActivityInv, PopsOnce
  <2>2. CASE q.fresh
    <3> DEFINE first == FirstSeen(list)
               outcome == WithOutcome(list, calls)
    <3>1. /\ page'.announced = page.announced \cup list /\ page'.done = page.done \cup DoneAfter(list, calls)
          /\ popped' = [c \in Calls |-> [first |-> popped[c].first + (IF c \in first THEN 1 ELSE 0),
                                         outcome |-> popped[c].outcome + (IF c \in outcome THEN 1 ELSE 0)]]
      <4>1. page' = [last |-> last, calls |-> calls,
                     announced |-> page.announced \cup list, done |-> page.done \cup DoneAfter(list, calls)]
        BY <2>2 DEF Absorb, touched, merged, kept, calls, list, last
      <4>2. popped' = [c \in Calls |-> [first |-> popped[c].first + (IF c \in first THEN 1 ELSE 0),
                                        outcome |-> popped[c].outcome + (IF c \in outcome THEN 1 ELSE 0)]]
        BY <2>2 DEF Absorb, touched, merged, kept, calls, list, last
      <4> HIDE DEF first, outcome
      <4> QED BY <4>1, <4>2
    <3>2. \A c \in first : c \in list /\ c \notin page.announced
      BY DEF FirstSeen
    <3>3. \A c \in outcome : c \notin page.done /\ c \in DoneAfter(list, calls)
      BY DEF WithOutcome, DoneAfter
    <3> HIDE DEF first, outcome
    <3>4. ASSUME NEW c \in Calls
          PROVE  /\ popped'[c] \in [first : 0 .. 1, outcome : 0 .. 1]
                 /\ popped'[c].first = 1 => c \in page'.announced
                 /\ popped'[c].outcome = 1 => c \in page'.done
      <4>1. popped[c].first \in 0 .. 1 /\ popped[c].outcome \in 0 .. 1
        BY DEF ActivityInv, PopsOnce
      <4>2. PICK f, o : /\ f = popped[c].first + (IF c \in first THEN 1 ELSE 0)
                        /\ o = popped[c].outcome + (IF c \in outcome THEN 1 ELSE 0)
        OBVIOUS
      <4>3. popped'[c] = [first |-> f, outcome |-> o]
        BY <3>1, <4>2
      <4>4. f \in 0 .. 1 /\ (f = 1 => c \in page'.announced)
        <5>1. CASE c \in first
          <6>1. popped[c].first # 1
            BY <3>2, <5>1 DEF ActivityInv, PopsOnce
          <6> QED BY <3>1, <3>2, <4>1, <4>2, <5>1, <6>1
        <5>2. CASE c \notin first
          BY <3>1, <4>1, <4>2, <5>2 DEF ActivityInv, PopsOnce
        <5> QED BY <5>1, <5>2
      <4>5. o \in 0 .. 1 /\ (o = 1 => c \in page'.done)
        <5>1. CASE c \in outcome
          <6>1. popped[c].outcome # 1
            BY <3>3, <5>1 DEF ActivityInv, PopsOnce
          <6> QED BY <3>1, <3>3, <4>1, <4>2, <5>1, <6>1
        <5>2. CASE c \notin outcome
          BY <3>1, <4>1, <4>2, <5>2 DEF ActivityInv, PopsOnce
        <5> QED BY <5>1, <5>2
      <4> QED BY <4>3, <4>4, <4>5
    <3>5. popped' \in [Calls -> [first : 0 .. 1, outcome : 0 .. 1]]
      BY <3>1, <3>4
    <3> QED BY <3>4, <3>5 DEF PopsOnce
  <2> QED BY <1>1, <2>1, <2>2
<1>17. page'.last >= page.last
  BY <1>1, <1>2, <1>3, <1>7
<1> QED BY <1>6, <1>15, <1>16, <1>17

LEMMA FinishPollStep == ASSUME ActivityInv, NEW p \in Polls, FinishPoll(p) PROVE ActivityInv'
<1>1. CallsEndOnce' /\ \A c \in Calls : EndsOf(c)' = EndsOf(c)
  BY CallsKept DEF FinishPoll, requestVars
<1>2. PICK q : q = poll[p]
  OBVIOUS
<1>3. PageIsTrue' /\ PopsOnce' /\ untold \subseteq untold' /\ page'.last >= page.last
  <2>1. CASE PollAt(p, "answered") /\ Absorb(poll[p].rows, poll[p].fresh)
    <3>1. PollOK(q) /\ q.pc = "answered"
      BY <1>2, <2>1 DEF PollAt, ActivityInv
    <3> QED BY <1>2, <2>1, <3>1, AbsorbStep DEF FinishPoll, requestVars
  <2>2. CASE UNCHANGED <<page, popped, untold>>
    <3>1. page.last \in Int
      BY DEF ActivityInv, PageIsTrue
    <3> QED BY <1>1, <2>2, <3>1 DEF FinishPoll, ActivityInv, PageIsTrue, PopsOnce
  <2> QED BY <2>1, <2>2 DEF FinishPoll
<1>4. UNCHANGED audit /\ poll' = [poll EXCEPT ![p] = NoPoll]
  BY DEF FinishPoll
<1>5. NoPoll.pc = "idle"
  BY DEF NoPoll
<1>6. \A k \in Polls : PollOK(poll[k])'
  <2> SUFFICES ASSUME NEW k \in Polls PROVE PollOK(poll[k])'
    OBVIOUS
  <2>1. CASE k = p
    BY <1>4, <1>5, <2>1 DEF ActivityInv, PollOK
  <2>2. CASE k # p
    <3>1. PICK o : o = poll[k]
      OBVIOUS
    <3>2. PollOK(o) /\ poll'[k] = o
      BY <1>4, <2>2, <3>1 DEF ActivityInv
    <3>3. 0 .. page.last \subseteq 0 .. page'.last
      BY <1>3 DEF ActivityInv, PageIsTrue
    <3>4. PollOK(o)'
      BY <1>3, <1>4, <3>2, <3>3 DEF PollOK
    <3> QED BY <3>2, <3>4 DEF PollOK
  <2> QED BY <2>1, <2>2
<1>7. Polling'
  <2>1. timers.orphans \in Nat
    BY DEF ActivityInv, Polling
  <2>2. PICK n : n = timers.orphans + (IF timers.armed THEN 1 ELSE 0)
    OBVIOUS
  <2>3. timers' = [armed |-> TRUE, orphans |-> n] /\ n \in Nat
    BY <2>1, <2>2 DEF FinishPoll
  <2> QED BY <2>3 DEF Polling
<1> QED BY <1>1, <1>3, <1>4, <1>6, <1>7 DEF ActivityInv

LEMMA ActivityStep == ASSUME ActivityInv, [ActivityNext]_activityVars PROVE ActivityInv'
<1>1. CASE UNCHANGED activityVars
  <2>1. CallsEndOnce' /\ \A c \in Calls : EndsOf(c)' = EndsOf(c)
    BY <1>1, CallsKept DEF activityVars, requestVars
  <2> QED BY <1>1, <2>1 DEF activityVars, ActivityInv, PollOK, PageIsTrue, PopsOnce, Polling, PollAt
<1>2. CASE ActivityNext
  BY <1>2, StartToolStep, FinishToolStep, StartPollStep, AnswerPollStep, FinishPollStep DEF ActivityNext
<1> QED BY <1>1, <1>2

LEMMA ActivityStart == RequestsInit /\ ActivityInit => ActivityInv
<1> SUFFICES ASSUME RequestsInit, ActivityInit PROVE ActivityInv
  OBVIOUS
<1>1. PICK q : q = [pc |-> "asked", after |-> 0, fresh |-> FALSE]
  OBVIOUS
<1>2. q.pc = "asked" /\ q.after = 0 /\ q.fresh \in BOOLEAN /\ NoPoll.pc = "idle"
  BY <1>1 DEF NoPoll
<1>3. page.last = 0 /\ page.calls = <<>> /\ audit = <<>> /\ DOMAIN <<>> = {}
  BY DEF ActivityInit
<1>4. PICK first : first = CHOOSE k \in Polls : TRUE
  OBVIOUS
<1>5. first \in Polls
  BY <1>4, ActivityAssumption
<1>6. poll = [p \in Polls |-> IF p = first THEN q ELSE NoPoll]
  BY <1>1, <1>4 DEF ActivityInit
<1>7. DOMAIN poll = Polls /\ \A p \in Polls : PollOK(poll[p])
  BY <1>2, <1>3, <1>6 DEF PollOK
<1>8. \A c : EndsOf(c) = {}
  BY <1>3 DEF EndsOf, RowsOf
<1>9. CallsEndOnce
  BY <1>3, <1>8 DEF CallsEndOnce, RequestsInit, NoJob, At
<1>10. PageIsTrue
  BY <1>3, <1>8 DEF PageIsTrue
<1>11. PopsOnce
  <2>1. PICK none : none = [first |-> 0, outcome |-> 0]
    OBVIOUS
  <2>2. none \in [first : 0 .. 1, outcome : 0 .. 1] /\ none.first = 0 /\ none.outcome = 0
    BY <2>1
  <2>3. popped = [c \in Calls |-> none]
    BY <2>1 DEF ActivityInit
  <2> QED BY <2>2, <2>3 DEF PopsOnce
<1>12. Polling
  BY <1>2, <1>5, <1>6 DEF Polling, PollAt, ActivityInit
<1> QED BY <1>7, <1>9, <1>10, <1>11, <1>12 DEF ActivityInv

\* However polls overlap and in whatever order their answers come, and whichever rows of the audit fail to be
\* written: the page shows a call it has read the end of with that end, pops every call up once, and goes on
\* polling (poll, absorb and announce of mcp-live.js), except for calls of which a row was skipped.
THEOREM ActivityFeedIsTrue == ActivitySpec => []FeedIsTrue
<1>1. ActivityInv => FeedIsTrue
  <2> SUFFICES ASSUME ActivityInv PROVE FeedIsTrue
    OBVIOUS
  <2>1. ASSUME NEW c \in DOMAIN page.calls \ untold
        PROVE  LET ends == {i \in RowsOf(c) : audit[i].status # "running" /\ i =< page.last} IN
               IF ends = {} THEN page.calls[c].status = "running"
               ELSE \E i \in ends : page.calls[c].status = audit[i].status
    <3>1. {i \in RowsOf(c) : audit[i].status # "running" /\ i =< page.last} = {i \in EndsOf(c) : i =< page.last}
      BY DEF EndsOf
    <3>2. c \in Calls
      BY <2>1 DEF ActivityInv, PageIsTrue
    <3>3. page.calls[c].status # "running" => \E i \in EndsOf(c) : i =< page.last
      BY DEF ActivityInv, PageIsTrue
    <3>4. \A i \in EndsOf(c) : i =< page.last => page.calls[c].status = audit[i].status
      BY <2>1, <3>2 DEF ActivityInv, PageIsTrue
    <3> QED BY <3>1, <3>3, <3>4
  <2>2. \A c \in Calls : popped[c].first =< 1 /\ popped[c].outcome =< 1
    BY DEF ActivityInv, PopsOnce
  <2>3. timers.armed \/ timers.orphans > 0 \/ \E p \in Polls : ~PollAt(p, "idle")
    BY DEF ActivityInv, Polling
  <2> QED BY <2>1, <2>2, <2>3 DEF FeedIsTrue
<1> QED BY <1>1, ActivityStart, ActivityStep, PTL DEF ActivitySpec

-----------------------------------------------------------------------------
(* The browser console. *)

Rendering(t) == t \in DOMAIN routes /\ routes[t].pc = "render"

\* The newest route has drawn its view.
Entered == IF current.token \in DOMAIN routes THEN Rendering(current.token) ELSE current.token \notin stuck

ConsoleTypeOK ==
  /\ {"name", "cleanup", "token"} \subseteq DOMAIN current
  /\ current.token \in Nat
  /\ DOMAIN routes \subseteq 0 .. current.token
  /\ \A t \in DOMAIN routes : {"pc", "name"} \subseteq DOMAIN routes[t]
  /\ events \in Nat

\* Only the newest route enters, so once it has the element is its own; and a clean-up is pending only for
\* the view that is there.
NewestOwns ==
  /\ \A t, u \in DOMAIN routes : Rendering(t) /\ Rendering(u) => t = u
  /\ Entered => /\ painted.by = current.token /\ painted.name = nav /\ current.name = nav
                /\ \A t \in DOMAIN routes : Rendering(t) => t = current.token
  /\ live \subseteq {current.cleanup}
  /\ \A t \in DOMAIN routes : Rendering(t) => live = {}

\* What was asked last is what was typed last, or shown.
PaletteOK ==
  palette # None =>
    /\ {"input", "due", "seq", "asked", "shown", "failed"} \subseteq DOMAIN palette
    /\ palette.seq \in Nat /\ DOMAIN palette.asked \subseteq 0 .. palette.seq
    /\ ~palette.due /\ palette.seq \in DOMAIN palette.asked => palette.asked[palette.seq] = palette.input
    /\ ~palette.due /\ palette.seq \notin DOMAIN palette.asked /\ ~palette.failed => palette.shown = palette.input

ConsoleInv ==
  /\ ConsoleTypeOK
  /\ events = 0 => nav = hash
  /\ current.token \in DOMAIN routes => routes[current.token].name = nav
  /\ ~overlapped => NewestOwns
  /\ PaletteOK

\* A call of route: the newest has yet to load.
LEMMA RouteStep ==
  ASSUME ConsoleInv, NEW force, Route(force),
         UNCHANGED <<hash, painted, live, overlapped, stuck>>, events' \in Nat
  PROVE  ConsoleInv'
<1>1. PICK t, same : t = current.token + 1 /\ same = (current.name = hash /\ ~force)
  OBVIOUS
<1>2. PICK new : new = [pc |-> "load", name |-> hash, same |-> same]
  OBVIOUS
<1>3. /\ current' = [current EXCEPT !.token = t] /\ routes' = Patched(routes, [x \in {t} |-> new])
      /\ nav' = hash /\ palette' = None
  BY <1>1, <1>2, Zenon DEF Route
<1>4. new.pc = "load" /\ new.name = hash /\ {"pc", "name"} \subseteq DOMAIN new
  BY <1>2
<1>5. t \in Nat /\ t > current.token /\ t \notin DOMAIN routes
  BY <1>1 DEF ConsoleInv, ConsoleTypeOK
<1>6. /\ {"name", "cleanup", "token"} \subseteq DOMAIN current'
      /\ current'.token = t /\ current'.name = current.name /\ current'.cleanup = current.cleanup
  BY <1>3 DEF ConsoleInv, ConsoleTypeOK
<1>7. /\ DOMAIN routes' = DOMAIN routes \cup {t} /\ routes'[t] = new
      /\ \A u \in DOMAIN routes : routes'[u] = routes[u]
  BY <1>3, <1>5 DEF Patched
<1>8. \A u \in DOMAIN routes' : Rendering(u)' => u \in DOMAIN routes /\ Rendering(u)
  BY <1>4, <1>7 DEF Rendering
<1>9. ConsoleTypeOK'
  BY <1>4, <1>5, <1>6, <1>7 DEF ConsoleInv, ConsoleTypeOK
<1>10. ~Entered'
  BY <1>4, <1>6, <1>7 DEF Entered, Rendering
<1>11. ~overlapped' => NewestOwns'
  BY <1>6, <1>8, <1>10 DEF ConsoleInv, NewestOwns
<1> QED BY <1>3, <1>4, <1>6, <1>7, <1>9, <1>11 DEF ConsoleInv, PaletteOK

LEMMA ArrivalStep == ASSUME ConsoleInv, HashChanged \/ RouteAgain \/ SignIn PROVE ConsoleInv'
<1>1. events' \in Nat
  <2>1. events \in Nat
    BY DEF ConsoleInv, ConsoleTypeOK
  <2>2. (events > 0 /\ events' = events - 1) \/ events' = events
    BY DEF HashChanged, RouteAgain, SignIn
  <2> QED BY <2>1, <2>2
<1> QED BY <1>1, RouteStep DEF HashChanged, RouteAgain, SignIn

\* What ends a route without painting.
LEMMA EndRoute ==
  ASSUME ConsoleInv, NEW t \in DOMAIN routes, routes' = Without(t), t # current.token \/ t \in stuck', ~Rendering(t),
         stuck \subseteq stuck', UNCHANGED <<hash, events, current, nav, painted, palette, live, overlapped>>
  PROVE  ConsoleInv'
<1>1. /\ DOMAIN routes' = DOMAIN routes \ {t} /\ \A u \in DOMAIN routes' : routes'[u] = routes[u]
  BY DEF Without, Restrict
<1>2. \A u \in DOMAIN routes' : Rendering(u)' => u \in DOMAIN routes /\ Rendering(u)
  BY <1>1 DEF Rendering
<1>3. Entered' => Entered
  BY <1>1 DEF Entered, Rendering
<1>4. ~overlapped' => NewestOwns'
  BY <1>1, <1>2, <1>3 DEF ConsoleInv, NewestOwns
<1> QED BY <1>1, <1>4 DEF ConsoleInv, ConsoleTypeOK, PaletteOK

\* The newest route enters.
LEMMA EnterStep ==
  ASSUME ConsoleInv, NEW t \in DOMAIN routes, t = current.token, Enter(t), ~Rendering(t),
         UNCHANGED <<hash, events, nav, palette, stuck>>
  PROVE  ConsoleInv'
<1>1. PICK name, paint, row : name = routes[t].name /\ paint = [by |-> t, name |-> name] /\ row = [routes[t] EXCEPT !.pc = "render"]
  OBVIOUS
<1>2. /\ live' = live \ {current.cleanup} /\ current' = [current EXCEPT !.cleanup = None, !.name = name]
      /\ painted' = paint /\ routes' = [routes EXCEPT ![t] = row]
      /\ overlapped' <=> (overlapped \/ \E u \in DOMAIN routes : Rendering(u))
  BY <1>1 DEF Enter, Rendering
<1>3. paint.by = t /\ paint.name = name /\ name = nav
  BY <1>1 DEF ConsoleInv
<1>4. {"pc", "name"} \subseteq DOMAIN row /\ row.pc = "render" /\ row.name = name
  BY <1>1 DEF ConsoleInv, ConsoleTypeOK
<1>5. /\ {"name", "cleanup", "token"} \subseteq DOMAIN current'
      /\ current'.token = current.token /\ current'.name = name /\ current'.cleanup = None
  BY <1>2 DEF ConsoleInv, ConsoleTypeOK
<1>6. DOMAIN routes' = DOMAIN routes /\ routes'[t] = row /\ \A u \in DOMAIN routes : u # t => routes'[u] = routes[u]
  BY <1>2
<1>7. ConsoleTypeOK'
  BY <1>4, <1>5, <1>6 DEF ConsoleInv, ConsoleTypeOK
<1>8. ASSUME ~overlapped' PROVE NewestOwns'
  <2>1. ~overlapped /\ \A u \in DOMAIN routes : ~Rendering(u)
    BY <1>2, <1>8
  <2>2. \A u \in DOMAIN routes' : Rendering(u)' => u = t
    BY <1>6, <2>1 DEF Rendering
  <2>3. live' = {}
    BY <1>2, <2>1 DEF ConsoleInv, NewestOwns
  <2> QED BY <1>2, <1>3, <1>5, <2>2, <2>3 DEF NewestOwns
<1> QED BY <1>3, <1>4, <1>5, <1>6, <1>7, <1>8 DEF ConsoleInv, PaletteOK

LEMMA LoadedStep == ASSUME ConsoleInv, NEW t \in DOMAIN routes, Loaded(t) \/ Left(t) PROVE ConsoleInv'
<1>1. ~Rendering(t) /\ UNCHANGED <<hash, events, nav, palette>>
  BY DEF Loaded, Left, Rendering
<1>2. CASE Superseded(t)
  BY <1>1, <1>2, EndRoute DEF Superseded, Loaded, Left
<1>3. CASE routes' = Without(t) /\ stuck' = stuck \cup {t} /\ UNCHANGED <<current, painted, live, overlapped>>
  BY <1>1, <1>3, EndRoute
<1>4. CASE t = current.token /\ Enter(t) /\ UNCHANGED stuck
  BY <1>1, <1>4, EnterStep
<1>5. CASE routes' = [routes EXCEPT ![t].pc = "leave"] /\ UNCHANGED <<current, painted, live, overlapped, stuck>>
  <2>1. PICK row : row = [routes[t] EXCEPT !.pc = "leave"]
    OBVIOUS
  <2>2. {"pc", "name"} \subseteq DOMAIN row /\ row.pc = "leave" /\ row.name = routes[t].name
    BY <2>1 DEF ConsoleInv, ConsoleTypeOK
  <2>3. DOMAIN routes' = DOMAIN routes /\ routes'[t] = row /\ \A u \in DOMAIN routes : u # t => routes'[u] = routes[u]
    BY <1>5, <2>1
  <2>4. \A u \in DOMAIN routes' : Rendering(u)' <=> Rendering(u)
    BY <1>1, <2>2, <2>3 DEF Rendering
  <2>5. Entered' <=> Entered
    BY <1>5, <2>3, <2>4 DEF Entered
  <2>6. ~overlapped' => NewestOwns'
    BY <1>1, <1>5, <2>3, <2>4, <2>5 DEF ConsoleInv, NewestOwns
  <2>7. ConsoleTypeOK'
    BY <1>1, <1>5, <2>2, <2>3 DEF ConsoleInv, ConsoleTypeOK
  <2> QED BY <1>1, <1>5, <2>2, <2>3, <2>6, <2>7 DEF ConsoleInv, PaletteOK
<1> QED BY <1>2, <1>3, <1>4, <1>5 DEF Loaded, Left

LEMMA RenderedStep == ASSUME ConsoleInv, NEW t \in DOMAIN routes, Rendered(t) PROVE ConsoleInv'
<1>1. PICK c : c = IF routes[t].name \in Cleaning THEN t ELSE None
  OBVIOUS
<1>2. /\ Rendering(t) /\ current' = [current EXCEPT !.cleanup = c] /\ live' = live \cup ({c} \ {None})
      /\ routes' = Without(t) /\ UNCHANGED <<hash, events, nav, painted, palette, overlapped, stuck>>
  BY <1>1 DEF Rendered, Rendering
<1>3. DOMAIN routes' = DOMAIN routes \ {t} /\ \A u \in DOMAIN routes' : routes'[u] = routes[u]
  BY <1>2 DEF Without, Restrict
<1>4. /\ {"name", "cleanup", "token"} \subseteq DOMAIN current'
      /\ current'.token = current.token /\ current'.name = current.name /\ current'.cleanup = c
  BY <1>2 DEF ConsoleInv, ConsoleTypeOK
<1>5. ASSUME ~overlapped' PROVE NewestOwns'
  <2>1. NewestOwns
    BY <1>2, <1>5 DEF ConsoleInv
  <2>2. \A u \in DOMAIN routes' : ~Rendering(u)'
    BY <1>2, <1>3, <2>1 DEF NewestOwns, Rendering
  <2>3. live' \subseteq {c}
    BY <1>2, <2>1 DEF NewestOwns
  <2>4. Entered' => Entered
    BY <1>2, <1>3, <1>4 DEF Entered, Rendering
  <2> QED BY <1>2, <1>4, <2>1, <2>2, <2>3, <2>4 DEF NewestOwns
<1> QED BY <1>2, <1>3, <1>4, <1>5 DEF ConsoleInv, ConsoleTypeOK, PaletteOK

LEMMA FailedStep == ASSUME ConsoleInv, NEW t \in DOMAIN routes, Failed(t) PROVE ConsoleInv'
<1>1. PICK paint : paint = [by |-> t, name |-> routes[t].name]
  OBVIOUS
<1>2. /\ Rendering(t) /\ painted' = paint /\ routes' = Without(t)
      /\ UNCHANGED <<hash, events, current, nav, palette, live, overlapped, stuck>>
  BY <1>1 DEF Failed, Rendering
<1>3. DOMAIN routes' = DOMAIN routes \ {t} /\ \A u \in DOMAIN routes' : routes'[u] = routes[u]
  BY <1>2 DEF Without, Restrict
<1>4. paint.by = t /\ paint.name = routes[t].name
  BY <1>1
<1>5. ASSUME ~overlapped' PROVE NewestOwns'
  <2>1. NewestOwns
    BY <1>2, <1>5 DEF ConsoleInv
  <2>2. \A u \in DOMAIN routes' : ~Rendering(u)'
    BY <1>2, <1>3, <2>1 DEF NewestOwns, Rendering
  <2>3. Entered' => Entered
    BY <1>2, <1>3 DEF Entered, Rendering
  <2>4. Entered => t = current.token /\ routes[t].name = nav
    BY <1>2, <2>1 DEF NewestOwns, ConsoleInv
  <2> QED BY <1>2, <1>4, <2>1, <2>2, <2>3, <2>4 DEF NewestOwns
<1> QED BY <1>2, <1>3, <1>5 DEF ConsoleInv, ConsoleTypeOK, PaletteOK

\* Steps of the palette leave the routes alone.
LEMMA PaletteFrame ==
  ASSUME ConsoleInv, PaletteOnly \/ UNCHANGED <<hash, events, current, nav, painted, routes, live, overlapped, stuck>>, PaletteOK'
  PROVE  ConsoleInv'
<1>1. UNCHANGED <<hash, events, current, nav, painted, routes, live, overlapped, stuck>>
  BY DEF PaletteOnly
<1>2. ~overlapped' => NewestOwns'
  BY <1>1 DEF ConsoleInv, NewestOwns, Entered, Rendering
<1> QED BY <1>1, <1>2 DEF ConsoleInv, ConsoleTypeOK

LEMMA TypeStep ==
  ASSUME ConsoleInv, OpenPalette \/ ClosePalette \/ Type \/ SessionEnds \/ SetHash
  PROVE  ConsoleInv'
<1>1. CASE OpenPalette
  <2>1. PICK p : p = [input |-> 0, due |-> FALSE, seq |-> 1, asked |-> <<>>, shown |-> 0, failed |-> FALSE]
    OBVIOUS
  <2>2. /\ {"input", "due", "seq", "asked", "shown", "failed"} \subseteq DOMAIN p
        /\ p.seq = 1 /\ DOMAIN p.asked = {} /\ p.shown = p.input
    BY <2>1
  <2> QED BY <1>1, <2>1, <2>2, PaletteFrame DEF OpenPalette, PaletteOK
<1>2. CASE ClosePalette \/ SessionEnds
  BY <1>2, PaletteFrame DEF ClosePalette, SessionEnds, PaletteOK
<1>3. CASE Type
  <2>1. PICK p : p = [palette EXCEPT !.input = palette.input + 1, !.due = TRUE]
    OBVIOUS
  <2>2. /\ {"input", "due", "seq", "asked", "shown", "failed"} \subseteq DOMAIN p
        /\ p.due = TRUE /\ p.seq = palette.seq /\ p.asked = palette.asked
    BY <1>3, <2>1 DEF Type, ConsoleInv, PaletteOK
  <2>3. palette' = p
    BY <1>3, <2>1 DEF Type
  <2>4. palette.seq \in Nat /\ DOMAIN palette.asked \subseteq 0 .. palette.seq
    BY <1>3 DEF Type, ConsoleInv, PaletteOK
  <2>5. PaletteOK'
    BY <2>2, <2>3, <2>4 DEF PaletteOK
  <2> QED BY <1>3, <2>5, PaletteFrame DEF Type
<1>4. CASE SetHash
  <2>1. events' \in Nat /\ events' # 0 /\ UNCHANGED <<current, nav, painted, routes, palette, live, overlapped, stuck>>
    BY <1>4 DEF SetHash, ConsoleInv, ConsoleTypeOK
  <2>2. ~overlapped' => NewestOwns'
    BY <2>1 DEF ConsoleInv, NewestOwns, Entered, Rendering
  <2> QED BY <2>1, <2>2 DEF ConsoleInv, ConsoleTypeOK, PaletteOK
<1> QED BY <1>1, <1>2, <1>3, <1>4

LEMMA SearchPaletteStep == ASSUME ConsoleInv, SearchPalette PROVE ConsoleInv'
<1>1. PICK mine, input : mine = palette.seq + 1 /\ input = palette.input
  OBVIOUS
<1>2. /\ {"input", "due", "seq", "asked", "shown", "failed"} \subseteq DOMAIN palette
      /\ palette.seq \in Nat /\ DOMAIN palette.asked \subseteq 0 .. palette.seq
  BY DEF SearchPalette, ConsoleInv, PaletteOK
<1>3. mine \in Nat /\ 0 .. palette.seq \subseteq 0 .. mine /\ mine \notin DOMAIN palette.asked /\ mine \in 0 .. mine
  BY <1>1, <1>2
<1>4. PICK asked : asked = Patched(palette.asked, [x \in {mine} |-> input])
  OBVIOUS
<1>5. DOMAIN asked = DOMAIN palette.asked \cup {mine} /\ asked[mine] = input
  BY <1>4 DEF Patched
<1>6. CASE palette' = [palette EXCEPT !.due = FALSE, !.seq = mine, !.failed = FALSE, !.shown = input]
  <2>1. /\ {"input", "due", "seq", "asked", "shown", "failed"} \subseteq DOMAIN palette'
        /\ palette'.seq = mine /\ palette'.asked = palette.asked /\ palette'.shown = input /\ palette'.input = input
    BY <1>1, <1>2, <1>6
  <2>2. PaletteOK'
    BY <1>2, <1>3, <2>1 DEF PaletteOK
  <2> QED BY <2>2, PaletteFrame DEF SearchPalette
<1>7. CASE palette' = [palette EXCEPT !.due = FALSE, !.seq = mine, !.failed = FALSE, !.asked = asked]
  <2>1. /\ {"input", "due", "seq", "asked", "shown", "failed"} \subseteq DOMAIN palette'
        /\ palette'.seq = mine /\ palette'.asked = asked /\ palette'.input = input
    BY <1>1, <1>2, <1>7
  <2>2. PaletteOK'
    BY <1>2, <1>3, <1>5, <2>1 DEF PaletteOK
  <2> QED BY <2>2, PaletteFrame DEF SearchPalette
<1> QED BY <1>1, <1>4, <1>6, <1>7 DEF SearchPalette

LEMMA FoundStep == ASSUME ConsoleInv, Found PROVE ConsoleInv'
<1>1. PICK mine \in DOMAIN palette.asked :
        \/ palette' = [palette EXCEPT !.asked = Restrict(palette.asked, DOMAIN palette.asked \ {mine}),
                                      !.shown = IF mine = palette.seq THEN palette.asked[mine] ELSE palette.shown]
        \/ palette' = [palette EXCEPT !.asked = Restrict(palette.asked, DOMAIN palette.asked \ {mine}),
                                      !.failed = palette.failed \/ mine = palette.seq]
  BY DEF Found
<1>2. /\ {"input", "due", "seq", "asked", "shown", "failed"} \subseteq DOMAIN palette
      /\ palette.seq \in Nat /\ DOMAIN palette.asked \subseteq 0 .. palette.seq
  BY DEF Found, ConsoleInv, PaletteOK
<1>3. PICK asked : asked = Restrict(palette.asked, DOMAIN palette.asked \ {mine})
  OBVIOUS
<1>4. DOMAIN asked = DOMAIN palette.asked \ {mine} /\ \A x \in DOMAIN asked : asked[x] = palette.asked[x]
  BY <1>3 DEF Restrict
<1>5. /\ ~palette.due /\ palette.seq \in DOMAIN palette.asked => palette.asked[palette.seq] = palette.input
      /\ ~palette.due /\ palette.seq \notin DOMAIN palette.asked /\ ~palette.failed => palette.shown = palette.input
  BY DEF Found, ConsoleInv, PaletteOK
<1>6. CASE palette' = [palette EXCEPT !.asked = asked, !.shown = IF mine = palette.seq THEN palette.asked[mine] ELSE palette.shown]
  <2>1. PICK shown : shown = IF mine = palette.seq THEN palette.asked[mine] ELSE palette.shown
    OBVIOUS
  <2>2. /\ {"input", "due", "seq", "asked", "shown", "failed"} \subseteq DOMAIN palette' /\ palette'.shown = shown
        /\ palette'.seq = palette.seq /\ palette'.asked = asked /\ palette'.input = palette.input
        /\ palette'.due = palette.due /\ palette'.failed = palette.failed
    BY <1>2, <1>6, <2>1
  <2>3. PaletteOK'
    BY <1>2, <1>4, <1>5, <2>1, <2>2 DEF PaletteOK
  <2> QED BY <2>3, PaletteFrame DEF Found
<1>7. CASE palette' = [palette EXCEPT !.asked = asked, !.failed = palette.failed \/ mine = palette.seq]
  <2>1. PICK failed : failed = (palette.failed \/ mine = palette.seq)
    OBVIOUS
  <2>2. palette' = [palette EXCEPT !.asked = asked, !.failed = failed]
    BY <1>7, <2>1
  <2>3. /\ {"input", "due", "seq", "asked", "shown", "failed"} \subseteq DOMAIN palette' /\ palette'.shown = palette.shown
        /\ palette'.seq = palette.seq /\ palette'.asked = asked /\ palette'.input = palette.input
        /\ palette'.due = palette.due /\ palette'.failed = failed
    BY <1>2, <2>2
  <2>4. PaletteOK'
    BY <1>2, <1>4, <1>5, <2>1, <2>3 DEF PaletteOK
  <2> QED BY <2>4, PaletteFrame DEF Found
<1> QED BY <1>1, <1>3, <1>6, <1>7

LEMMA ConsoleStep == ASSUME ConsoleInv, [ConsoleNext]_consoleVars PROVE ConsoleInv'
<1>1. CASE UNCHANGED consoleVars
  BY <1>1, PaletteFrame DEF consoleVars, ConsoleInv, PaletteOK
<1>2. CASE ConsoleNext
  BY <1>2, ArrivalStep, LoadedStep, RenderedStep, FailedStep, TypeStep, SearchPaletteStep, FoundStep DEF ConsoleNext
<1> QED BY <1>1, <1>2

LEMMA ConsoleStart == ConsoleInit => ConsoleInv
<1> SUFFICES ASSUME ConsoleInit PROVE ConsoleInv
  OBVIOUS
<1>1. PICK new : new = [pc |-> "load", name |-> hash, same |-> FALSE]
  OBVIOUS
<1>2. new.pc = "load" /\ new.name = hash /\ {"pc", "name"} \subseteq DOMAIN new
  BY <1>1
<1>3. DOMAIN routes = {1} /\ routes[1] = new
  BY <1>1 DEF ConsoleInit
<1>4. {"name", "cleanup", "token"} \subseteq DOMAIN current /\ current.token = 1
  BY DEF ConsoleInit
<1>5. \A t \in DOMAIN routes : ~Rendering(t)
  BY <1>2, <1>3 DEF Rendering
<1>6. ~Entered
  BY <1>3, <1>4, <1>5 DEF Entered
<1>7. NewestOwns
  BY <1>5, <1>6 DEF NewestOwns, ConsoleInit
<1>8. ConsoleTypeOK
  BY <1>2, <1>3, <1>4 DEF ConsoleTypeOK, ConsoleInit
<1> QED BY <1>2, <1>3, <1>4, <1>7, <1>8 DEF ConsoleInv, PaletteOK, ConsoleInit

\* However routes supersede each other while they load or leave, and whatever the session gate and the palette
\* do meanwhile, the console comes to rest on the view the address names, with the clean-up of that view, and
\* the palette on what was typed last (route and search of app.js), unless a view was entered while another
\* rendered, a module could not be loaded, or the search failed.
THEOREM LatestViewWins == ConsoleSpec => []LatestWins
<1>1. ConsoleInv => LatestWins
  <2> SUFFICES ASSUME ConsoleInv PROVE LatestWins
    OBVIOUS
  <2>1. ASSUME DOMAIN routes = {}, events = 0, ~overlapped, current.token \notin stuck
        PROVE  /\ nav = hash /\ current.name = hash /\ painted.name = hash
               /\ painted.by = current.token /\ live \subseteq {current.cleanup}
    <3>1. Entered
      BY <2>1 DEF Entered
    <3> QED BY <2>1, <3>1 DEF ConsoleInv, NewestOwns
  <2>2. palette # None /\ ~palette.due /\ DOMAIN palette.asked = {} /\ ~palette.failed => palette.shown = palette.input
    BY DEF ConsoleInv, PaletteOK
  <2> QED BY <2>1, <2>2 DEF LatestWins
<1> QED BY <1>1, ConsoleStart, ConsoleStep, PTL DEF ConsoleSpec

-----------------------------------------------------------------------------
(* NetCoop. *)

\* What the report ought to be.
Seen == {r \in Readings : r[2] # "scope"}
Doubted == UNION {m.about : m \in {x \in ToSet(log) : x.type = "challenge"}}
Diagnosed == [status |-> "diagnosed", basis |-> Seen, answers |-> Doubted]

ResultsBy(agent) == {m \in ToSet(log) : m.from = agent /\ m.type = "result"}
AllDiagnosed(agent) == \A m \in ResultsBy(agent) : m.about = Diagnosed
OnlyNotices == \A m \in ToSet(queue) : m.to = "orchestrator"

\* Until correlation starts the log holds tasks and what their owners answer.
LogOfOwners ==
  \A m \in ToSet(log) :
    /\ m.from \in Owners \cup {"orchestrator"}
    /\ m.type \in {"task", "finding", "result", "error"}
    /\ m.type = "finding" => m.from \in Owners

Gathering ==
  /\ LogOfOwners
  /\ \A m \in ToSet(queue) : m.to = "orchestrator" \/ (m.type = "task" /\ m.to \in Owners)

Asked == LogOfOwners /\ queue = <<Task("correlation_agent", Readings)>>

\* The owner whose answer a message asks for or brings.
OwnerOf(m) == IF m.type = "challenge" THEN m.to ELSE m.from
IsChallenge(m) == m.type = "challenge" /\ m.to \in Owners
IsResponse(m) == m.type = "challenge_response" /\ m.from \in Owners /\ m.to = "correlation_agent"

\* Each owner that was asked is asked or answers once, and the answers are all there in the end.
Doubting ==
  /\ DOMAIN st = {"seen", "pending", "answers"}
  /\ st.seen = Seen /\ st.pending # {}
  /\ \A m \in ToSet(queue) : IsChallenge(m) \/ IsResponse(m)
  /\ \A i, j \in DOMAIN queue : OwnerOf(queue[i]) = OwnerOf(queue[j]) => i = j
  /\ {OwnerOf(m) : m \in ToSet(queue)} = st.pending
  /\ Doubted = st.answers \cup UNION {m.about : m \in ToSet(queue)}
  /\ ResultsBy("correlation_agent") = {} /\ ResultsBy("reporting_agent") = {}

Concluding ==
  /\ queue = <<Message("correlation_agent", "reporting_agent", "result", Diagnosed)>>
  /\ ResultsBy("correlation_agent") # {} /\ AllDiagnosed("correlation_agent")
  /\ ResultsBy("reporting_agent") = {}

\* The reporting agent has reported, or thrown on the diagnosis.
Tried ==
  /\ AllDiagnosed("reporting_agent")
  /\ \/ ResultsBy("reporting_agent") # {}
     \/ \E m \in failures : m.from = "correlation_agent" /\ m.to = "reporting_agent"

Concluded ==
  /\ OnlyNotices
  /\ ResultsBy("correlation_agent") # {} /\ AllDiagnosed("correlation_agent")
  /\ Tried

Forwarded == Tried /\ queue = <<Message("orchestrator", "reporting_agent", "result", Diagnosed)>>

Reported == OnlyNotices /\ ResultsBy("reporting_agent") # {} /\ AllDiagnosed("reporting_agent")

Stage ==
  \/ phase \in {"start", "analysis", "topology"} /\ Gathering
  \/ phase = "correlation" /\ (Asked \/ Doubting \/ Concluding \/ Concluded)
  \/ phase = "reporting" /\ (Forwarded \/ Reported)
  \/ phase = "done" /\ queue = <<>> /\ report = Diagnosed

Sequences == log \in Seq(ToSet(log)) /\ queue \in Seq(ToSet(queue))

NetCoopInv ==
  /\ IsFiniteSet(failures)
  /\ Survivable => Sequences /\ Stage

\* Sequences by what they hold.
LEMMA WholeSequence ==
  ASSUME NEW S, NEW s \in Seq(S)
  PROVE  s \in Seq(ToSet(s)) /\ \A i \in 1 .. Len(s) : s[i] \in ToSet(s)
<1>1. \A i \in 1 .. Len(s) : s[i] \in ToSet(s)
  BY DEF ToSet
<1>2. Len(s) \in Nat /\ DOMAIN s = 1 .. Len(s) /\ s \in [1 .. Len(s) -> ToSet(s)]
  BY <1>1
<1> QED BY <1>1, <1>2

LEMMA JoinedSet ==
  ASSUME NEW s, s \in Seq(ToSet(s)), NEW t, t \in Seq(ToSet(t))
  PROVE  s \o t \in Seq(ToSet(s \o t)) /\ ToSet(s \o t) = ToSet(s) \cup ToSet(t)
<1> DEFINE U == ToSet(s) \cup ToSet(t)
<1>1. s \in Seq(U) /\ t \in Seq(U)
  OBVIOUS
<1>2. /\ s \o t \in Seq(U) /\ Len(s \o t) = Len(s) + Len(t)
      /\ \A i \in 1 .. Len(s) : (s \o t)[i] = s[i]
      /\ \A i \in 1 .. Len(t) : (s \o t)[Len(s) + i] = t[i]
  BY <1>1
<1>5. Len(s) \in Nat /\ Len(t) \in Nat /\ DOMAIN (s \o t) = 1 .. Len(s) + Len(t)
  BY <1>2
<1>3. ASSUME NEW x \in ToSet(s \o t) PROVE x \in U
  BY <1>2 DEF ToSet
<1>4. ASSUME NEW x \in U PROVE x \in ToSet(s \o t)
  <2>1. CASE x \in ToSet(s)
    <3>1. PICK i \in 1 .. Len(s) : x = s[i]
      BY <2>1 DEF ToSet
    <3>2. i \in 1 .. Len(s \o t) /\ (s \o t)[i] = x
      BY <1>2, <3>1
    <3> QED BY <1>2, <3>2 DEF ToSet
  <2>2. CASE x \in ToSet(t)
    <3>1. PICK i \in 1 .. Len(t) : x = t[i]
      BY <2>2 DEF ToSet
    <3>2. Len(s) + i \in 1 .. Len(s) + Len(t) /\ (s \o t)[Len(s) + i] = x
      BY <1>2, <1>5, <3>1
    <3>3. Len(s) + i \in DOMAIN (s \o t)
      BY <3>2, <1>5
    <3> QED BY <3>2, <3>3 DEF ToSet
  <2> QED BY <2>1, <2>2
<1> QED BY <1>2, <1>3, <1>4, WholeSequence

LEMMA TailSet ==
  ASSUME NEW s, s \in Seq(ToSet(s)), s # <<>>
  PROVE  /\ Tail(s) \in Seq(ToSet(Tail(s))) /\ ToSet(Tail(s)) \subseteq ToSet(s)
         /\ Head(s) \in ToSet(s) /\ Head(s) = s[1] /\ 1 \in DOMAIN s
         /\ ToSet(s) = ToSet(Tail(s)) \cup {Head(s)}
<1>1. /\ Tail(s) \in Seq(ToSet(s)) /\ Len(s) \in Nat \ {0} /\ Len(Tail(s)) = Len(s) - 1 /\ Head(s) = s[1]
      /\ \A i \in 1 .. Len(s) - 1 : Tail(s)[i] = s[i + 1]
  OBVIOUS
<1>2. Head(s) \in ToSet(s) /\ 1 \in DOMAIN s
  BY <1>1 DEF ToSet
<1>3. ASSUME NEW x \in ToSet(Tail(s)) PROVE x \in ToSet(s)
  BY <1>1, <1>3 DEF ToSet
<1>4. ASSUME NEW x \in ToSet(s) PROVE x \in ToSet(Tail(s)) \cup {Head(s)}
  <2>1. PICK i \in 1 .. Len(s) : x = s[i]
    BY DEF ToSet
  <2>2. CASE i = 1
    BY <2>1, <2>2, <1>1
  <2>3. CASE i # 1
    <3>1. i - 1 \in 1 .. Len(s) - 1 /\ i = (i - 1) + 1
      BY <2>3, <1>1
    <3>2. Tail(s)[i - 1] = x /\ i - 1 \in DOMAIN Tail(s)
      BY <1>1, <3>1, <2>1
    <3> QED BY <3>2 DEF ToSet
  <2> QED BY <2>2, <2>3
<1> QED BY <1>1, <1>2, <1>3, <1>4, WholeSequence

LEMMA OneSet == ASSUME NEW m PROVE <<m>> \in Seq(ToSet(<<m>>)) /\ ToSet(<<m>>) = {m}
  BY DEF ToSet

LEMMA NoneSet == <<>> \in Seq(ToSet(<<>>)) /\ ToSet(<<>>) = {}
  BY DEF ToSet

LEMMA TwoSet == ASSUME NEW m, NEW n PROVE <<m, n>> \in Seq(ToSet(<<m, n>>)) /\ ToSet(<<m, n>>) = {m, n}
  BY DEF ToSet

LEMMA TailOfOne == ASSUME NEW s, NEW m, s = <<m>> PROVE Tail(s) = <<>>
OBVIOUS

LEMMA NothingBefore == ASSUME NEW s, s \in Seq(ToSet(s)) PROVE <<>> \o s = s
OBVIOUS

\* The elements of a finite set in some order.
LEMMA SomeOrder ==
  ASSUME NEW S, IsFiniteSet(S)
  PROVE  SetToSeq(S) \in Seq(ToSet(SetToSeq(S))) /\ ToSet(SetToSeq(S)) \subseteq S
<1>1. Cardinality(S) \in Nat
  BY OrderedSet
<1>3. SetToSeq(S) \in [1 .. Cardinality(S) -> S]
  BY OrderedSet
<1>4. SetToSeq(S) \in Seq(S)
  BY <1>1, <1>3
<1>5. \A i \in DOMAIN SetToSeq(S) : SetToSeq(S)[i] \in S
  BY <1>3
<1>6. ToSet(SetToSeq(S)) \subseteq S
  BY <1>5 DEF ToSet
<1> QED BY <1>4, <1>6, WholeSequence

LEMMA EveryOrder ==
  ASSUME NEW S, IsFiniteSet(S), NEW s \in SetToSeqs(S)
  PROVE  s \in Seq(ToSet(s)) /\ ToSet(s) = S /\ \A i, j \in DOMAIN s : s[i] = s[j] => i = j
<1> DEFINE D == 1 .. Cardinality(S)
<1>1. Cardinality(S) \in Nat /\ IsFiniteSet(D) /\ Cardinality(D) = Cardinality(S)
  BY FS_CardinalityType, FS_Interval
<1>2. s \in [D -> S] /\ \A i, j \in D : s[i] = s[j] => i = j
  BY DEF SetToSeqs
<1>3. s \in Injection(D, S)
  BY <1>2 DEF Injection, IsInjective
<1>4. s \in Surjection(D, S)
  BY <1>1, <1>3, FS_Injection
<1>5. s \in Seq(S)
  BY <1>1, <1>2
<1>6. ToSet(s) = S
  BY <1>2, <1>4 DEF ToSet, Surjection
<1> QED BY <1>2, <1>5, <1>6, WholeSequence

\* What is said adds to the log; only findings change the readings, and only challenges what is doubted.
LEMMA LogGrows ==
  ASSUME log \in Seq(ToSet(log)), NEW msgs, msgs \in Seq(ToSet(msgs)), log' = log \o msgs
  PROVE  /\ log' \in Seq(ToSet(log')) /\ ToSet(log)' = ToSet(log) \cup ToSet(msgs)
         /\ (\A m \in ToSet(msgs) : m.type # "finding") => Readings' = Readings /\ Seen' = Seen
         /\ Doubted' = Doubted \cup UNION {m.about : m \in {x \in ToSet(msgs) : x.type = "challenge"}}
<1>1. log' \in Seq(ToSet(log')) /\ ToSet(log') = ToSet(log) \cup ToSet(msgs)
  BY JoinedSet
<1>3. ASSUME \A m \in ToSet(msgs) : m.type # "finding" PROVE Readings' = Readings /\ Seen' = Seen
  <2>1. {x \in ToSet(log') : x.type = "finding"} = {x \in ToSet(log) : x.type = "finding"}
    BY <1>1, <1>3
  <2>2. Readings' = Readings
    BY <2>1 DEF Readings
  <2> QED BY <2>2 DEF Seen
<1>4. Doubted' = Doubted \cup UNION {m.about : m \in {x \in ToSet(msgs) : x.type = "challenge"}}
  BY <1>1 DEF Doubted
<1> QED BY <1>1, <1>3, <1>4

LEMMA SameDiagnosis ==
  ASSUME log \in Seq(ToSet(log)), NEW msgs, msgs \in Seq(ToSet(msgs)), log' = log \o msgs,
         \A m \in ToSet(msgs) : m.type \notin {"finding", "challenge"}
  PROVE  Readings' = Readings /\ Seen' = Seen /\ Doubted' = Doubted /\ Diagnosed' = Diagnosed
<1>1. Readings' = Readings /\ Seen' = Seen
  BY LogGrows
<1>2. UNION {m.about : m \in {x \in ToSet(msgs) : x.type = "challenge"}} = {}
  OBVIOUS
<1>3. Doubted' = Doubted
  BY <1>2, LogGrows
<1> QED BY <1>1, <1>3 DEF Diagnosed

LEMMA SameLog ==
  ASSUME log \in Seq(ToSet(log)), log' = log \o <<>>
  PROVE  log' = log
OBVIOUS

LEMMA SameResults ==
  ASSUME log \in Seq(ToSet(log)), NEW msgs, msgs \in Seq(ToSet(msgs)), log' = log \o msgs,
         NEW a, \A m \in ToSet(msgs) : m.from # a \/ m.type # "result"
  PROVE  ResultsBy(a)' = ResultsBy(a)
<1>1. ToSet(log)' = ToSet(log) \cup ToSet(msgs)
  BY LogGrows
<1> QED BY <1>1 DEF ResultsBy

\* A message's answer to it takes its place.
LEMMA BusAnswered ==
  ASSUME Sequences, queue # <<>>, NEW msgs, msgs \in Seq(ToSet(msgs)), Answer(msgs)
  PROVE  /\ log' = log \o msgs /\ log' \in Seq(ToSet(log')) /\ queue' \in Seq(ToSet(queue'))
         /\ Tail(queue) \in Seq(ToSet(Tail(queue))) /\ queue' = Tail(queue) \o msgs
         /\ ToSet(queue)' = ToSet(Tail(queue)) \cup ToSet(msgs)
         /\ ToSet(Tail(queue)) \subseteq ToSet(queue) /\ Head(queue) \in ToSet(queue)
BY JoinedSet, TailSet DEF Sequences, Answer

LEMMA Posted ==
  ASSUME Sequences, queue = <<>>, NEW msgs, msgs \in Seq(ToSet(msgs)), Send(msgs)
  PROVE  /\ log' = log \o msgs /\ log' \in Seq(ToSet(log')) /\ queue' = msgs /\ queue' \in Seq(ToSet(queue'))
<1>1. queue' = msgs
  BY DEF Send
<1> QED BY <1>1, JoinedSet DEF Sequences, Send

\* What failed before has failed still.
LEMMA StillSurvivable ==
  ASSUME IsFiniteSet(failures'), failures \subseteq failures', Survivable'
  PROVE  Survivable
<1> DEFINE F == {m \in failures : m.to = "reporting_agent"}
<1> DEFINE G == {m \in failures' : m.to = "reporting_agent"}
<1>1. IsFiniteSet(G) /\ F \subseteq G
  BY FS_Subset
<1>2. Cardinality(F) \in Nat /\ Cardinality(G) \in Nat /\ Cardinality(F) =< Cardinality(G)
  BY <1>1, FS_Subset, FS_CardinalityType
<1>3. Cardinality(G) =< 1
  BY DEF Survivable
<1>4. Cardinality(F) =< 1
  <2> HIDE DEF F, G
  <2> QED BY <1>2, <1>3
<1> QED BY <1>4 DEF Survivable

LEMMA TwoAreMore ==
  ASSUME NEW F, IsFiniteSet(F), NEW a, NEW b, {a, b} \subseteq F, a # b
  PROVE  ~(Cardinality(F) =< 1)
<1>1. Cardinality({a}) = 1 /\ IsFiniteSet({a})
  BY FS_Singleton
<1>2. {a} \cup {b} = {a, b} /\ b \notin {a}
  OBVIOUS
<1>3. Cardinality({a} \cup {b}) = IF b \in {a} THEN Cardinality({a}) ELSE Cardinality({a}) + 1
  BY <1>1, FS_AddElement
<1>4. Cardinality({a, b}) = 2
  BY <1>1, <1>2, <1>3
<1>5. Cardinality({a, b}) =< Cardinality(F) /\ Cardinality(F) \in Nat
  BY FS_Subset, FS_CardinalityType
<1> QED BY <1>4, <1>5

LEMMA NewResult ==
  ASSUME log \in Seq(ToSet(log)), NEW m, m.type = "result", log' = log \o <<m>>
  PROVE  ResultsBy(m.from)' = ResultsBy(m.from) \cup {m}
<1>1. ToSet(log)' = ToSet(log) \cup {m}
  BY LogGrows, OneSet
<1> QED BY <1>1 DEF ResultsBy

-----------------------------------------------------------------------------
(* The turns of the bus. *)

\* A notice for the orchestrator is put away.
LEMMA NoticeStep ==
  ASSUME Sequences, Stage, queue # <<>>, Head(queue).to = "orchestrator", Answer(<<>>),
         UNCHANGED <<phase, failures, st, report>>
  PROVE  Stage'
<1>1. /\ log' = log \o <<>> /\ ToSet(queue') \subseteq ToSet(queue) /\ Head(queue) \in ToSet(queue)
  BY BusAnswered, NoneSet
<1>2. log' = log
  BY <1>1, SameLog DEF Sequences
<1>3. /\ Readings' = Readings /\ Diagnosed' = Diagnosed
      /\ ResultsBy("correlation_agent")' = ResultsBy("correlation_agent")
      /\ ResultsBy("reporting_agent")' = ResultsBy("reporting_agent")
  BY <1>2 DEF Readings, Diagnosed, Seen, Doubted, ResultsBy
<1>4. CASE phase \in {"start", "analysis", "topology"} /\ Gathering
  BY <1>1, <1>2, <1>4 DEF Gathering, LogOfOwners, Stage
<1>5. CASE phase = "correlation" /\ (Asked \/ Doubting \/ Concluding \/ Concluded)
  <2>1. ~Asked /\ ~Concluding
    BY DEF Asked, Concluding, Task, Message
  <2>2. ~Doubting
    BY <1>1 DEF Doubting, IsChallenge, IsResponse, Owners, Analysts
  <2>3. Concluded'
    BY <1>1, <1>3, <1>5, <2>1, <2>2 DEF Concluded, Tried, AllDiagnosed, OnlyNotices
  <2> QED BY <1>5, <2>3 DEF Stage
<1>6. CASE phase = "reporting" /\ (Forwarded \/ Reported)
  <2>1. ~Forwarded
    BY DEF Forwarded, Message
  <2>2. Reported'
    BY <1>1, <1>3, <1>6, <2>1 DEF Reported, AllDiagnosed, OnlyNotices
  <2> QED BY <1>6, <2>2 DEF Stage
<1>7. CASE phase = "done" /\ queue = <<>> /\ report = Diagnosed
  BY <1>7
<1> QED BY <1>4, <1>5, <1>6, <1>7 DEF Stage

\* Before correlation, whoever owns readings tells of them, that it is through, or that it threw.
LEMMA GatheringStep ==
  ASSUME Sequences, Gathering, queue # <<>>, NEW msgs, msgs \in Seq(ToSet(msgs)), Answer(msgs),
         \A m \in ToSet(msgs) : m.from \in Owners /\ m.to = "orchestrator" /\ m.type \in {"finding", "result", "error"}
  PROVE  Gathering'
<1>1. ToSet(log)' = ToSet(log) \cup ToSet(msgs)
  BY BusAnswered, LogGrows DEF Sequences
<1>2. ToSet(queue)' = ToSet(Tail(queue)) \cup ToSet(msgs) /\ ToSet(Tail(queue)) \subseteq ToSet(queue)
  BY BusAnswered
<1> QED BY <1>1, <1>2 DEF Gathering, LogOfOwners

\* What stage the message an agent handles belongs to.
LEMMA StageOfMessage ==
  ASSUME Sequences, Stage, queue # <<>>, NEW m, m = Head(queue), m.to # "orchestrator"
  PROVE  \/ phase \in {"start", "analysis", "topology"} /\ Gathering /\ m.type = "task" /\ m.to \in Owners
         \/ phase = "correlation" /\ Asked /\ m = Task("correlation_agent", Readings)
         \/ phase = "correlation" /\ Doubting /\ (IsChallenge(m) \/ IsResponse(m))
         \/ /\ phase = "correlation" /\ Concluding
            /\ m = Message("correlation_agent", "reporting_agent", "result", Diagnosed)
         \/ /\ phase = "reporting" /\ Forwarded
            /\ m = Message("orchestrator", "reporting_agent", "result", Diagnosed)
<1>1. m \in ToSet(queue)
  BY TailSet DEF Sequences
<1>2. CASE phase \in {"start", "analysis", "topology"} /\ Gathering
  BY <1>1, <1>2 DEF Gathering
<1>3. CASE phase = "correlation" /\ (Asked \/ Doubting \/ Concluding \/ Concluded)
  <2>1. ~Concluded
    BY <1>1 DEF Concluded, OnlyNotices
  <2>2. Asked => m = Task("correlation_agent", Readings)
    BY DEF Asked
  <2>3. Doubting => IsChallenge(m) \/ IsResponse(m)
    BY <1>1 DEF Doubting
  <2>4. Concluding => m = Message("correlation_agent", "reporting_agent", "result", Diagnosed)
    BY DEF Concluding
  <2> QED BY <1>3, <2>1, <2>2, <2>3, <2>4
<1>4. CASE phase = "reporting" /\ (Forwarded \/ Reported)
  <2>1. ~Reported
    BY <1>1 DEF Reported, OnlyNotices
  <2>2. Forwarded => m = Message("orchestrator", "reporting_agent", "result", Diagnosed)
    BY DEF Forwarded
  <2> QED BY <1>4, <2>1, <2>2
<1> QED BY <1>2, <1>3, <1>4 DEF Stage

\* An answer keeps the invariant when it leads from stage to stage.
LEMMA TurnKeeps ==
  ASSUME NetCoopInv, queue # <<>>, NEW msgs, Answer(msgs), UNCHANGED failures,
         Sequences /\ Stage => msgs \in Seq(ToSet(msgs)) /\ Stage'
  PROVE  NetCoopInv'
<1>1. SUFFICES ASSUME Survivable' PROVE Sequences' /\ Stage'
  BY DEF NetCoopInv
<1>2. Survivable
  BY <1>1, StillSurvivable DEF NetCoopInv
<1>3. Sequences /\ Stage
  BY <1>2 DEF NetCoopInv
<1>4. log' \in Seq(ToSet(log')) /\ queue' \in Seq(ToSet(queue'))
  BY <1>3, BusAnswered
<1> QED BY <1>3, <1>4 DEF Sequences

\* The findings of a finite set of devices, and that the agent is through.
LEMMA FindingsSaid ==
  ASSUME NEW agent, NEW D \in SUBSET Devices
  PROVE  LET said == SetToSeq({Finding(agent, d) : d \in D})
         IN  said \in Seq(ToSet(said)) /\ ToSet(said) \subseteq {Finding(agent, d) : d \in D}
<1>1. PICK S : S = {Finding(agent, d) : d \in D}
  OBVIOUS
<1>2. IsFiniteSet(D)
  BY FS_Subset, NetCoopAssumption
<1>3. PICK f : f = [d \in D |-> Finding(agent, d)]
  OBVIOUS
<1>4. f \in Surjection(D, S)
  BY <1>1, <1>3 DEF Surjection
<1>5. IsFiniteSet(S)
  BY <1>2, <1>4, FS_Surjection
<1>6. SetToSeq(S) \in Seq(ToSet(SetToSeq(S))) /\ ToSet(SetToSeq(S)) \subseteq S
  BY <1>5, SomeOrder
<1> QED BY <1>1, <1>6

LEMMA AnalystStep ==
  ASSUME NetCoopInv, queue # <<>>, NEW m, m = Head(queue), m.type = "task", m.to \in Analysts, AnalystTask(m),
         UNCHANGED <<phase, report, failures>>
  PROVE  NetCoopInv'
<1>1. PICK D \in SUBSET Devices : Answer(SetToSeq({Finding(m.to, d) : d \in D}) \o <<Finished(m.to)>>)
  BY DEF AnalystTask
<1>2. PICK said : said = SetToSeq({Finding(m.to, d) : d \in D})
  OBVIOUS
<1>3. PICK msgs : msgs = said \o <<Finished(m.to)>>
  OBVIOUS
<1>4. said \in Seq(ToSet(said)) /\ ToSet(said) \subseteq {Finding(m.to, d) : d \in D}
  BY <1>2, FindingsSaid
<1>5. msgs \in Seq(ToSet(msgs)) /\ ToSet(msgs) = ToSet(said) \cup {Finished(m.to)}
  <2>1. PICK done : done = <<Finished(m.to)>>
    OBVIOUS
  <2>2. done \in Seq(ToSet(done)) /\ ToSet(done) = {Finished(m.to)}
    BY <2>1, OneSet
  <2>3. msgs = said \o done
    BY <1>3, <2>1
  <2> QED BY <1>4, <2>2, <2>3, JoinedSet
<1>6. Answer(msgs)
  BY <1>1, <1>2, <1>3
<1>7. ASSUME NEW x \in ToSet(msgs)
      PROVE  x.from \in Owners /\ x.to = "orchestrator" /\ x.type \in {"finding", "result", "error"}
  BY <1>4, <1>5, <1>7 DEF Finding, Finished, Message, Owners
<1>8. Sequences /\ Stage => Stage'
  <2>1. SUFFICES ASSUME Sequences, Stage PROVE Stage'
    OBVIOUS
  <2>2. m.to # "orchestrator" /\ m.to # "correlation_agent"
    BY DEF Analysts
  <2>3. phase \in {"start", "analysis", "topology"} /\ Gathering
    BY <2>1, <2>2, StageOfMessage DEF Task, Message, IsChallenge, IsResponse
  <2>4. Gathering'
    BY <1>5, <1>6, <1>7, <2>1, <2>3, GatheringStep
  <2> QED BY <2>3, <2>4 DEF Stage
<1> QED BY <1>5, <1>6, <1>8, TurnKeeps

LEMMA ConnectivityStep ==
  ASSUME NetCoopInv, queue # <<>>, NEW m, m = Head(queue), m.type = "task", m.to = "connectivity_agent",
         ConnectivityTask(m), UNCHANGED <<phase, report, failures>>
  PROVE  NetCoopInv'
<1>1. PICK said : said = SetToSeq({Finding(m.to, d) : d \in Uplinks})
  OBVIOUS
<1>2. PICK rest : rest = <<Finding(m.to, "scope"), Finished(m.to)>>
  OBVIOUS
<1>3. PICK msgs : msgs = said \o rest
  OBVIOUS
<1>4. said \in Seq(ToSet(said)) /\ ToSet(said) \subseteq {Finding(m.to, d) : d \in Uplinks}
  BY <1>1, FindingsSaid, NetCoopAssumption
<1>5. rest \in Seq(ToSet(rest)) /\ ToSet(rest) = {Finding(m.to, "scope"), Finished(m.to)}
  BY <1>2, TwoSet
<1>6. msgs \in Seq(ToSet(msgs)) /\ ToSet(msgs) = ToSet(said) \cup ToSet(rest)
  BY <1>3, <1>4, <1>5, JoinedSet
<1>7. Answer(msgs)
  BY <1>1, <1>2, <1>3 DEF ConnectivityTask
<1>8. ASSUME NEW x \in ToSet(msgs)
      PROVE  x.from \in Owners /\ x.to = "orchestrator" /\ x.type \in {"finding", "result", "error"}
  BY <1>4, <1>5, <1>6, <1>8 DEF Finding, Finished, Message, Owners
<1>9. Sequences /\ Stage => Stage'
  <2>1. SUFFICES ASSUME Sequences, Stage PROVE Stage'
    OBVIOUS
  <2>2. phase \in {"start", "analysis", "topology"} /\ Gathering
    BY <2>1, StageOfMessage DEF Task, Message, IsChallenge, IsResponse
  <2>3. Gathering'
    BY <1>6, <1>7, <1>8, <2>1, <2>2, GatheringStep
  <2> QED BY <2>2, <2>3 DEF Stage
<1> QED BY <1>6, <1>7, <1>9, TurnKeeps

\* What the log of the owners leaves open: nothing is doubted, concluded or reported.
LEMMA NothingConcluded ==
  ASSUME LogOfOwners
  PROVE  /\ Doubted = {}
         /\ ResultsBy("correlation_agent") = {} /\ ResultsBy("reporting_agent") = {}
         /\ \A r \in Readings : r[1] \in Owners
<1>1. ~\E x \in ToSet(log) : x.type = "challenge"
  BY DEF LogOfOwners
<1>2. Doubted = {}
  BY <1>1 DEF Doubted
<1>3. ResultsBy("correlation_agent") = {} /\ ResultsBy("reporting_agent") = {}
  BY DEF LogOfOwners, ResultsBy, Owners, Analysts
<1>4. \A r \in Readings : r[1] \in Owners
  BY DEF LogOfOwners, Readings
<1> QED BY <1>2, <1>3, <1>4

\* One challenge for each owner.
ChallengesTo(owners, doubted) ==
  {Message("correlation_agent", a, "challenge", {r \in doubted : r[1] = a}) : a \in owners}

OneForEach(msgs, owners, doubted) ==
  /\ msgs \in Seq(ToSet(msgs))
  /\ \A i, j \in DOMAIN msgs : msgs[i].to = msgs[j].to => i = j
  /\ UNION {m.about : m \in ToSet(msgs)} = doubted
  /\ \A m \in ToSet(msgs) : m.from = "correlation_agent" /\ m.to \in owners /\ m.type = "challenge"
  /\ {m.to : m \in ToSet(msgs)} = owners

LEMMA ChallengesSaid ==
  ASSUME NEW doubted, NEW owners, owners = {r[1] : r \in doubted}, owners \subseteq Owners,
         NEW msgs \in SetToSeqs(ChallengesTo(owners, doubted))
  PROVE  OneForEach(msgs, owners, doubted)
<1> DEFINE Asking(a) == Message("correlation_agent", a, "challenge", {r \in doubted : r[1] = a})
<1>1. PICK S : S = {Asking(a) : a \in owners} /\ S = ChallengesTo(owners, doubted)
  BY DEF ChallengesTo
<1>2. IsFiniteSet(Owners)
  <2>1. Owners = {"performance_agent"} \cup {"infrastructure_agent"} \cup {"connectivity_agent"}
    BY DEF Owners, Analysts
  <2> QED BY <2>1, FS_Singleton, FS_Union
<1>3. IsFiniteSet(owners)
  BY <1>2, FS_Subset
<1>4. PICK f : f = [a \in owners |-> Asking(a)]
  OBVIOUS
<1>5. f \in Surjection(owners, S)
  BY <1>1, <1>4 DEF Surjection
<1>6. IsFiniteSet(S)
  BY <1>3, <1>5, FS_Surjection
<1>7. msgs \in Seq(ToSet(msgs)) /\ ToSet(msgs) = S /\ \A i, j \in DOMAIN msgs : msgs[i] = msgs[j] => i = j
  BY <1>1, <1>6, EveryOrder
<1>8. \A a : Asking(a).from = "correlation_agent" /\ Asking(a).to = a /\ Asking(a).type = "challenge" /\ Asking(a).about = {r \in doubted : r[1] = a}
  BY DEF Message
<1>9. \A m \in S : \E a \in owners : m = Asking(a)
  BY <1>1
<1>10. \A a \in owners : Asking(a) \in S
  BY <1>1
<1> HIDE DEF Asking
<1>11. \A m \in S : m = Asking(m.to) /\ m.from = "correlation_agent" /\ m.to \in owners /\ m.type = "challenge"
  BY <1>8, <1>9
<1>12. ASSUME NEW i \in DOMAIN msgs, NEW j \in DOMAIN msgs, msgs[i].to = msgs[j].to PROVE i = j
  <2>1. msgs[i] \in S /\ msgs[j] \in S
    BY <1>7 DEF ToSet
  <2>2. msgs[i] = msgs[j]
    BY <1>11, <1>12, <2>1
  <2> QED BY <1>7, <2>2
<1>13. UNION {m.about : m \in S} = doubted
  <2>1. ASSUME NEW r \in doubted PROVE r \in UNION {m.about : m \in S}
    <3>1. r[1] \in owners
      OBVIOUS
    <3>2. Asking(r[1]) \in S /\ r \in Asking(r[1]).about
      BY <1>8, <1>10, <3>1
    <3> QED BY <3>2
  <2>2. ASSUME NEW m \in S PROVE m.about \subseteq doubted
    BY <1>8, <1>11
  <2> QED BY <2>1, <2>2
<1>14. {m.to : m \in S} = owners
  <2>1. ASSUME NEW a \in owners PROVE a \in {m.to : m \in S}
    BY <1>8, <1>10
  <2> QED BY <1>11, <2>1
<1> QED BY <1>7, <1>11, <1>12, <1>13, <1>14 DEF OneForEach

LEMMA CorrelationStep ==
  ASSUME NetCoopInv, queue # <<>>, NEW m, m = Head(queue), m.type = "task", m.to = "correlation_agent",
         CorrelationTask(m), UNCHANGED <<phase, report, failures>>
  PROVE  NetCoopInv'
<1>1. PICK seen : seen = {r \in m.about : r[2] # "scope"}
  OBVIOUS
<1>8. PICK doubted \in SUBSET seen :
        LET owners == {r[1] : r \in doubted}
            challenges == {Message(m.to, a, "challenge", {r \in doubted : r[1] = a}) : a \in owners}
        IN  /\ \E s \in SetToSeqs(challenges) : Answer(IF doubted = {} THEN <<Diagnosis(seen, {})>> ELSE s)
            /\ st' = [seen |-> seen, pending |-> owners, answers |-> {}]
  BY <1>1 DEF CorrelationTask
<1>9. PICK owners : owners = {r[1] : r \in doubted}
  OBVIOUS
<1>10. PICK challenges : challenges = {Message(m.to, a, "challenge", {r \in doubted : r[1] = a}) : a \in owners}
  OBVIOUS
<1>2. /\ owners = {r[1] : r \in doubted}
      /\ challenges = {Message(m.to, a, "challenge", {r \in doubted : r[1] = a}) : a \in owners}
      /\ \E s \in SetToSeqs(challenges) : Answer(IF doubted = {} THEN <<Diagnosis(seen, {})>> ELSE s)
      /\ st' = [seen |-> seen, pending |-> owners, answers |-> {}]
  BY <1>8, <1>9, <1>10
<1>3. PICK s \in SetToSeqs(challenges) : Answer(IF doubted = {} THEN <<Diagnosis(seen, {})>> ELSE s)
  BY <1>2
<1>4. st'.seen = seen /\ st'.pending = owners /\ st'.answers = {} /\ DOMAIN st' = {"seen", "pending", "answers"}
  BY <1>2
<1>5. Sequences /\ Stage =>
               /\ phase = "correlation" /\ Asked /\ m = Task("correlation_agent", Readings)
               /\ m.about = Readings /\ seen = Seen /\ owners \subseteq Owners
  <2>1. SUFFICES ASSUME Sequences, Stage PROVE phase = "correlation" /\ Asked /\ m = Task("correlation_agent", Readings)
               /\ m.about = Readings /\ seen = Seen /\ owners \subseteq Owners
    OBVIOUS
  <2>2. phase = "correlation" /\ Asked /\ m = Task("correlation_agent", Readings)
    BY <2>1, StageOfMessage DEF Owners, Analysts, Message, IsChallenge, IsResponse
  <2>3. m.about = Readings
    BY <2>2 DEF Task, Message
  <2>4. seen = Seen
    BY <1>1, <2>3 DEF Seen
  <2>5. \A r \in Readings : r[1] \in Owners
    BY <2>2, NothingConcluded DEF Asked
  <2> QED BY <1>1, <1>2, <2>2, <2>3, <2>4, <2>5
<1>6. CASE doubted = {}
  <2>1. PICK d : d = Diagnosis(seen, {})
    OBVIOUS
  <2>2. Answer(<<d>>) /\ <<d>> \in Seq(ToSet(<<d>>)) /\ ToSet(<<d>>) = {d}
    BY <1>3, <1>6, <2>1, OneSet
  <2>3. /\ d.type = "result" /\ d.from = "correlation_agent"
        /\ d = Message("correlation_agent", "reporting_agent", "result", d.about)
        /\ d.about = [status |-> "diagnosed", basis |-> seen, answers |-> {}]
    BY <2>1 DEF Diagnosis, Message
  <2>4. Sequences /\ Stage => Stage'
    <3>1. SUFFICES ASSUME Sequences, Stage PROVE Stage'
      OBVIOUS
    <3>2. log' = log \o <<d>> /\ log \in Seq(ToSet(log))
      BY <2>2, <3>1, BusAnswered DEF Sequences
    <3>3. Doubted = {} /\ ResultsBy("correlation_agent") = {} /\ ResultsBy("reporting_agent") = {}
      BY <1>5, <3>1, NothingConcluded DEF Asked
    <3>4. Diagnosed' = Diagnosed /\ Diagnosed = d.about
      <4>1. Diagnosed' = Diagnosed
        BY <2>2, <2>3, <3>2, SameDiagnosis
      <4> QED BY <1>5, <2>3, <3>1, <3>3, <4>1 DEF Diagnosed
    <3>5. ResultsBy("correlation_agent")' = {d}
      BY <2>3, <3>2, <3>3, NewResult
    <3>6. ResultsBy("reporting_agent")' = {}
      BY <2>2, <2>3, <3>2, <3>3, SameResults
    <3>7. queue' = <<d>>
      <4>1. Tail(queue) = <<>>
        BY <1>5, <3>1, TailOfOne DEF Asked
      <4>2. queue' = Tail(queue) \o <<d>>
        BY <2>2 DEF Answer
      <4> QED BY <2>2, <4>1, <4>2, NothingBefore
    <3>8. Concluding'
      BY <2>3, <3>4, <3>5, <3>6, <3>7 DEF Concluding, AllDiagnosed
    <3> QED BY <1>5, <3>1, <3>8 DEF Stage
  <2> QED BY <2>2, <2>4, TurnKeeps
<1>7. CASE doubted # {}
  <2>1. Answer(s)
    BY <1>3, <1>7
  <2>3. Sequences /\ Stage => Stage' /\ s \in Seq(ToSet(s))
    <3>1. SUFFICES ASSUME Sequences, Stage PROVE Stage' /\ s \in Seq(ToSet(s))
      OBVIOUS
    <3>2. /\ s \in Seq(ToSet(s))
          /\ \A i, j \in DOMAIN s : s[i].to = s[j].to => i = j
          /\ UNION {x.about : x \in ToSet(s)} = doubted
          /\ \A x \in ToSet(s) : x.from = "correlation_agent" /\ x.to \in owners /\ x.type = "challenge"
          /\ {x.to : x \in ToSet(s)} = owners
      <4>1. challenges = ChallengesTo(owners, doubted)
        BY <1>2 DEF ChallengesTo
      <4>2. owners = {r[1] : r \in doubted} /\ owners \subseteq Owners
        BY <1>2, <1>5, <3>1
      <4>3. OneForEach(s, owners, doubted)
        BY <4>1, <4>2, ChallengesSaid
      <4> QED BY <4>3 DEF OneForEach
    <3>3. log' = log \o s /\ log \in Seq(ToSet(log))
      BY <2>1, <3>1, <3>2, BusAnswered DEF Sequences
    <3>4. Doubted = {} /\ ResultsBy("correlation_agent") = {} /\ ResultsBy("reporting_agent") = {}
      BY <1>5, <3>1, NothingConcluded DEF Asked
    <3>5. Seen' = Seen
      BY <3>2, <3>3, LogGrows
    <3>6. Doubted' = doubted
      <4>1. {x \in ToSet(s) : x.type = "challenge"} = ToSet(s)
        BY <3>2
      <4>2. Doubted' = Doubted \cup UNION {x.about : x \in {y \in ToSet(s) : y.type = "challenge"}}
        BY <3>2, <3>3, LogGrows
      <4> QED BY <3>2, <3>4, <4>1, <4>2
    <3>7. ResultsBy("correlation_agent")' = {} /\ ResultsBy("reporting_agent")' = {}
      <4>1. \A x \in ToSet(s) : x.type # "result"
        BY <3>2
      <4>2. ResultsBy("correlation_agent")' = {}
        BY <3>2, <3>3, <3>4, <4>1, SameResults
      <4>3. ResultsBy("reporting_agent")' = {}
        BY <3>2, <3>3, <3>4, <4>1, SameResults
      <4> QED BY <4>2, <4>3
    <3>8. queue' = s
      <4>1. Tail(queue) = <<>>
        BY <1>5, <3>1, TailOfOne DEF Asked
      <4>2. queue' = Tail(queue) \o s
        BY <2>1 DEF Answer
      <4> QED BY <3>2, <4>1, <4>2, NothingBefore
    <3>9. \A x \in ToSet(s) : IsChallenge(x) /\ OwnerOf(x) = x.to
      BY <1>5, <3>1, <3>2 DEF IsChallenge, OwnerOf
    <3>10. \A i, j \in DOMAIN s : OwnerOf(s[i]) = OwnerOf(s[j]) => i = j
      <4>1. \A i \in DOMAIN s : s[i] \in ToSet(s)
        BY DEF ToSet
      <4> QED BY <3>2, <3>9, <4>1
    <3>11. {OwnerOf(x) : x \in ToSet(s)} = owners
      BY <3>2, <3>9
    <3>12. owners # {}
      BY <1>2, <1>7
    <3>13. st'.seen = Seen'
      BY <1>4, <1>5, <3>1, <3>5
    <3>14. Doubting'
      <4>1. \A x \in ToSet(queue') : IsChallenge(x) \/ IsResponse(x)
        BY <3>8, <3>9
      <4>2. \A i, j \in DOMAIN queue' : OwnerOf(queue'[i]) = OwnerOf(queue'[j]) => i = j
        BY <3>8, <3>10
      <4>3. {OwnerOf(x) : x \in ToSet(queue')} = st'.pending /\ st'.pending # {}
        BY <1>4, <3>8, <3>11, <3>12
      <4>4. Doubted' = st'.answers \cup UNION {x.about : x \in ToSet(queue')}
        BY <1>4, <3>2, <3>6, <3>8
      <4> QED BY <1>4, <3>7, <3>13, <4>1, <4>2, <4>3, <4>4 DEF Doubting
    <3> QED BY <1>5, <3>1, <3>2, <3>14 DEF Stage
  <2> QED BY <2>1, <2>3, TurnKeeps
<1> QED BY <1>6, <1>7

\* While answers are awaited, what is taken from the queue is one owner's message, and the only one of that owner.
LEMMA DoubtingHead ==
  ASSUME Sequences, Doubting, queue # <<>>, NEW m, m = Head(queue)
  PROVE  /\ OwnerOf(m) \in st.pending
         /\ {OwnerOf(x) : x \in ToSet(Tail(queue))} = st.pending \ {OwnerOf(m)}
         /\ \A x \in ToSet(Tail(queue)) : IsChallenge(x) \/ IsResponse(x)
         /\ \A i, j \in DOMAIN Tail(queue) : OwnerOf(Tail(queue)[i]) = OwnerOf(Tail(queue)[j]) => i = j
         /\ Doubted = st.answers \cup m.about \cup UNION {x.about : x \in ToSet(Tail(queue))}
<1>1. /\ ToSet(queue) = ToSet(Tail(queue)) \cup {m} /\ m \in ToSet(queue) /\ m = queue[1] /\ 1 \in DOMAIN queue
      /\ Tail(queue) \in Seq(ToSet(Tail(queue)))
  BY TailSet DEF Sequences
<1>2. /\ Len(queue) \in Nat \ {0} /\ DOMAIN queue = 1 .. Len(queue) /\ DOMAIN Tail(queue) = 1 .. Len(queue) - 1
      /\ \A i \in 1 .. Len(queue) - 1 : Tail(queue)[i] = queue[i + 1]
  BY DEF Sequences
<1>3. \A i, j \in DOMAIN queue : OwnerOf(queue[i]) = OwnerOf(queue[j]) => i = j
  BY DEF Doubting
<1>4. \A i \in DOMAIN Tail(queue) : i + 1 \in DOMAIN queue /\ Tail(queue)[i] = queue[i + 1] /\ i + 1 # 1 /\ i \in Nat
  BY <1>2
<1>5. ASSUME NEW i \in DOMAIN Tail(queue), NEW j \in DOMAIN Tail(queue), OwnerOf(Tail(queue)[i]) = OwnerOf(Tail(queue)[j])
      PROVE  i = j
  <2>1. i + 1 = j + 1
    BY <1>3, <1>4, <1>5
  <2> QED BY <1>4, <2>1
<1>6. ASSUME NEW x \in ToSet(Tail(queue)) PROVE OwnerOf(x) # OwnerOf(m)
  <2>1. PICK i \in DOMAIN Tail(queue) : x = Tail(queue)[i]
    BY DEF ToSet
  <2>2. OwnerOf(queue[i + 1]) # OwnerOf(queue[1])
    BY <1>1, <1>3, <1>4, <2>1
  <2> QED BY <1>1, <1>4, <2>1, <2>2
<1>7. {OwnerOf(x) : x \in ToSet(queue)} = st.pending
  BY DEF Doubting
<1>8. {OwnerOf(x) : x \in ToSet(Tail(queue))} = st.pending \ {OwnerOf(m)}
  BY <1>1, <1>6, <1>7
<1>9. Doubted = st.answers \cup m.about \cup UNION {x.about : x \in ToSet(Tail(queue))}
  <2>1. Doubted = st.answers \cup UNION {x.about : x \in ToSet(queue)}
    BY DEF Doubting
  <2>2. UNION {x.about : x \in ToSet(queue)} = m.about \cup UNION {x.about : x \in ToSet(Tail(queue))}
    BY <1>1
  <2> QED BY <2>1, <2>2
<1>10. \A x \in ToSet(Tail(queue)) : IsChallenge(x) \/ IsResponse(x)
  BY <1>1 DEF Doubting
<1>11. OwnerOf(m) \in st.pending
  BY <1>1, <1>7
<1> QED BY <1>5, <1>8, <1>9, <1>10, <1>11

LEMMA ChallengedStep ==
  ASSUME NetCoopInv, queue # <<>>, NEW m, m = Head(queue), m.type = "challenge", m.to # "orchestrator", Challenged(m),
         UNCHANGED <<phase, report, failures>>
  PROVE  NetCoopInv'
<1>1. PICK r : r = Message(m.to, "correlation_agent", "challenge_response", m.about)
  OBVIOUS
<1>2. /\ r.from = m.to /\ r.to = "correlation_agent" /\ r.type = "challenge_response" /\ r.about = m.about
      /\ Answer(<<r>>) /\ <<r>> \in Seq(ToSet(<<r>>)) /\ ToSet(<<r>>) = {r} /\ st' = st
  BY <1>1, OneSet DEF Message, Challenged
<1>3. ASSUME Sequences, Stage PROVE Stage'
  <2>1. phase = "correlation" /\ Doubting /\ IsChallenge(m)
    BY <1>3, StageOfMessage DEF Task, Message, IsResponse
  <2>2. IsResponse(r) /\ OwnerOf(r) = OwnerOf(m)
    BY <1>2, <2>1 DEF IsResponse, IsChallenge, OwnerOf
  <2>3. PICK t : t = Tail(queue)
    OBVIOUS
  <2>4. /\ log' = log \o <<r>> /\ t \in Seq(ToSet(t)) /\ queue' = t \o <<r>> /\ ToSet(queue)' = ToSet(t) \cup {r}
    BY <1>2, <1>3, <2>3, BusAnswered
  <2>5. /\ OwnerOf(m) \in st.pending
        /\ {OwnerOf(x) : x \in ToSet(t)} = st.pending \ {OwnerOf(m)}
        /\ \A x \in ToSet(t) : IsChallenge(x) \/ IsResponse(x)
        /\ \A i, j \in DOMAIN t : OwnerOf(t[i]) = OwnerOf(t[j]) => i = j
        /\ Doubted = st.answers \cup m.about \cup UNION {x.about : x \in ToSet(t)}
    BY <1>3, <2>1, <2>3, DoubtingHead
  <2>6. Seen' = Seen /\ Doubted' = Doubted
    BY <1>2, <1>3, <2>4, SameDiagnosis DEF Sequences
  <2>7. ResultsBy("correlation_agent")' = {} /\ ResultsBy("reporting_agent")' = {}
    <3>1. \A x \in ToSet(<<r>>) : x.type # "result"
      BY <1>2
    <3>2. ResultsBy("correlation_agent")' = ResultsBy("correlation_agent")
      BY <1>2, <1>3, <2>4, <3>1, SameResults DEF Sequences
    <3>3. ResultsBy("reporting_agent")' = ResultsBy("reporting_agent")
      BY <1>2, <1>3, <2>4, <3>1, SameResults DEF Sequences
    <3> QED BY <2>1, <3>2, <3>3 DEF Doubting
  <2>8. /\ Len(t) \in Nat /\ DOMAIN t = 1 .. Len(t) /\ DOMAIN queue' = 1 .. Len(t) + 1
        /\ \A i \in 1 .. Len(t) : queue'[i] = t[i]
        /\ queue'[Len(t) + 1] = r
    BY <2>4
  <2>9. \A i \in DOMAIN queue' : (i \in DOMAIN t /\ queue'[i] = t[i]) \/ (i = Len(t) + 1 /\ queue'[i] = r)
    BY <2>8
  <2>10. \A i \in DOMAIN t : OwnerOf(t[i]) # OwnerOf(r)
    BY <2>2, <2>5 DEF ToSet
  <2>11. \A i, j \in DOMAIN queue' : OwnerOf(queue'[i]) = OwnerOf(queue'[j]) => i = j
    BY <2>5, <2>9, <2>10
  <2>12. \A x \in ToSet(queue') : IsChallenge(x) \/ IsResponse(x)
    BY <2>2, <2>4, <2>5
  <2>13. {OwnerOf(x) : x \in ToSet(queue')} = st.pending
    BY <2>2, <2>4, <2>5
  <2>14. Doubted' = st.answers \cup UNION {x.about : x \in ToSet(queue')}
    <3>1. UNION {x.about : x \in ToSet(queue')} = r.about \cup UNION {x.about : x \in ToSet(t)}
      BY <2>4
    <3> QED BY <1>2, <2>5, <2>6, <3>1
  <2>15. st.seen = Seen' /\ st.pending # {} /\ DOMAIN st = {"seen", "pending", "answers"}
    BY <2>1, <2>6 DEF Doubting
  <2>16. Doubting'
    BY <1>2, <2>7, <2>11, <2>12, <2>13, <2>14, <2>15 DEF Doubting
  <2> QED BY <2>1, <2>16 DEF Stage
<1> QED BY <1>2, <1>3, TurnKeeps

LEMMA ResponseStep ==
  ASSUME NetCoopInv, queue # <<>>, NEW m, m = Head(queue), m.type = "challenge_response", m.to # "orchestrator",
         Response(m), UNCHANGED <<phase, report, failures>>
  PROVE  NetCoopInv'
<1>1. PICK pending, answers : pending = st.pending \ {m.from} /\ answers = st.answers \cup m.about
  OBVIOUS
<1>2. PICK d : d = Diagnosis(st.seen, answers)
  OBVIOUS
<1>3. /\ Answer(IF pending # {} THEN <<>> ELSE <<d>>)
      /\ st' = [st EXCEPT !.pending = pending, !.answers = answers]
  BY <1>1, <1>2 DEF Response
<1>4. PICK msgs : msgs = IF pending # {} THEN <<>> ELSE <<d>>
  OBVIOUS
<1>5. Answer(msgs) /\ msgs \in Seq(ToSet(msgs)) /\ ToSet(msgs) = IF pending # {} THEN {} ELSE {d}
  BY <1>3, <1>4, OneSet, NoneSet
<1>6. /\ d.type = "result" /\ d.from = "correlation_agent"
      /\ d = Message("correlation_agent", "reporting_agent", "result", d.about)
      /\ d.about = [status |-> "diagnosed", basis |-> st.seen, answers |-> answers]
  BY <1>2 DEF Diagnosis, Message
<1>7. ASSUME Sequences, Stage PROVE Stage'
  <2>1. phase = "correlation" /\ Doubting /\ IsResponse(m)
    BY <1>7, StageOfMessage DEF Task, Message, IsChallenge
  <2>2. OwnerOf(m) = m.from
    BY DEF OwnerOf
  <2>3. PICK t : t = Tail(queue)
    OBVIOUS
  <2>4. /\ log' = log \o msgs /\ t \in Seq(ToSet(t)) /\ queue' = t \o msgs /\ ToSet(queue)' = ToSet(t) \cup ToSet(msgs)
    BY <1>5, <1>7, <2>3, BusAnswered
  <2>5. /\ {OwnerOf(x) : x \in ToSet(t)} = pending
        /\ \A x \in ToSet(t) : IsChallenge(x) \/ IsResponse(x)
        /\ \A i, j \in DOMAIN t : OwnerOf(t[i]) = OwnerOf(t[j]) => i = j
        /\ Doubted = answers \cup UNION {x.about : x \in ToSet(t)}
    BY <1>1, <1>7, <2>1, <2>2, <2>3, DoubtingHead
  <2>6. Seen' = Seen /\ Doubted' = Doubted /\ Diagnosed' = Diagnosed
    <3>1. \A x \in ToSet(msgs) : x.type \notin {"finding", "challenge"}
      BY <1>5, <1>6
    <3> QED BY <1>5, <1>7, <2>4, <3>1, SameDiagnosis DEF Sequences
  <2>7. ResultsBy("reporting_agent")' = {}
    <3>1. \A x \in ToSet(msgs) : x.from # "reporting_agent"
      BY <1>5, <1>6
    <3>2. ResultsBy("reporting_agent")' = ResultsBy("reporting_agent")
      BY <1>5, <1>7, <2>4, <3>1, SameResults DEF Sequences
    <3> QED BY <2>1, <3>2 DEF Doubting
  <2>8. CASE pending # {}
    <3>1. msgs = <<>> /\ ToSet(msgs) = {}
      BY <1>4, <1>5, <2>8
    <3>2. log' = log
      BY <1>7, <2>4, <3>1, SameLog DEF Sequences
    <3>3. ResultsBy("correlation_agent")' = {}
      BY <2>1, <3>2 DEF Doubting, ResultsBy
    <3>4. queue' = t
      BY <2>4, <3>1
    <3>5. st'.seen = Seen' /\ st'.pending = pending /\ st'.answers = answers
      <4>1. DOMAIN st = {"seen", "pending", "answers"} /\ st.seen = Seen
        BY <2>1 DEF Doubting
      <4>2. st'.seen = st.seen /\ st'.pending = pending /\ st'.answers = answers
        BY <1>3, <4>1
      <4> QED BY <2>6, <4>1, <4>2
    <3>7. DOMAIN st' = {"seen", "pending", "answers"}
      BY <1>3, <2>1 DEF Doubting
    <3>6. Doubting'
      <4>1. Doubted' = st'.answers \cup UNION {x.about : x \in ToSet(queue')}
        BY <2>5, <2>6, <3>4, <3>5
      <4>2. {OwnerOf(x) : x \in ToSet(queue')} = st'.pending /\ st'.pending # {}
        BY <2>5, <2>8, <3>4, <3>5
      <4>3. \A x \in ToSet(queue') : IsChallenge(x) \/ IsResponse(x)
        BY <2>5, <3>4
      <4>4. \A i, j \in DOMAIN queue' : OwnerOf(queue'[i]) = OwnerOf(queue'[j]) => i = j
        BY <2>5, <3>4
      <4> QED BY <2>7, <3>3, <3>5, <3>7, <4>1, <4>2, <4>3, <4>4 DEF Doubting
    <3> QED BY <2>1, <3>6 DEF Stage
  <2>9. CASE pending = {}
    <3>1. msgs = <<d>> /\ ToSet(t) = {}
      BY <1>4, <2>5, <2>9
    <3>2. t = <<>>
      BY <2>4, <3>1 DEF ToSet
    <3>3. queue' = <<d>>
      BY <1>5, <2>4, <3>1, <3>2, NothingBefore
    <3>4. d.about = Diagnosed'
      <4>1. answers = Doubted
        BY <2>5, <3>1
      <4>2. st.seen = Seen
        BY <2>1 DEF Doubting
      <4> QED BY <1>6, <2>6, <4>1, <4>2 DEF Diagnosed
    <3>5. ResultsBy("correlation_agent")' = {d}
      <4>1. ResultsBy("correlation_agent") = {}
        BY <2>1 DEF Doubting
      <4> QED BY <1>6, <1>7, <2>4, <3>1, <4>1, NewResult DEF Sequences
    <3>6. Concluding'
      BY <1>6, <2>7, <3>3, <3>4, <3>5 DEF Concluding, AllDiagnosed
    <3> QED BY <2>1, <3>6 DEF Stage
  <2> QED BY <2>8, <2>9
<1> QED BY <1>5, <1>7, TurnKeeps

LEMMA ReportStep ==
  ASSUME NetCoopInv, queue # <<>>, NEW m, m = Head(queue), m.type = "result", m.to = "reporting_agent",
         ReportResult(m), UNCHANGED <<phase, report, failures>>
  PROVE  NetCoopInv'
<1>1. PICK r : r = Message("reporting_agent", "orchestrator", "result", m.about)
  OBVIOUS
<1>2. /\ r.from = "reporting_agent" /\ r.to = "orchestrator" /\ r.type = "result" /\ r.about = m.about
      /\ Answer(<<r>>) /\ <<r>> \in Seq(ToSet(<<r>>)) /\ ToSet(<<r>>) = {r}
  BY <1>1, OneSet DEF Message, ReportResult
<1>3. ASSUME Sequences, Stage PROVE Stage'
  <2>1. log' = log \o <<r>> /\ queue' = Tail(queue) \o <<r>>
    BY <1>2 DEF Answer
  <2>2. Diagnosed' = Diagnosed
    BY <1>2, <1>3, <2>1, SameDiagnosis DEF Sequences
  <2>3. ResultsBy("reporting_agent")' = ResultsBy("reporting_agent") \cup {r}
    BY <1>2, <1>3, <2>1, NewResult DEF Sequences
  <2>4. ResultsBy("correlation_agent")' = ResultsBy("correlation_agent")
    BY <1>2, <1>3, <2>1, SameResults DEF Sequences
  <2>5. \/ phase = "correlation" /\ Concluding /\ m = Message("correlation_agent", "reporting_agent", "result", Diagnosed)
        \/ phase = "reporting" /\ Forwarded /\ m = Message("orchestrator", "reporting_agent", "result", Diagnosed)
    BY <1>3, StageOfMessage DEF Task, Message, IsChallenge, IsResponse
  <2>6. m.about = Diagnosed
    BY <2>5 DEF Message
  <2>7. OnlyNotices'
    <3>1. Tail(queue) = <<>>
      BY <2>5, TailOfOne DEF Concluding, Forwarded
    <3>2. queue' = <<r>>
      BY <1>2, <2>1, <3>1, NothingBefore
    <3> QED BY <1>2, <3>2 DEF OnlyNotices
  <2>8. CASE phase = "correlation" /\ Concluding
    <3>1. ResultsBy("correlation_agent")' # {} /\ AllDiagnosed("correlation_agent")'
      BY <2>2, <2>4, <2>8 DEF Concluding, AllDiagnosed
    <3>2. ResultsBy("reporting_agent")' = {r}
      BY <2>3, <2>8 DEF Concluding
    <3>3. Tried'
      BY <1>2, <2>2, <2>6, <3>2 DEF Tried, AllDiagnosed
    <3>4. Concluded'
      BY <2>7, <3>1, <3>3 DEF Concluded
    <3> QED BY <2>8, <3>4 DEF Stage
  <2>9. CASE phase = "reporting" /\ Forwarded
    <3>1. \A x \in ResultsBy("reporting_agent") : x.about = Diagnosed
      BY <2>9 DEF Forwarded, Tried, AllDiagnosed
    <3>2. \A x \in ResultsBy("reporting_agent")' : x.about = Diagnosed'
      BY <1>2, <2>2, <2>3, <2>6, <3>1
    <3>3. Reported'
      BY <2>3, <2>7, <3>2 DEF Reported, AllDiagnosed
    <3> QED BY <2>9, <3>3 DEF Stage
  <2> QED BY <2>5, <2>8, <2>9
<1> QED BY <1>2, <1>3, TurnKeeps

\* Whatever is for the orchestrator, or a task the reporting agent has no diagnosis for, is only taken.
LEMMA IgnoredStep ==
  ASSUME NetCoopInv, queue # <<>>, NEW m, m = Head(queue),
         m.to = "orchestrator" \/ (m.type = "task" /\ m.to = "reporting_agent"),
         Ignored, UNCHANGED <<phase, report, failures>>
  PROVE  NetCoopInv'
<1>1. Answer(<<>>) /\ <<>> \in Seq(ToSet(<<>>)) /\ UNCHANGED st
  BY NoneSet DEF Ignored
<1>2. CASE m.to = "orchestrator"
  <2>1. Sequences /\ Stage => Stage'
    BY <1>1, <1>2, NoticeStep
  <2> QED BY <1>1, <2>1, TurnKeeps
<1>3. CASE m.type = "task" /\ m.to = "reporting_agent"
  <2>1. ~(Sequences /\ Stage)
    BY <1>3, StageOfMessage DEF Task, Message, IsChallenge, IsResponse, Owners, Analysts
  <2> QED BY <1>1, <2>1, TurnKeeps
<1> QED BY <1>2, <1>3

LEMMA CrashStep ==
  ASSUME NetCoopInv, queue # <<>>, NEW m, m = Head(queue), m.to # "orchestrator", Crash(m), UNCHANGED <<phase, report>>
  PROVE  NetCoopInv'
<1>1. failures' = failures \cup {m} /\ IsFiniteSet(failures') /\ st' = st
  BY FS_AddElement DEF NetCoopInv, Crash
<1>2. SUFFICES ASSUME Survivable' PROVE Sequences' /\ Stage'
  BY <1>1 DEF NetCoopInv
<1>3. Sequences /\ Stage
  BY <1>1, <1>2, StillSurvivable DEF NetCoopInv
<1>4. PICK e : e = Message(m.to, "orchestrator", "error", m.type)
  OBVIOUS
<1>5. /\ e.from = m.to /\ e.to = "orchestrator" /\ e.type = "error"
      /\ Answer(<<e>>) /\ <<e>> \in Seq(ToSet(<<e>>)) /\ ToSet(<<e>>) = {e}
  BY <1>4, OneSet DEF Message, Crash
<1>6. /\ Sequences' /\ log' = log \o <<e>> /\ queue' = Tail(queue) \o <<e>>
  BY <1>3, <1>5, BusAnswered DEF Sequences
<1>7. /\ Diagnosed' = Diagnosed
      /\ ResultsBy("correlation_agent")' = ResultsBy("correlation_agent")
      /\ ResultsBy("reporting_agent")' = ResultsBy("reporting_agent")
  <2>1. Diagnosed' = Diagnosed
    BY <1>3, <1>5, <1>6, SameDiagnosis DEF Sequences
  <2>2. ResultsBy("correlation_agent")' = ResultsBy("correlation_agent")
    BY <1>3, <1>5, <1>6, SameResults DEF Sequences
  <2>3. ResultsBy("reporting_agent")' = ResultsBy("reporting_agent")
    BY <1>3, <1>5, <1>6, SameResults DEF Sequences
  <2> QED BY <2>1, <2>2, <2>3
<1>8. m.to = "reporting_agent" \/ (m.type = "task" /\ m.to \in Owners)
  BY <1>1, <1>2 DEF Survivable
<1>9. CASE phase \in {"start", "analysis", "topology"} /\ Gathering /\ m.type = "task" /\ m.to \in Owners
  <2>1. Gathering'
    BY <1>3, <1>5, <1>9, GatheringStep
  <2> QED BY <1>6, <1>9, <2>1 DEF Stage
<1>10. CASE phase = "correlation" /\ Concluding /\ m = Message("correlation_agent", "reporting_agent", "result", Diagnosed)
  <2>1. OnlyNotices'
    <3>1. Tail(queue) = <<>>
      BY <1>10, TailOfOne DEF Concluding
    <3>2. queue' = <<e>>
      BY <1>5, <1>6, <3>1, NothingBefore
    <3> QED BY <1>5, <3>2 DEF OnlyNotices
  <2>2. m.from = "correlation_agent" /\ m.to = "reporting_agent"
    BY <1>10 DEF Message
  <2>3. ResultsBy("reporting_agent")' = {}
    BY <1>7, <1>10 DEF Concluding
  <2>4. Tried'
    BY <1>1, <2>2, <2>3 DEF Tried, AllDiagnosed
  <2>5. ResultsBy("correlation_agent")' # {} /\ AllDiagnosed("correlation_agent")'
    BY <1>7, <1>10 DEF Concluding, AllDiagnosed
  <2>6. Concluded'
    BY <2>1, <2>4, <2>5 DEF Concluded
  <2> QED BY <1>6, <1>10, <2>6 DEF Stage
<1>11. CASE phase = "reporting" /\ Forwarded /\ m = Message("orchestrator", "reporting_agent", "result", Diagnosed)
  <2>1. OnlyNotices'
    <3>1. Tail(queue) = <<>>
      BY <1>11, TailOfOne DEF Forwarded
    <3>2. queue' = <<e>>
      BY <1>5, <1>6, <3>1, NothingBefore
    <3> QED BY <1>5, <3>2 DEF OnlyNotices
  <2>2. m.from = "orchestrator" /\ m.to = "reporting_agent"
    BY <1>11 DEF Message
  <2>3. ~\E f \in failures : f.from = "correlation_agent" /\ f.to = "reporting_agent"
    <3>1. SUFFICES ASSUME NEW f \in failures, f.from = "correlation_agent", f.to = "reporting_agent" PROVE FALSE
      OBVIOUS
    <3>2. f \in failures' /\ m \in failures' /\ f # m
      BY <1>1, <2>2, <3>1
    <3>3. PICK F : F = failures'
      OBVIOUS
    <3>4. IsFiniteSet({x \in F : x.to = "reporting_agent"}) /\ {f, m} \subseteq {x \in F : x.to = "reporting_agent"}
      BY <1>1, <2>2, <3>1, <3>2, <3>3, FS_Subset
    <3>5. Cardinality({x \in F : x.to = "reporting_agent"}) =< 1
      BY <1>2, <3>3 DEF Survivable
    <3> QED BY <3>2, <3>4, <3>5, TwoAreMore
  <2>4. ResultsBy("reporting_agent") # {} /\ AllDiagnosed("reporting_agent")
    BY <1>11, <2>3 DEF Forwarded, Tried
  <2>5. Reported'
    BY <1>7, <2>1, <2>4 DEF Reported, AllDiagnosed
  <2> QED BY <1>6, <1>11, <2>5 DEF Stage
<1> QED BY <1>3, <1>8, <1>9, <1>10, <1>11, StageOfMessage DEF Task, Message, IsChallenge, IsResponse, Owners, Analysts

LEMMA RunBusStep == ASSUME NetCoopInv, RunBus PROVE NetCoopInv'
<1>1. PICK m : m = Head(queue)
  OBVIOUS
<1>2. /\ queue # <<>> /\ UNCHANGED <<phase, report>>
      /\ \/ m.to = "orchestrator" /\ Ignored /\ UNCHANGED failures
         \/ m.to # "orchestrator" /\ Handle(m) /\ UNCHANGED failures
         \/ m.to # "orchestrator" /\ Crash(m)
  BY <1>1 DEF RunBus
<1>3. CASE m.to = "orchestrator" /\ Ignored /\ UNCHANGED failures
  BY <1>1, <1>2, <1>3, IgnoredStep
<1>4. CASE m.to # "orchestrator" /\ Handle(m) /\ UNCHANGED failures
  <2>1. CASE m.type = "task" /\ m.to \in Analysts /\ AnalystTask(m)
    BY <1>1, <1>2, <1>4, <2>1, AnalystStep
  <2>2. CASE m.type = "task" /\ m.to = "connectivity_agent" /\ ConnectivityTask(m)
    BY <1>1, <1>2, <1>4, <2>2, ConnectivityStep
  <2>3. CASE m.type = "task" /\ m.to = "correlation_agent" /\ CorrelationTask(m)
    BY <1>1, <1>2, <1>4, <2>3, CorrelationStep
  <2>4. CASE m.type = "challenge" /\ Challenged(m)
    BY <1>1, <1>2, <1>4, <2>4, ChallengedStep
  <2>5. CASE m.type = "challenge_response" /\ Response(m)
    BY <1>1, <1>2, <1>4, <2>5, ResponseStep
  <2>6. CASE m.type = "result" /\ m.to = "reporting_agent" /\ ReportResult(m)
    BY <1>1, <1>2, <1>4, <2>6, ReportStep
  <2>7. CASE m.type = "task" /\ m.to = "reporting_agent" /\ Ignored
    BY <1>1, <1>2, <1>4, <2>7, IgnoredStep
  <2> QED BY <1>4, <2>1, <2>2, <2>3, <2>4, <2>5, <2>6, <2>7 DEF Handle
<1>5. CASE m.to # "orchestrator" /\ Crash(m)
  BY <1>1, <1>2, <1>5, CrashStep
<1> QED BY <1>2, <1>3, <1>4, <1>5

-----------------------------------------------------------------------------
(* The phases. *)

\* A phase keeps the invariant when the next one begins as it should.
LEMMA PhaseKeeps ==
  ASSUME NetCoopInv, NEW from, NEW to, NEW msgs, msgs \in Seq(ToSet(msgs)), Phase(from, to, msgs),
         /\ Sequences /\ Stage
         /\ log' = log \o msgs /\ queue' = msgs /\ ToSet(log)' = ToSet(log) \cup ToSet(msgs)
         => Stage'
  PROVE  NetCoopInv'
<1>1. queue = <<>> /\ Send(msgs) /\ UNCHANGED failures
  BY DEF Phase
<1>2. SUFFICES ASSUME Survivable' PROVE Sequences' /\ Stage'
  BY <1>1 DEF NetCoopInv
<1>3. Sequences /\ Stage
  BY <1>1, <1>2, StillSurvivable DEF NetCoopInv
<1>4. log' = log \o msgs /\ log' \in Seq(ToSet(log')) /\ queue' = msgs /\ queue' \in Seq(ToSet(queue'))
  BY <1>1, <1>3, Posted
<1>5. ToSet(log)' = ToSet(log) \cup ToSet(msgs)
  BY <1>3, <1>4, LogGrows DEF Sequences
<1> QED BY <1>3, <1>4, <1>5 DEF Sequences

LEMMA TaskFields ==
  ASSUME NEW to, NEW refs
  PROVE  /\ Task(to, refs).from = "orchestrator" /\ Task(to, refs).to = to
         /\ Task(to, refs).type = "task" /\ Task(to, refs).about = refs
BY DEF Task, Message

LEMMA AnalyseStep == ASSUME NetCoopInv, Analyse PROVE NetCoopInv'
<1>1. PICK p, i : p = Task("performance_agent", {}) /\ i = Task("infrastructure_agent", {})
  OBVIOUS
<1>2. PICK msgs : msgs = <<p, i>>
  OBVIOUS
<1>3. Phase("start", "analysis", msgs) /\ phase = "start" /\ phase' = "analysis"
  BY <1>1, <1>2 DEF Analyse, Phase
<1>4. msgs \in Seq(ToSet(msgs)) /\ ToSet(msgs) = {p, i}
  BY <1>2, TwoSet
<1>5. \A x \in {p, i} : x.from = "orchestrator" /\ x.type = "task" /\ x.to \in Owners
  BY <1>1, TaskFields DEF Owners, Analysts
<1>6. ASSUME Stage, queue' = msgs, ToSet(log)' = ToSet(log) \cup ToSet(msgs) PROVE Stage'
  <2>1. Gathering
    BY <1>3, <1>6 DEF Stage
  <2>2. Gathering'
    BY <1>4, <1>5, <1>6, <2>1 DEF Gathering, LogOfOwners
  <2> QED BY <1>3, <2>2 DEF Stage
<1> QED BY <1>3, <1>4, <1>6, PhaseKeeps

LEMMA ConnectStep == ASSUME NetCoopInv, Connect PROVE NetCoopInv'
<1>1. PICK t : t = Task("connectivity_agent", Readings)
  OBVIOUS
<1>2. PICK msgs : msgs = <<t>>
  OBVIOUS
<1>3. Phase("analysis", "topology", msgs) /\ phase = "analysis" /\ phase' = "topology"
  BY <1>1, <1>2 DEF Connect, Phase
<1>4. msgs \in Seq(ToSet(msgs)) /\ ToSet(msgs) = {t}
  BY <1>2, OneSet
<1>5. t.from = "orchestrator" /\ t.type = "task" /\ t.to \in Owners
  BY <1>1, TaskFields DEF Owners
<1>6. ASSUME Stage, queue' = msgs, ToSet(log)' = ToSet(log) \cup ToSet(msgs) PROVE Stage'
  <2>1. Gathering
    BY <1>3, <1>6 DEF Stage
  <2>2. Gathering'
    BY <1>4, <1>5, <1>6, <2>1 DEF Gathering, LogOfOwners
  <2> QED BY <1>3, <2>2 DEF Stage
<1> QED BY <1>3, <1>4, <1>6, PhaseKeeps

LEMMA CorrelateStep == ASSUME NetCoopInv, Correlate PROVE NetCoopInv'
<1>1. PICK t : t = Task("correlation_agent", Readings)
  OBVIOUS
<1>2. PICK msgs : msgs = <<t>>
  OBVIOUS
<1>3. Phase("topology", "correlation", msgs) /\ phase = "topology" /\ phase' = "correlation"
  BY <1>1, <1>2 DEF Correlate, Phase
<1>4. msgs \in Seq(ToSet(msgs)) /\ ToSet(msgs) = {t}
  BY <1>2, OneSet
<1>5. t.from = "orchestrator" /\ t.type = "task"
  BY <1>1, TaskFields
<1>6. ASSUME Sequences, Stage, log' = log \o msgs, queue' = msgs, ToSet(log)' = ToSet(log) \cup ToSet(msgs) PROVE Stage'
  <2>1. Gathering
    BY <1>3, <1>6 DEF Stage
  <2>2. LogOfOwners'
    BY <1>4, <1>5, <1>6, <2>1 DEF Gathering, LogOfOwners
  <2>3. Readings' = Readings
    BY <1>4, <1>5, <1>6, LogGrows DEF Sequences
  <2>4. Asked'
    BY <1>1, <1>2, <1>6, <2>2, <2>3 DEF Asked, Task
  <2> QED BY <1>3, <2>4 DEF Stage
<1> QED BY <1>3, <1>4, <1>6, PhaseKeeps

\* The last result of an agent whose results are all the diagnosis.
LEMMA LastDiagnosed ==
  ASSUME Sequences, NEW a, ResultsBy(a) # {}, AllDiagnosed(a)
  PROVE  ResultsOf(a) # {} /\ log[Max(ResultsOf(a))].about = Diagnosed
<1>1. PICK I, n : I = ResultsOf(a) /\ n = Len(log)
  OBVIOUS
<1>2. n \in Nat /\ DOMAIN log = 1 .. n
  BY <1>1 DEF Sequences
<1>3. I = {i \in 1 .. n : log[i].from = a /\ log[i].type = "result"}
  BY <1>1, <1>2 DEF ResultsOf
<1>4. I # {}
  <2>1. PICK m \in ToSet(log) : m.from = a /\ m.type = "result"
    BY DEF ResultsBy
  <2>2. PICK i \in 1 .. n : m = log[i]
    BY <1>2 DEF ToSet
  <2> QED BY <1>3, <2>1, <2>2
<1>5. Max(I) \in I
  <2>1. I \in SUBSET (0 .. n)
    BY <1>2, <1>3
  <2> QED BY <1>2, <1>4, <2>1, GreatestNatural
<1>6. ASSUME NEW i \in I PROVE log[i].about = Diagnosed
  <2>1. log[i] \in ResultsBy(a)
    BY <1>2, <1>3 DEF ResultsBy, ToSet
  <2> QED BY <2>1 DEF AllDiagnosed
<1> QED BY <1>1, <1>4, <1>5, <1>6

LEMMA ReportPhaseStep == ASSUME NetCoopInv, Report PROVE NetCoopInv'
<1>1. PICK c : c = IF ResultsOf("correlation_agent") = {} THEN Task("reporting_agent", Readings)
                   ELSE Message("orchestrator", "reporting_agent", "result", log[Max(ResultsOf("correlation_agent"))].about)
  OBVIOUS
<1>2. PICK msgs : msgs = <<c>>
  OBVIOUS
<1>3. Phase("correlation", "reporting", msgs) /\ phase = "correlation" /\ phase' = "reporting" /\ queue = <<>> /\ UNCHANGED failures
  BY <1>1, <1>2 DEF Report, Phase
<1>4. msgs \in Seq(ToSet(msgs)) /\ ToSet(msgs) = {c}
  BY <1>2, OneSet
<1>5. c.from = "orchestrator" /\ c.type \in {"task", "result"}
  BY <1>1, TaskFields DEF Message
<1>6. ASSUME Sequences, Stage, log' = log \o msgs, queue' = msgs PROVE Stage'
  <2>1. ~Asked /\ ~Concluding
    BY <1>3 DEF Asked, Concluding
  <2>2. ~Doubting
    BY <1>3, NoneSet DEF Doubting
  <2>3. Concluded
    BY <1>3, <1>6, <2>1, <2>2 DEF Stage
  <2>4. c = Message("orchestrator", "reporting_agent", "result", Diagnosed)
    BY <1>1, <1>6, <2>3, LastDiagnosed DEF Concluded
  <2>5. Diagnosed' = Diagnosed
    BY <1>4, <1>5, <1>6, SameDiagnosis DEF Sequences
  <2>6. ResultsBy("reporting_agent")' = ResultsBy("reporting_agent")
    BY <1>4, <1>5, <1>6, SameResults DEF Sequences
  <2>7. Tried'
    BY <1>3, <2>3, <2>5, <2>6 DEF Concluded, Tried, AllDiagnosed
  <2>8. Forwarded'
    BY <1>2, <1>6, <2>4, <2>5, <2>7 DEF Forwarded
  <2> QED BY <1>3, <2>8 DEF Stage
<1> QED BY <1>3, <1>4, <1>6, PhaseKeeps

LEMMA CollectStep == ASSUME NetCoopInv, Collect PROVE NetCoopInv'
<1>1. PICK g : g = Message("groq_llm_agent", "reporting_agent", "result", NoReport)
  OBVIOUS
<1>2. /\ phase = "reporting" /\ phase' = "done" /\ queue = <<>> /\ UNCHANGED <<queue, failures, st>>
      /\ report' = IF ResultsOf("reporting_agent") = {} THEN [status |-> "complete", basis |-> {}, answers |-> {}]
                   ELSE log[Max(ResultsOf("reporting_agent"))].about
      /\ log' = log \/ log' = Append(log, g)
  BY <1>1 DEF Collect
<1>3. SUFFICES ASSUME Survivable' PROVE Sequences' /\ Stage'
  BY <1>2 DEF NetCoopInv
<1>4. Sequences /\ Stage
  BY <1>2, <1>3, StillSurvivable DEF NetCoopInv
<1>5. <<g>> \in Seq(ToSet(<<g>>)) /\ ToSet(<<g>>) = {g} /\ g.type = "result"
  BY <1>1, OneSet DEF Message
<1>6. log' = log \/ log' = log \o <<g>>
  <2>1. log \in Seq(ToSet(log) \cup {g}) /\ g \in ToSet(log) \cup {g}
    BY <1>4 DEF Sequences
  <2>2. Append(log, g) = log \o <<g>>
    BY <2>1
  <2> QED BY <1>2, <2>2
<1>7. Sequences'
  BY <1>2, <1>4, <1>5, <1>6, LogGrows DEF Sequences
<1>8. Diagnosed' = Diagnosed
  <2>1. CASE log' = log
    BY <2>1 DEF Diagnosed, Seen, Readings, Doubted
  <2>2. CASE log' = log \o <<g>>
    BY <1>4, <1>5, <2>2, SameDiagnosis DEF Sequences
  <2> QED BY <1>6, <2>1, <2>2
<1>9. Reported
  BY <1>2, <1>4 DEF Stage, Forwarded
<1>10. report' = Diagnosed
  BY <1>2, <1>4, <1>9, LastDiagnosed DEF Reported
<1>11. Stage'
  BY <1>2, <1>8, <1>10 DEF Stage
<1> QED BY <1>7, <1>11

LEMMA NetCoopStep == ASSUME NetCoopInv, [NetCoopNext]_netcoopVars PROVE NetCoopInv'
<1>1. CASE NetCoopNext
  BY <1>1, AnalyseStep, ConnectStep, CorrelateStep, ReportPhaseStep, CollectStep, RunBusStep DEF NetCoopNext
<1>2. CASE UNCHANGED netcoopVars
  BY <1>2 DEF netcoopVars, NetCoopInv, Sequences, Survivable, Stage, Gathering, LogOfOwners, Asked, Task, Readings, Doubting,
     Seen, Doubted, ResultsBy, Concluding, Diagnosed, AllDiagnosed, Concluded, OnlyNotices, Tried, Forwarded, Reported
<1> QED BY <1>1, <1>2

LEMMA NetCoopStart == NetCoopInit => NetCoopInv
<1> SUFFICES ASSUME NetCoopInit PROVE NetCoopInv
  OBVIOUS
<1>1. log = <<>> /\ queue = <<>> /\ phase = "start" /\ IsFiniteSet(failures)
  BY FS_EmptySet DEF NetCoopInit
<1>2. ToSet(log) = {} /\ ToSet(queue) = {} /\ Sequences
  BY <1>1, NoneSet DEF Sequences
<1>3. Stage
  BY <1>1, <1>2 DEF Stage, Gathering, LogOfOwners
<1> QED BY <1>1, <1>2, <1>3 DEF NetCoopInv

\* A diagnosis rests on every reading, with an answer for every doubt, whoever may throw of those that can be
\* done without: the report is what the correlation agent found, by one of the two copies of it.
THEOREM DiagnosisIsReported == NetCoopSpec => []ReportIsDiagnosis
<1>1. NetCoopInv => ReportIsDiagnosis
  <2>1. SUFFICES ASSUME NetCoopInv, phase = "done", Survivable
                 PROVE /\ report.status = "diagnosed" /\ report.basis = Seen /\ report.answers = Doubted
    BY DEF ReportIsDiagnosis, Seen, Doubted
  <2>2. report = Diagnosed
    BY <2>1 DEF NetCoopInv, Stage
  <2> QED BY <2>2 DEF Diagnosed
<1> QED BY <1>1, NetCoopStart, NetCoopStep, PTL DEF NetCoopSpec

-----------------------------------------------------------------------------
(* What cases store. *)

\* A request goes on with what fits, and what it has stored fits.
LEMMA FittingStep ==
  ASSUME CaseTypesInv, NEW w \in Workers, NEW j, Continue(w, j), CarriesOK(j), CasesTypeOK', CasesInv'
  PROVE  CaseTypesInv'
<1>1. job'[w] = j /\ \A v \in Workers \ {w} : job'[v] = job[v]
  BY ContinueJob DEF CaseTypesInv, CasesInv
<1>2. \A v \in Workers : CarriesOK(job'[v])
  BY <1>1 DEF CaseTypesInv
<1> QED BY <1>2 DEF CaseTypesInv

LEMMA QuietTypes ==
  ASSUME CasesTypeOK, UNCHANGED <<cases, tasks, links, iocs, forced>>
  PROVE  CasesTypeOK'
BY DEF CasesTypeOK

LEMMA IdleCarries == CarriesOK(NoJob)
BY DEF CarriesOK, NoJob

LEMMA LinkCarries ==
  ASSUME NEW c, NEW ids \in SUBSET Alerts, NEW k
  PROVE  CarriesOK(Job("link", c, [ids |-> ids, killchain |-> k]))
<1>1. DOMAIN [ids |-> ids, killchain |-> k] = {"ids", "killchain"}
  OBVIOUS
<1>2. PICK j : j = Job("link", c, [ids |-> ids, killchain |-> k])
  OBVIOUS
<1>3. "ids" \in DOMAIN j /\ j.pc = "link" /\ j.ids = ids
  BY <1>1, <1>2, JobFields
<1> QED BY <1>2, <1>3 DEF CarriesOK

LEMMA IocCarries ==
  ASSUME NEW c, NEW vs \in SUBSET Values, NEW left
  PROVE  CarriesOK(Job("add_ioc", c, [left |-> left, values |-> vs]))
<1>1. DOMAIN [left |-> left, values |-> vs] = {"left", "values"}
  OBVIOUS
<1>2. PICK j : j = Job("add_ioc", c, [left |-> left, values |-> vs])
  OBVIOUS
<1>3. "values" \in DOMAIN j /\ j.pc = "add_ioc" /\ j.values = vs
  BY <1>1, <1>2, JobFields
<1> QED BY <1>2, <1>3 DEF CarriesOK

LEMMA WriteCarries ==
  ASSUME NEW c, NEW p, PatchOK(p), NEW force
  PROVE  CarriesOK(Write(c, p, force))
<1>1. DOMAIN [patch |-> p, force |-> force] = {"patch", "force"}
  OBVIOUS
<1>2. PICK j : j = Write(c, p, force)
  OBVIOUS
<1>3. j.pc = "write" /\ j.patch = p
  BY <1>1, <1>2, JobFields DEF Write
<1> QED BY <1>2, <1>3 DEF CarriesOK

LEMMA OtherCarries ==
  ASSUME NEW pc, pc \notin {"link", "derive", "mitre", "add_ioc", "write"}, NEW c, NEW fields
  PROVE  CarriesOK(Job(pc, c, fields))
<1>1. PICK j : j = Job(pc, c, fields)
  OBVIOUS
<1>2. j.pc = pc
  BY <1>1, JobFields
<1> QED BY <1>1, <1>2 DEF CarriesOK

LEMMA AttachCarries == ASSUME NEW j PROVE CarriesOK(AfterAttach(j))
BY IdleCarries, IocCarries DEF AfterAttach

LEMMA OpenCaseTypes == ASSUME CaseTypesInv, NEW w \in Workers, OpenCase(w) PROVE CaseTypesInv'
<1>1. PICK c \in CaseIds, s \in 1 .. Severest, ids \in SUBSET Alerts, killchain \in BOOLEAN, m \in SUBSET Techniques :
        /\ cases' = [cases EXCEPT ![c] = [NoCase EXCEPT !.status = "OPEN", !.severity = s, !.mitre = m]]
        /\ Continue(w, IF ids = {} THEN NoJob ELSE Job("link", c, [ids |-> ids, killchain |-> killchain]))
  BY DEF OpenCase
<1>2. PICK j : j = IF ids = {} THEN NoJob ELSE Job("link", c, [ids |-> ids, killchain |-> killchain])
  OBVIOUS
<1>3. CarriesOK(j) /\ Continue(w, j)
  BY <1>1, <1>2, IdleCarries, LinkCarries
<1>4. [NoCase EXCEPT !.status = "OPEN", !.severity = s, !.mitre = m] \in CaseRow
  BY DEF NoCase, CaseRow, CASE_STATUS
<1>5. CasesTypeOK'
  BY <1>1, <1>4 DEF CaseTypesInv, CasesTypeOK, OpenCase
<1>6. CasesInv'
  BY OpenCaseStep DEF CaseTypesInv
<1> QED BY <1>3, <1>5, <1>6, FittingStep

LEMMA StartCaseTypes ==
  ASSUME CaseTypesInv, NEW w \in Workers,
         StartContent(w) \/ StartUnlink(w) \/ StartClose(w) \/ StartReopen(w) \/ StartEscalate(w) \/ StartUpdate(w)
  PROVE  CaseTypesInv'
<1>1. CasesInv' /\ CasesTypeOK'
  <2>1. UNCHANGED <<cases, tasks, links, iocs, forced>>
    BY DEF StartContent, StartUnlink, StartClose, StartReopen, StartEscalate, StartUpdate
  <2> QED BY <2>1, StartCaseStep, QuietTypes DEF CaseTypesInv
<1>2. ASSUME NEW c \in CaseIds, NEW p, PatchOK(p), Continue(w, Write(c, p, FALSE)) PROVE CaseTypesInv'
  BY <1>1, <1>2, WriteCarries, FittingStep
<1>3. CASE StartContent(w)
  <2>1. PICK c \in CaseIds :
          \/ \E ids \in (SUBSET Alerts) \ {{}} : Continue(w, Job("link", c, [ids |-> ids, killchain |-> FALSE]))
          \/ Continue(w, Job("add_task", c, [left |-> 1]))
          \/ Continue(w, Job("set_task", c, [open |-> cases[c].status = "OPEN"]))
          \/ \E vs \in (SUBSET Values) \ {{}} : Continue(w, Job("add_ioc", c, [left |-> 0, values |-> vs]))
          \/ \E v \in iocs[c] : Continue(w, Job("remove_ioc", c, [value |-> v]))
    BY <1>3 DEF StartContent
  <2> QED BY <1>1, <2>1, LinkCarries, IocCarries, OtherCarries, FittingStep
<1>4. CASE StartUnlink(w)
  <2>1. PICK c \in CaseIds, a \in Alerts : Continue(w, Job("unlink", c, [alert |-> a]))
    BY <1>4 DEF StartUnlink
  <2> QED BY <1>1, <2>1, OtherCarries, FittingStep
<1>5. CASE StartClose(w)
  <2>1. PICK c \in CaseIds, force \in BOOLEAN : Continue(w, Job("close", c, [force |-> force]))
    BY <1>5 DEF StartClose
  <2> QED BY <1>1, <2>1, OtherCarries, FittingStep
<1>6. CASE StartReopen(w)
  <2>1. PICK c \in CaseIds : Continue(w, Write(c, [status |-> "IN_PROGRESS", closed |-> FALSE], FALSE))
    BY <1>6 DEF StartReopen
  <2>2. PatchOK([status |-> "IN_PROGRESS", closed |-> FALSE])
    BY DEF PatchOK, CASE_STATUS
  <2> QED BY <1>2, <2>1, <2>2
<1>7. CASE StartEscalate(w)
  <2>1. PICK c \in CaseIds :
          /\ Writable(c)
          /\ Continue(w, Write(c, [escalated |-> TRUE,
               severity |-> IF cases[c].severity = Severest THEN Severest ELSE cases[c].severity + 1,
               status |-> IF cases[c].status = "OPEN" THEN "IN_PROGRESS" ELSE cases[c].status], FALSE))
    BY <1>7 DEF StartEscalate
  <2>2. PICK p : p = [escalated |-> TRUE,
               severity |-> IF cases[c].severity = Severest THEN Severest ELSE cases[c].severity + 1,
               status |-> IF cases[c].status = "OPEN" THEN "IN_PROGRESS" ELSE cases[c].status]
    OBVIOUS
  <2>3. cases[c] \in CaseRow /\ cases[c].status \in CASE_STATUS
    BY <2>1 DEF CaseTypesInv, CasesTypeOK, CaseRow, Writable, Exists
  <2>4. cases[c].severity \in 1 .. Severest
    BY <2>3 DEF CaseRow
  <2>5. p.severity \in 1 .. Severest
    BY <2>2, <2>4, CasesAssumption
  <2>6. PatchOK(p)
    BY <2>2, <2>3, <2>5 DEF PatchOK, CASE_STATUS
  <2> QED BY <1>2, <2>1, <2>2, <2>6
<1>8. CASE StartUpdate(w)
  <2>1. PICK c \in CaseIds : \/ \E p \in PatchStatus(c) : Continue(w, Write(c, p, FALSE))
                             \/ \E s \in 1 .. Severest : Continue(w, Write(c, [severity |-> s], FALSE))
                             \/ \E m \in SUBSET Techniques : Continue(w, Write(c, [mitre |-> m], FALSE))
    BY <1>8 DEF StartUpdate
  <2>2. ASSUME NEW p \in PatchStatus(c) PROVE PatchOK(p)
    <3>1. PICK s \in CASE_STATUS :
            p = IF cases[c].status = "CLOSED" THEN [status |-> s, closed |-> FALSE] ELSE [status |-> s]
      BY DEF PatchStatus
    <3>2. PatchOK([status |-> s, closed |-> FALSE]) /\ PatchOK([status |-> s])
      BY DEF PatchOK
    <3> QED BY <3>1, <3>2
  <2>3. /\ \A s \in 1 .. Severest : PatchOK([severity |-> s])
        /\ \A m \in SUBSET Techniques : PatchOK([mitre |-> m])
    BY DEF PatchOK
  <2> QED BY <1>2, <2>1, <2>2, <2>3
<1> QED BY <1>3, <1>4, <1>5, <1>6, <1>7, <1>8

LEMMA LinkTypes == ASSUME CaseTypesInv, NEW w \in Workers, Link(w) PROVE CaseTypesInv'
<1>1. PICK j : j = job[w] /\ j.pc = "link" /\ CarriesOK(j) /\ j.on \in CaseIds /\ "pc" \in DOMAIN j
  BY AtWork DEF Link, At, CaseTypesInv, CasesInv, JobOK
<1>2. PICK added : added = j.ids \ Linked(j.on)
  OBVIOUS
<1>3. PICK g : g = IF added = {} THEN AfterAttach(j) ELSE [j EXCEPT !.pc = "derive", !.ids = added]
  OBVIOUS
<1>4. /\ Continue(w, g) /\ links' = links \cup {<<j.on, a>> : a \in added}
      /\ UNCHANGED <<cases, tasks, iocs, forced>>
  BY <1>1, <1>2, <1>3 DEF Link
<1>5. added \subseteq Alerts /\ "ids" \in DOMAIN j
  BY <1>1, <1>2 DEF CarriesOK
<1>6. CarriesOK([j EXCEPT !.pc = "derive", !.ids = added])
  BY <1>1, <1>5 DEF CarriesOK
<1>7. CarriesOK(g)
  BY <1>3, <1>6, AttachCarries
<1>8. CasesTypeOK'
  BY <1>1, <1>4, <1>5 DEF CaseTypesInv, CasesTypeOK
<1> QED BY <1>4, <1>7, <1>8, LinkStep, FittingStep DEF CaseTypesInv

LEMMA DeriveTypes == ASSUME CaseTypesInv, NEW w \in Workers, Derive(w) PROVE CaseTypesInv'
<1>1. PICK j : j = job[w] /\ j.pc = "derive" /\ CarriesOK(j) /\ j.on \in CaseIds /\ "pc" \in DOMAIN j
  BY AtWork DEF Derive, At, CaseTypesInv, CasesInv, JobOK
<1>2. PICK mitre : mitre = cases[j.on].mitre \cup {TechniqueOf[a] : a \in j.ids}
  OBVIOUS
<1>3. PICK h : h = Patched(j, [pc |-> "mitre", mitre |-> mitre])
  OBVIOUS
<1>4. Continue(w, IF mitre = cases[j.on].mitre THEN AfterAttach(j) ELSE h)
  BY <1>1, <1>2, <1>3 DEF Derive
<1>5. mitre \subseteq Techniques
  <2>1. cases[j.on] \in CaseRow
    BY <1>1 DEF CaseTypesInv, CasesTypeOK
  <2> QED BY <1>1, <1>2, <2>1 DEF CarriesOK, CaseRow, Techniques
<1>6. h.pc = "mitre" /\ h.mitre = mitre
  <2>1. DOMAIN [pc |-> "mitre", mitre |-> mitre] = {"pc", "mitre"}
    OBVIOUS
  <2> QED BY <1>3, <2>1 DEF Patched
<1>7. CarriesOK(h)
  BY <1>5, <1>6 DEF CarriesOK
<1>8. CasesTypeOK' /\ CasesInv'
  BY DeriveStep, QuietTypes DEF CaseTypesInv, Derive
<1> QED BY <1>4, <1>7, <1>8, AttachCarries, FittingStep

LEMMA WriteMitreTypes == ASSUME CaseTypesInv, NEW w \in Workers, WriteMitre(w) PROVE CaseTypesInv'
<1>1. PICK j : j = job[w] /\ j.pc = "mitre" /\ CarriesOK(j) /\ j.on \in CaseIds
  BY AtWork DEF WriteMitre, At, CaseTypesInv, CasesInv
<1>2. /\ cases' = [cases EXCEPT ![j.on].mitre = j.mitre] /\ Continue(w, AfterAttach(j))
      /\ UNCHANGED <<tasks, links, iocs, forced>>
  BY <1>1 DEF WriteMitre
<1>3. j.mitre \subseteq Techniques
  BY <1>1 DEF CarriesOK
<1>4. cases' \in [CaseIds -> CaseRow]
  BY <1>1, <1>2, <1>3 DEF CaseTypesInv, CasesTypeOK, CaseRow
<1>5. CasesTypeOK'
  BY <1>2, <1>4 DEF CaseTypesInv, CasesTypeOK
<1> QED BY <1>2, <1>5, AttachCarries, WriteMitreStep, FittingStep DEF CaseTypesInv

LEMMA EndTypes == ASSUME CaseTypesInv, NEW w \in Workers, Unlink(w) \/ RemoveIoc(w) PROVE CaseTypesInv'
<1>1. Continue(w, NoJob) /\ CasesInv'
  BY EndStep DEF CaseTypesInv, Unlink, RemoveIoc, Done
<1>2. CASE Unlink(w)
  <2>1. CasesTypeOK'
    BY <1>2 DEF CaseTypesInv, CasesTypeOK, Unlink
  <2> QED BY <1>1, <2>1, IdleCarries, FittingStep
<1>3. CASE RemoveIoc(w)
  <2>1. PICK c, v : c = job[w].on /\ v = job[w].value
    OBVIOUS
  <2>2. iocs' = [iocs EXCEPT ![c] = @ \ {v}] /\ UNCHANGED <<cases, tasks, links, forced>>
    BY <1>3, <2>1 DEF RemoveIoc
  <2>3. iocs' \in [CaseIds -> SUBSET Values]
    BY <2>2 DEF CaseTypesInv, CasesTypeOK
  <2>4. CasesTypeOK'
    BY <2>2, <2>3 DEF CaseTypesInv, CasesTypeOK
  <2> QED BY <1>1, <2>4, IdleCarries, FittingStep
<1> QED BY <1>2, <1>3

LEMMA AddIocTypes == ASSUME CaseTypesInv, NEW w \in Workers, AddIoc(w) PROVE CaseTypesInv'
<1>1. PICK j : j = job[w] /\ j.pc = "add_ioc" /\ CarriesOK(j) /\ j.on \in CaseIds
  BY AtWork DEF AddIoc, At, CaseTypesInv, CasesInv
<1>2. PICK v \in j.values : /\ iocs' = [iocs EXCEPT ![j.on] = @ \cup {v}]
                            /\ Continue(w, CASE j.values # {v} -> [j EXCEPT !.values = @ \ {v}]
                                              [] j.left > 0 -> Job("add_task", j.on, [left |-> j.left])
                                              [] OTHER -> NoJob)
  BY <1>1 DEF AddIoc
<1>3. PICK g : g = CASE j.values # {v} -> [j EXCEPT !.values = @ \ {v}]
                     [] j.left > 0 -> Job("add_task", j.on, [left |-> j.left])
                     [] OTHER -> NoJob
  OBVIOUS
<1>4. g \in {[j EXCEPT !.values = @ \ {v}], Job("add_task", j.on, [left |-> j.left]), NoJob}
  BY <1>3
<1>5. "values" \in DOMAIN j /\ j.values \subseteq Values
  BY <1>1 DEF CarriesOK
<1>6. CarriesOK([j EXCEPT !.values = @ \ {v}])
  BY <1>1, <1>5 DEF CarriesOK
<1>7. CarriesOK(g)
  BY <1>4, <1>6, IdleCarries, OtherCarries
<1>8. iocs' \in [CaseIds -> SUBSET Values] /\ UNCHANGED <<cases, tasks, links, forced>>
  BY <1>1, <1>2, <1>5 DEF CaseTypesInv, CasesTypeOK, AddIoc
<1>9. CasesTypeOK'
  BY <1>8 DEF CaseTypesInv, CasesTypeOK
<1> QED BY <1>2, <1>3, <1>7, <1>9, AddIocStep, FittingStep DEF CaseTypesInv

LEMMA TaskTypes == ASSUME CaseTypesInv, NEW w \in Workers, AddTask(w) \/ SetTask(w) PROVE CaseTypesInv'
<1>1. CasesInv'
  BY AddTaskStep, SetTaskStep DEF CaseTypesInv
<1>2. CasesTypeOK'
  <2>1. tasks' \in [Tasks -> [case : CaseIds \cup {None}, status : TASK_STATUS]]
    BY <1>1 DEF CasesInv, CaseRows
  <2>2. UNCHANGED <<cases, links, iocs, forced>>
    BY DEF AddTask, SetTask
  <2> QED BY <2>1, <2>2 DEF CaseTypesInv, CasesTypeOK
<1>3. PICK j : j = job[w]
  OBVIOUS
<1>4. CASE AddTask(w)
  <2>1. Continue(w, IF j.left = 1 THEN NoJob ELSE [j EXCEPT !.left = @ - 1]) /\ j.pc = "add_task"
    BY <1>3, <1>4 DEF AddTask, At
  <2>2. CarriesOK([j EXCEPT !.left = @ - 1])
    BY <2>1 DEF CarriesOK
  <2> QED BY <1>1, <1>2, <2>1, <2>2, IdleCarries, FittingStep
<1>5. CASE SetTask(w)
  <2>1. PatchOK([status |-> "IN_PROGRESS"])
    BY DEF PatchOK, CASE_STATUS
  <2>2. Continue(w, Write(j.on, [status |-> "IN_PROGRESS"], FALSE)) \/ Continue(w, NoJob)
    BY <1>3, <1>5 DEF SetTask, Done
  <2> QED BY <1>1, <1>2, <2>1, <2>2, WriteCarries, IdleCarries, FittingStep
<1> QED BY <1>4, <1>5

LEMMA CheckTasksTypes == ASSUME CaseTypesInv, NEW w \in Workers, CheckTasks(w) PROVE CaseTypesInv'
<1>1. PICK j : j = job[w]
  OBVIOUS
<1>2. Continue(w, Write(j.on, [status |-> "CLOSED", closed |-> TRUE], j.force)) \/ Continue(w, NoJob)
  BY <1>1 DEF CheckTasks
<1>3. PatchOK([status |-> "CLOSED", closed |-> TRUE])
  BY DEF PatchOK, CASE_STATUS
<1>4. CasesTypeOK' /\ CasesInv'
  BY CheckTasksStep, QuietTypes DEF CaseTypesInv, CheckTasks
<1> QED BY <1>2, <1>3, <1>4, WriteCarries, IdleCarries, FittingStep

LEMMA WriteCaseTypes == ASSUME CaseTypesInv, NEW w \in Workers, WriteCase(w) PROVE CaseTypesInv'
<1>1. PICK j : j = job[w] /\ j.pc = "write" /\ CarriesOK(j) /\ j.on \in CaseIds
  BY AtWork DEF WriteCase, At, CaseTypesInv, CasesInv
<1>2. PICK r, p : r = cases[j.on] /\ p = j.patch
  OBVIOUS
<1>3. PICK s : s = Patched(r, p)
  OBVIOUS
<1>4. cases' = [cases EXCEPT ![j.on] = s] /\ Continue(w, NoJob) /\ UNCHANGED <<tasks, links, iocs>>
  BY <1>1, <1>2, <1>3 DEF WriteCase, Done
<1>5. forced' \subseteq CaseIds
  <2>1. forced' \in {forced \cup {j.on}, forced \ {j.on}, forced}
    BY <1>1 DEF WriteCase
  <2> QED BY <1>1, <2>1 DEF CaseTypesInv, CasesTypeOK
<1>6. r \in CaseRow /\ PatchOK(p)
  BY <1>1, <1>2 DEF CaseTypesInv, CasesTypeOK, CarriesOK
<1>7. s \in CaseRow
  BY <1>3, <1>6 DEF CaseRow, PatchOK, Patched
<1>8. CasesTypeOK'
  BY <1>1, <1>4, <1>5, <1>7 DEF CaseTypesInv, CasesTypeOK
<1> QED BY <1>4, <1>8, IdleCarries, WriteCaseStep, FittingStep DEF CaseTypesInv

LEMMA CaseTypesStep == ASSUME CaseTypesInv, [CasesNext]_caseVars PROVE CaseTypesInv'
<1>1. CASE UNCHANGED caseVars
  <2>1. CasesInv'
    BY <1>1, CasesStep DEF CaseTypesInv
  <2> QED BY <1>1, <2>1, QuietTypes DEF caseVars, requestVars, CaseTypesInv
<1>2. CASE CasesNext
  BY <1>2, OpenCaseTypes, StartCaseTypes, LinkTypes, DeriveTypes, WriteMitreTypes, EndTypes, AddIocTypes,
     TaskTypes, CheckTasksTypes, WriteCaseTypes DEF CasesNext
<1> QED BY <1>1, <1>2

LEMMA CaseTypesStart == RequestsInit /\ CasesInit => CaseTypesInv
<1> SUFFICES ASSUME RequestsInit, CasesInit PROVE CaseTypesInv
  OBVIOUS
<1>1. NoCase \in CaseRow
  BY CasesAssumption DEF NoCase, CaseRow
<1>2. CasesTypeOK
  BY <1>1 DEF CasesInit, CasesTypeOK, NoTask, TASK_STATUS
<1> QED BY <1>2, CasesStart, IdleCarries DEF RequestsInit, CaseTypesInv

\* Cases, tasks, links and indicators keep their types, whatever the requests at work on a case have read.
THEOREM CasesStayTyped == CasesSpec => []CasesTypeOK
<1>1. CaseTypesInv => CasesTypeOK
  BY DEF CaseTypesInv
<1> QED BY <1>1, CaseTypesStart, CaseTypesStep, PTL DEF CasesSpec

-----------------------------------------------------------------------------
(* The services side by side. *)

\* The service a behaviour is about keeps its invariant, and the others keep what they store.
DeskTypesInv ==
  /\ IF service = "cases" THEN CaseTypesInv ELSE CasesTypeOK
  /\ IF service = "hunts" THEN HuntsInv ELSE HuntsTypeOK
  /\ IF service = "channels" THEN ChannelsInv ELSE ChannelsTypeOK

LEMMA DeskStart == Init => DeskTypesInv
<1> SUFFICES ASSUME Init PROVE DeskTypesInv
  OBVIOUS
<1>1. CaseTypesInv /\ HuntsInv /\ ChannelsInv
  BY CaseTypesStart, HuntsStart, ChannelsStart DEF Init
<1> QED BY <1>1 DEF DeskTypesInv, CaseTypesInv, HuntsInv, ChannelsInv

LEMMA DeskStep == ASSUME DeskTypesInv, [Next]_deskVars PROVE DeskTypesInv'
<1>1. UNCHANGED service
  BY DEF Next, deskVars
<1>2. /\ service = "cases" => [CasesNext]_caseVars
      /\ service = "hunts" => [HuntsNext]_huntVars
      /\ service = "channels" => [ChannelsNext]_channelVars
  BY DEF Next, deskVars, casesOnly, huntsOnly, channelsOnly, caseVars, huntVars, channelVars, requestVars
<1>3. /\ service # "cases" => UNCHANGED casesOnly
      /\ service # "hunts" => UNCHANGED huntsOnly
      /\ service # "channels" => UNCHANGED channelsOnly
  BY DEF Next, deskVars, Still
<1>4. IF service = "cases" THEN CaseTypesInv' ELSE CasesTypeOK'
  <2>1. CASE service = "cases"
    BY <1>2, <2>1, CaseTypesStep DEF DeskTypesInv
  <2>2. CASE service # "cases"
    BY <1>3, <2>2, QuietTypes DEF DeskTypesInv, casesOnly
  <2> QED BY <2>1, <2>2
<1>5. IF service = "hunts" THEN HuntsInv' ELSE HuntsTypeOK'
  <2>1. CASE service = "hunts"
    BY <1>2, <2>1, HuntsStep DEF DeskTypesInv
  <2>2. CASE service # "hunts"
    BY <1>3, <2>2 DEF DeskTypesInv, huntsOnly, HuntsTypeOK
  <2> QED BY <2>1, <2>2
<1>6. IF service = "channels" THEN ChannelsInv' ELSE ChannelsTypeOK'
  <2>1. CASE service = "channels"
    BY <1>2, <2>1, ChannelsStep DEF DeskTypesInv
  <2>2. CASE service # "channels"
    BY <1>3, <2>2 DEF DeskTypesInv, channelsOnly, ChannelsTypeOK, ListOK
  <2> QED BY <2>1, <2>2
<1> QED BY <1>1, <1>4, <1>5, <1>6 DEF DeskTypesInv

\* What analysts' services store keeps its types, in every instance in which one of them is at work: the
\* cases (cases.js), the hunts and their runs, and the channels with their limit (casework.js).
THEOREM DeskStaysTyped == Spec => []DeskTypeOK
<1>1. DeskTypesInv => DeskTypeOK
  BY DEF DeskTypesInv, DeskTypeOK, CaseTypesInv, HuntsInv, ChannelsInv
<1> QED BY <1>1, DeskStart, DeskStep, PTL DEF Spec
=============================================================================
