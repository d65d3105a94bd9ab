-------------------------------- MODULE Cases --------------------------------
(***************************************************************************)
(* Incident cases: the service functions of src/src/cases.js that change a  *)
(* case, its tasks, its linked alerts and its indicators.  Every function   *)
(* first awaits the case and refuses a closed one (writable), then awaits   *)
(* its other reads and its writes one by one; whatever it read is by then   *)
(* what the case was, not what it is.  A job is a request being served: its *)
(* pc names the call it makes next, its patch what it will write.           *)
(***************************************************************************)
EXTENDS Requests

CONSTANTS
  CaseIds,      \* ids of cases (a bound)
  Tasks,        \* ids of tasks (a bound)
  Alerts,       \* alerts that can be linked
  TechniqueOf,  \* [Alerts -> ATT&CK ids], what deriveMitre finds for an alert
  Values,       \* indicators
  Playbook,     \* tasks playbookTasks seeds (a bound; the code seeds at least 5)
  Severest      \* rank of the highest severity

ASSUME CasesAssumption ==
  /\ None \notin CaseIds
  /\ Severest \in Nat \ {0}
  /\ Playbook \in Nat

VARIABLES
  cases,    \* store.cases
  tasks,    \* store.caseTasks
  links,    \* store.caseAlerts
  iocs,     \* store.caseIocs
  forced    \* history: cases last closed with b.force

caseVars == <<cases, tasks, links, iocs, forced, requestVars>>

CASE_STATUS == {"OPEN", "IN_PROGRESS", "CONTAINED", "CLOSED"}
TASK_STATUS == {"TODO", "DOING", "DONE", "SKIPPED"}

Techniques == {TechniqueOf[a] : a \in Alerts}

Exists(c) == cases[c].status # "absent"
Writable(c) == Exists(c) /\ cases[c].status # "CLOSED"
NoCase == [status |-> "absent", closed |-> FALSE, escalated |-> FALSE, severity |-> 1, mitre |-> {}]
NoTask == [case |-> None, status |-> "TODO"]

Linked(c) == {a \in Alerts : <<c, a>> \in links}
TasksOf(c) == {t \in Tasks : tasks[t].case = c}
OpenTasks(c) == {t \in TasksOf(c) : tasks[t].status \in {"TODO", "DOING"}}

Write(c, patch, force) == Job("write", c, [patch |-> patch, force |-> force])

-----------------------------------------------------------------------------
\* createCase, by an analyst, who may name techniques, or from a kill chain, which names those of its
\* alerts and also seeds the attacker's address and a checklist.
OpenCase(w) ==
  /\ Idle(w)
  /\ \E c \in CaseIds, s \in 1 .. Severest, ids \in SUBSET Alerts, killchain \in BOOLEAN, mitre \in SUBSET Techniques :
       /\ ~Exists(c)
       /\ killchain => ids # {} /\ mitre = {TechniqueOf[a] : a \in ids}
       /\ cases' = [cases EXCEPT ![c] = [NoCase EXCEPT !.status = "OPEN", !.severity = s, !.mitre = mitre]]
       /\ Continue(w, IF ids = {} THEN NoJob ELSE Job("link", c, [ids |-> ids, killchain |-> killchain]))
  /\ UNCHANGED <<tasks, links, iocs, forced>>

\* Seeded fault: unlinkAlert without the check of writable.
Unlink_ClosedToo(w) ==
  /\ Idle(w)
  /\ \E c \in CaseIds, a \in Alerts : Exists(c) /\ Continue(w, Job("unlink", c, [alert |-> a]))
  /\ UNCHANGED <<cases, tasks, links, iocs, forced>>

StartUnlink(w) ==
  /\ Idle(w)
  /\ \E c \in CaseIds, a \in Alerts : Writable(c) /\ Continue(w, Job("unlink", c, [alert |-> a]))
  /\ UNCHANGED <<cases, tasks, links, iocs, forced>>

\* linkAlerts, addTask, updateTask, addIocs and removeIoc read the case ...
StartContent(w) ==
  /\ Idle(w)
  /\ \E c \in CaseIds :
       /\ Writable(c)
       /\ \/ \E ids \in (SUBSET Alerts) \ {{}} : Continue(w, Job("link", c, [ids |-> ids, killchain |-> FALSE]))
          \/ Continue(w, Job("add_task", c, [left |-> 1]))
          \/ Continue(w, Job("set_task", c, [open |-> cases[c].status = "OPEN"]))
          \/ \E vs \in (SUBSET Values) \ {{}} : Continue(w, Job("add_ioc", c, [left |-> 0, values |-> vs]))
          \/ \E v \in iocs[c] : Continue(w, Job("remove_ioc", c, [value |-> v]))
  /\ UNCHANGED <<cases, tasks, links, iocs, forced>>

\* closeCase reads the case ...
StartClose(w) ==
  /\ Idle(w)
  /\ \E c \in CaseIds, force \in BOOLEAN : Writable(c) /\ Continue(w, Job("close", c, [force |-> force]))
  /\ UNCHANGED <<cases, tasks, links, iocs, forced>>

StartReopen(w) ==
  /\ Idle(w)
  /\ \E c \in CaseIds :
       /\ cases[c].status = "CLOSED"
       /\ Continue(w, Write(c, [status |-> "IN_PROGRESS", closed |-> FALSE], FALSE))
  /\ UNCHANGED <<cases, tasks, links, iocs, forced>>

StartEscalate(w) ==
  /\ Idle(w)
  /\ \E c \in CaseIds :
       /\ Writable(c) /\ ~cases[c].escalated
       /\ Continue(w, Write(c, [escalated |-> TRUE,
                        severity |-> IF cases[c].severity = Severest THEN Severest ELSE cases[c].severity + 1,
                        status |-> IF cases[c].status = "OPEN" THEN "IN_PROGRESS" ELSE cases[c].status], FALSE))
  /\ UNCHANGED <<cases, tasks, links, iocs, forced>>

\* updateCase may set any other status than CLOSED, and clears closed_at when it leaves CLOSED.
PatchStatus(c) ==
  {IF cases[c].status = "CLOSED" THEN [status |-> s, closed |-> FALSE] ELSE [status |-> s] :
     s \in CASE_STATUS \ {"CLOSED", cases[c].status}}

\* It reads the case with mustCase, so the severity and the techniques of a closed case change as well.
\* One field at a time stands for a patch of several.
StartUpdate(w) ==
  /\ Idle(w)
  /\ \E c \in CaseIds :
       /\ Exists(c)
       /\ \/ \E p \in PatchStatus(c) : Continue(w, Write(c, p, FALSE))
          \/ \E s \in 1 .. Severest \ {cases[c].severity} : Continue(w, Write(c, [severity |-> s], FALSE))
          \/ \E mitre \in SUBSET Techniques : Continue(w, Write(c, [mitre |-> mitre], FALSE))
  /\ UNCHANGED <<cases, tasks, links, iocs, forced>>

-----------------------------------------------------------------------------
AfterAttach(j) ==
  IF j.killchain THEN Job("add_ioc", j.on, [left |-> Playbook, values |-> Values]) ELSE NoJob

\* attach stores the links not there yet ...
Link(w) ==
  LET j == job[w]
      added == j.ids \ Linked(j.on) IN
  /\ At(w, "link")
  /\ links' = links \cup {<<j.on, a>> : a \in added}
  /\ Continue(w, IF added = {} THEN AfterAttach(j) ELSE [j EXCEPT !.pc = "derive", !.ids = added])
  /\ UNCHANGED <<cases, tasks, iocs, forced>>

\* ... reads the case's techniques and derives those of the alerts ...
Derive(w) ==
  LET j == job[w]
      mitre == cases[j.on].mitre \cup {TechniqueOf[a] : a \in j.ids} IN
  /\ At(w, "derive")
  /\ Continue(w, IF mitre = cases[j.on].mitre THEN AfterAttach(j)
                 ELSE Patched(j, [pc |-> "mitre", mitre |-> mitre]))
  /\ UNCHANGED <<cases, tasks, links, iocs, forced>>

\* ... and writes the union of what it read.
WriteMitre(w) ==
  LET j == job[w] IN
  /\ At(w, "mitre")
  /\ cases' = [cases EXCEPT ![j.on].mitre = j.mitre]
  /\ Continue(w, AfterAttach(j))
  /\ UNCHANGED <<tasks, links, iocs, forced>>

Unlink(w) ==
  /\ At(w, "unlink")
  /\ links' = links \ {<<job[w].on, job[w].alert>>}
  /\ Done(w)
  /\ UNCHANGED <<cases, tasks, iocs, forced>>

\* One indicator at a time; a value the case already holds is skipped.
AddIoc(w) ==
  LET j == job[w] IN
  /\ At(w, "add_ioc")
  /\ \E v \in j.values :
       /\ iocs' = [iocs EXCEPT ![j.on] = @ \cup {v}]
       /\ Continue(w, CASE j.values # {v} -> [j EXCEPT !.values = @ \ {v}]
                        [] j.left > 0 -> Job("add_task", j.on, [left |-> j.left])
                        [] OTHER -> NoJob)
  /\ UNCHANGED <<cases, tasks, links, forced>>

RemoveIoc(w) ==
  /\ At(w, "remove_ioc")
  /\ iocs' = [iocs EXCEPT ![job[w].on] = @ \ {job[w].value}]
  /\ Done(w)
  /\ UNCHANGED <<cases, tasks, links, forced>>

AddTask(w) ==
  LET j == job[w] IN
  /\ At(w, "add_task")
  /\ \E t \in Tasks :
       /\ tasks[t].case = None
       /\ tasks' = [tasks EXCEPT ![t].case = j.on]
  /\ Continue(w, IF j.left = 1 THEN NoJob ELSE [j EXCEPT !.left = @ - 1])
  /\ UNCHANGED <<cases, links, iocs, forced>>

\* updateTask: the first task picked up moves the case out of OPEN, if it was OPEN when it was read.
SetTask(w) ==
  LET j == job[w] IN
  /\ At(w, "set_task")
  /\ \/ \E t \in TasksOf(j.on), s \in TASK_STATUS :
          /\ tasks' = [tasks EXCEPT ![t].status = s]
          /\ Continue(w, IF j.open /\ s \in {"DOING", "DONE"}
                         THEN Write(j.on, [status |-> "IN_PROGRESS"], FALSE) ELSE NoJob)
     \/ TasksOf(j.on) = {} /\ Done(w) /\ UNCHANGED tasks
  /\ UNCHANGED <<cases, links, iocs, forced>>

\* Seeded fault: only tasks nobody has started keep the case from closing.
CheckTasks_TodoOnly(w) ==
  LET j == job[w] IN
  /\ At(w, "close")
  /\ Continue(w, IF (\E t \in TasksOf(j.on) : tasks[t].status = "TODO") /\ ~j.force THEN NoJob
                 ELSE Write(j.on, [status |-> "CLOSED", closed |-> TRUE], j.force))
  /\ UNCHANGED <<cases, tasks, links, iocs, forced>>

\* ... and then the case's tasks: an open one refuses the request unless it is forced.
CheckTasks(w) ==
  LET j == job[w] IN
  /\ At(w, "close")
  /\ Continue(w, IF OpenTasks(j.on) # {} /\ ~j.force THEN NoJob
                 ELSE Write(j.on, [status |-> "CLOSED", closed |-> TRUE], j.force))
  /\ UNCHANGED <<cases, tasks, links, iocs, forced>>

\* store.cases.update replaces the fields of the patch, whatever the others have become.
WriteCase(w) ==
  LET j == job[w] IN
  /\ At(w, "write")
  /\ cases' = [cases EXCEPT ![j.on] = Patched(@, j.patch)]
  /\ forced' = CASE j.force -> forced \cup {j.on}
                 [] ~j.force /\ "closed" \in DOMAIN j.patch -> forced \ {j.on}
                 [] OTHER -> forced
  /\ Done(w)
  /\ UNCHANGED <<tasks, links, iocs>>

CasesInit ==
  /\ cases = [c \in CaseIds |-> NoCase]
  /\ tasks = [t \in Tasks |-> NoTask]
  /\ links = {} /\ iocs = [c \in CaseIds |-> {}]
  /\ forced = {}

CasesNext ==
  \E w \in Workers :
    \/ OpenCase(w) \/ StartContent(w) \/ StartUnlink(w) \/ StartClose(w) \/ StartReopen(w)
    \/ StartEscalate(w) \/ StartUpdate(w)
    \/ Link(w) \/ Derive(w) \/ WriteMitre(w) \/ Unlink(w) \/ AddIoc(w) \/ RemoveIoc(w)
    \/ AddTask(w) \/ SetTask(w) \/ CheckTasks(w) \/ WriteCase(w)

CasesSpec == RequestsInit /\ CasesInit /\ [][CasesNext]_caseVars

-----------------------------------------------------------------------------
CaseRow == [status : CASE_STATUS \cup {"absent"}, closed : BOOLEAN, escalated : BOOLEAN,
            severity : 1 .. Severest, mitre : SUBSET Techniques]

CasesTypeOK ==
  /\ cases \in [CaseIds -> CaseRow]
  /\ tasks \in [Tasks -> [case : CaseIds \cup {None}, status : TASK_STATUS]]
  /\ links \subseteq CaseIds \X Alerts
  /\ iocs \in [CaseIds -> SUBSET Values]
  /\ forced \subseteq CaseIds

\* However the requests interleave, a closed case has its closing time, from which caseMetrics
\* computes the time to resolve (cases.js lines 376-377).
ClosedHasTime == \A c \in CaseIds : cases[c].status = "CLOSED" => cases[c].closed

\* "finish or skip them first" (closeCase, line 189): a closed case has no open task, unless it was
\* closed by force or two requests were at work on it; and it has its closing time in any case.
ClosedIsSettled ==
  /\ ClosedHasTime
  /\ \A c \in CaseIds : cases[c].status = "CLOSED" /\ c \notin forced \cup crowded => OpenTasks(c) = {}

Content(c) == <<Linked(c), iocs[c], [t \in TasksOf(c) |-> tasks[t].status]>>

\* "The case is closed; reopen it first" (writable, line 57): a closed case keeps its alerts, indicators and
\* tasks, unless two requests were at work on it.  Not so its techniques, which updateCase may replace.
ClosedIsFrozen ==
  [][\A c \in CaseIds \ crowded' : cases[c].status = "CLOSED" => Content(c)' = Content(c)]_caseVars
=============================================================================
