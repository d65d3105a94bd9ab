------------------------------ MODULE Workflows ------------------------------
(***************************************************************************)
(* Workflows and their runs: saveWorkflow, setEnabled, deleteWorkflow,      *)
(* startRun and runWorkflow of src/src/workbench.js.  A run takes the steps *)
(* it was started with one by one, each a call of another service; it is    *)
(* stored when it starts and when it ends, and last it counts itself on the *)
(* workflow.                                                                *)
(***************************************************************************)
EXTENDS Requests

CONSTANTS
  WorkflowIds,  \* ids of workflows (a bound)
  Plans,        \* step lists a workflow can have
  MaxExecs      \* bound on the runs ever started

\* validateWorkflow: a condition, if a step has one, tests what an earlier step returned.
Steps(n) == [needs : {None} \cup 1 .. n - 1, op : {"nonempty", "empty"}, continue_on_error : BOOLEAN]

ASSUME WorkflowsAssumption ==
  /\ MaxExecs \in Nat
  /\ \A p \in Plans : DOMAIN p = 1 .. Len(p) /\ Len(p) \in 1 .. 20 /\ \A n \in DOMAIN p : p[n] \in Steps(n)

VARIABLES
  workflows,  \* store.workflows: [state, enabled, steps, runs]
  execs       \* store.workflow_runs, oldest first: [workflow, status, plan, steps]

workflowVars == <<workflows, execs, requestVars>>

Stored(id) == workflows[id].state = "saved"

SaveWorkflow(w) ==
  /\ Idle(w)
  /\ \E id \in WorkflowIds, plan \in Plans :
       /\ workflows[id].state # "deleted"
       /\ workflows' = [workflows EXCEPT ![id].state = "saved", ![id].steps = plan,
                                         ![id].enabled = IF Stored(id) THEN @ ELSE TRUE]
  /\ UNCHANGED <<execs, requestVars>>

SetEnabled(w) ==
  /\ Idle(w)
  /\ \E id \in WorkflowIds, on \in BOOLEAN :
       Stored(id) /\ workflows' = [workflows EXCEPT ![id].enabled = on]
  /\ UNCHANGED <<execs, requestVars>>

DeleteWorkflow(w) ==
  /\ Idle(w)
  /\ \E id \in WorkflowIds : Stored(id) /\ workflows' = [workflows EXCEPT ![id].state = "deleted"]
  /\ UNCHANGED <<execs, requestVars>>

\* startRun: the run is stored as RUNNING, with every step pending.
StartWorkflow(w) ==
  /\ Idle(w) /\ Len(execs) < MaxExecs
  /\ \E id \in WorkflowIds :
       LET plan == workflows[id].steps
           steps == [n \in DOMAIN plan |-> "pending"] IN
       /\ Stored(id) /\ workflows[id].enabled
       /\ execs' = Append(execs, [workflow |-> id, status |-> "RUNNING", plan |-> plan, steps |-> steps])
       /\ Continue(w, Job("step", id, [run |-> Len(execs) + 1, plan |-> plan, steps |-> steps, next |-> 1]))
  /\ UNCHANGED workflows

\* What the condition of a step may come to: the output of a step that was skipped or failed is null, of
\* any other it depends on what the condition looks at.
Verdicts(step, steps) ==
  IF step.needs = None THEN {TRUE}
  ELSE IF steps[step.needs] = "ok" THEN BOOLEAN
  ELSE {step.op = "empty"}

Stopped(plan, steps) == \E n \in DOMAIN plan : steps[n] = "failed" /\ ~plan[n].continue_on_error

\* One step: cancelled once the run has failed, skipped by its condition, or run with whatever outcome
\* the service it calls has.
RunStep(w) ==
  LET j == job[w] IN
  /\ At(w, "step") /\ j.next \in DOMAIN j.plan
  /\ \E outcome \in {"ok", "skipped", "failed", "cancelled"} :
       /\ CASE Stopped(j.plan, j.steps) -> outcome = "cancelled"
            [] OTHER -> \E met \in Verdicts(j.plan[j.next], j.steps) :
                          outcome \in IF met THEN {"ok", "skipped", "failed"} ELSE {"skipped"}
       /\ Continue(w, [j EXCEPT !.steps[j.next] = outcome, !.next = @ + 1])
  /\ UNCHANGED <<workflows, execs>>

\* Seeded fault: only the last step's failure counts.
StatusOf_Last(plan, steps) ==
  LET n == Len(plan) IN
  IF steps[n] # "failed" THEN "SUCCEEDED" ELSE IF plan[n].continue_on_error THEN "PARTIAL" ELSE "FAILED"

StatusOf(plan, steps) ==
  IF Stopped(plan, steps) THEN "FAILED"
  ELSE IF \E n \in DOMAIN plan : steps[n] = "failed" THEN "PARTIAL"
  ELSE "SUCCEEDED"

\* The run is stored with its status ...
FinishRun(w) ==
  LET j == job[w] IN
  /\ At(w, "step") /\ j.next \notin DOMAIN j.plan
  /\ execs' = [execs EXCEPT ![j.run].status = StatusOf(j.plan, j.steps), ![j.run].steps = j.steps]
  /\ Continue(w, Patched(j, [pc |-> "read_workflow", count |-> 0]))
  /\ UNCHANGED workflows

\* ... the workflow is read, unless it is gone ...
ReadWorkflow(w) ==
  /\ At(w, "read_workflow")
  /\ IF Stored(job[w].on) THEN Continue(w, [job[w] EXCEPT !.pc = "count_exec", !.count = workflows[job[w].on].runs])
     ELSE Done(w)
  /\ UNCHANGED <<workflows, execs>>

\* ... and written with its counter raised by one.
CountExec(w) ==
  LET j == job[w] IN
  /\ At(w, "count_exec")
  /\ workflows' = [workflows EXCEPT ![j.on].runs = IF Stored(j.on) THEN j.count + 1 ELSE @]
  /\ Done(w)
  /\ UNCHANGED execs

WorkflowsInit ==
  /\ workflows = [id \in WorkflowIds |-> [state |-> "absent", enabled |-> FALSE, steps |-> <<>>, runs |-> 0]]
  /\ execs = <<>>

WorkflowsNext ==
  \E w \in Workers :
    \/ SaveWorkflow(w) \/ SetEnabled(w) \/ DeleteWorkflow(w) \/ StartWorkflow(w) \/ RunStep(w)
    \/ FinishRun(w) \/ ReadWorkflow(w) \/ CountExec(w)

WorkflowsSpec == RequestsInit /\ WorkflowsInit /\ [][WorkflowsNext]_workflowVars

-----------------------------------------------------------------------------
\* A run that has ended says how its steps ended (runWorkflow, lines 306-341), whatever was done to the
\* workflow meanwhile: it succeeded when no step failed, failed when a step failed that had to succeed,
\* and then every step after that one, and no other, was cancelled; and a step that needs the
\* output of another ran only when that one had returned.
RunIsTruthful ==
  \A i \in DOMAIN execs :
    LET r == execs[i]
        stops == {n \in DOMAIN r.plan : r.steps[n] = "failed" /\ ~r.plan[n].continue_on_error} IN
    r.status # "RUNNING" =>
      /\ r.status = "SUCCEEDED" <=> \A n \in DOMAIN r.plan : r.steps[n] \in {"ok", "skipped"}
      /\ r.status = "FAILED" <=> stops # {}
      /\ \A n \in DOMAIN r.plan : r.steps[n] = "cancelled" <=> \E s \in stops : s < n
      /\ \A n \in DOMAIN r.plan :
           LET step == r.plan[n] IN
           step.needs # None /\ step.op = "nonempty" /\ r.steps[n] \in {"ok", "failed"} => r.steps[step.needs] = "ok"
=============================================================================
