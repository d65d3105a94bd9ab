------------------------ MODULE InvestigationHandlers ------------------------
(***************************************************************************)
(* The investigation engine of src/src/engine/investigator.js: a run over   *)
(* an alert, by the playbook or by a language model with the playbook as    *)
(* fallback.  Evidence gathering only reads, so it is folded into the       *)
(* choice of the outcome; containment, read-back and bookkeeping are steps. *)
(***************************************************************************)
EXTENDS ApprovalHandlers

\* Seeded fault: an outcome missing from the table is used as the status.
OUTCOME_STATUS_Gap == [o \in Outcomes |->
  CASE o = "ATTACK_SUCCEEDED" -> "CONFIRMED"
    [] o = "ATTACK_FAILED"    -> "MITIGATED"
    [] OTHER                  -> o]

OUTCOME_STATUS == [o \in Outcomes |->
  CASE o = "ATTACK_SUCCEEDED" -> "CONFIRMED"
    [] o = "ATTACK_FAILED"    -> "MITIGATED"
    [] o = "FALSE_POSITIVE"   -> "FALSE_POSITIVE"
    [] o = "RECON_ONLY"       -> "CLOSED"]

RunOps == {"run", "llm"}

\* investigator.running holds the alert.
Running(al) == \E p \in Procs : frames[p].op \in RunOps /\ frames[p].alert = al

\* run(): refused while the alert is being investigated by this process.
StartRun(p) ==
  /\ Idle(p) /\ p \in Engine
  /\ \E al \in Alerts, i \in Invs :
       /\ ~Running(al)
       /\ invs[i].alert = None
       /\ invs' = [invs EXCEPT ![i].alert = al]
       /\ Continue(p, [IdleFrame EXCEPT !.op = "run", !.pc = "mark", !.alert = al, !.inv = i])
  /\ UNCHANGED <<rules, approvals, alerts, faults, confirmed>>

MarkInvestigating(p) ==
  LET f == frames[p] IN
  /\ At(p, "mark")
  /\ alerts' = [alerts EXCEPT ![f.alert] = "INVESTIGATING"]
  /\ \/ Llm /\ Continue(p, [f EXCEPT !.op = "llm", !.pc = "llm"])
     \/ Continue(p, [f EXCEPT !.pc = "decide"])
  /\ UNCHANGED <<rules, approvals, invs, faults, confirmed>>

-----------------------------------------------------------------------------
\* Seeded fault: the confidence bands also apply in manual mode.
Executes_Bands(scored) ==
  CASE ApprovalMode = "auto" -> {TRUE}
    [] ApprovalMode # "auto" -> IF scored THEN BOOLEAN ELSE {FALSE}

\* routeFor(): the answers it may give to a verdict of some confidence.
Executes(scored) ==
  CASE ApprovalMode = "auto"       -> {TRUE}
    [] ApprovalMode = "manual"     -> {FALSE}
    [] ApprovalMode = "confidence" -> IF scored THEN BOOLEAN ELSE {FALSE}

\* The playbook's containment: shouldBlock and shouldIsolate.
Plans(outcome, al) ==
  LET block   == CASE ~AutoContain \/ Attacker[al] \in Internal -> {FALSE}
                   [] outcome = "ATTACK_SUCCEEDED" -> {TRUE}
                   [] outcome = "ATTACK_FAILED"    -> BOOLEAN
                   [] OTHER -> {FALSE}
      isolate == AutoContain /\ IsolateOnCompromise /\ outcome = "ATTACK_SUCCEEDED" IN
  {(IF b THEN {"BLOCK"} ELSE {}) \cup (IF isolate THEN {"ISOLATE"} ELSE {}) : b \in block}

\* The playbook decides; its verification starts from scratch after a fallback.
RunDecide(p) ==
  LET f == frames[p] IN
  /\ At(p, "decide")
  /\ \E o \in Outcomes, yes \in Executes(TRUE) : \E plan \in Plans(o, f.alert) :
       Continue(p, [f EXCEPT !.op = "run", !.pc = "contain", !.outcome = o, !.plan = plan,
                             !.yes = yes, !.seen = {}])
  /\ UNCHANGED <<rules, approvals, invs, alerts, faults, confirmed>>

NextInPlan(plan) == IF "BLOCK" \in plan THEN "BLOCK" ELSE "ISOLATE"

\* contain(): execute the next action of the plan, or queue it.
RunContain(p) ==
  LET f == frames[p]
      a == NextInPlan(f.plan) IN
  /\ At(p, "contain")
  /\ f.plan # {}
  /\ Continue(p, [f EXCEPT !.pc = IF f.yes THEN "exec" ELSE "request", !.plan = @ \ {a},
                           !.action = a,
                           !.ip = IF a = "BLOCK" THEN Attacker[f.alert] ELSE Host[f.alert]])
  /\ UNCHANGED <<rules, approvals, invs, alerts, faults, confirmed>>

\* The first executed action is read back; from here on yes grants the one retry.
RunVerify(p) ==
  LET f == frames[p] IN
  /\ At(p, "contain")
  /\ f.plan = {}
  /\ Continue(p, IF f.first = None THEN [f EXCEPT !.pc = "finish"]
                                   ELSE [f EXCEPT !.pc = "verify", !.ip = f.first, !.yes = TRUE])
  /\ UNCHANGED <<rules, approvals, invs, alerts, faults, confirmed>>

\* The statuses the read-back may sum up to: ENFORCED before PENDING before the first rule's.
Best(seen) ==
  CASE "ENFORCED" \in seen -> {"ENFORCED"}
    [] "ENFORCED" \notin seen /\ "PENDING" \in seen -> {"PENDING"}
    [] OTHER -> seen

MayRetry(f) == f.yes

RunVerified(p) ==
  LET f == frames[p] IN
  /\ At(p, "verified")
  /\ \/ /\ MayRetry(f) /\ "FAILED" \in Best(f.seen)
        /\ Continue(p, [f EXCEPT !.pc = "verify", !.yes = FALSE])
     \/ /\ ~MayRetry(f) \/ Best(f.seen) # {"FAILED"}
        /\ Continue(p, [f EXCEPT !.pc = "finish"])
  /\ UNCHANGED <<rules, approvals, invs, alerts, faults, confirmed>>

-----------------------------------------------------------------------------
\* runLlm(): each tool call that changes state, in whatever order the model asks.
LlmContain(p) ==
  LET f == frames[p] IN
  /\ At(p, "llm")
  /\ \E action \in Actions, ip \in IPs, yes \in Executes(FALSE) :
       Continue(p, [f EXCEPT !.pc = IF yes THEN "exec" ELSE "request",
                             !.action = action, !.ip = ip])
  /\ UNCHANGED <<rules, approvals, invs, alerts, faults, confirmed>>

LlmVerify(p) ==
  LET f == frames[p] IN
  /\ At(p, "llm")
  /\ \E ip \in IPs : Continue(p, [f EXCEPT !.pc = "verify", !.ip = ip])
  /\ UNCHANGED <<rules, approvals, invs, alerts, faults, confirmed>>

\* UNBLOCK lists the active rules of an address ...
LlmUnblock(p) ==
  LET f == frames[p] IN
  /\ At(p, "llm")
  /\ \E ip \in IPs :
       /\ ActiveFor(ip) # {}
       /\ Continue(p, [f EXCEPT !.pc = "unblock", !.todo = ActiveFor(ip),
                                !.snap = Snapshot(ActiveFor(ip))])
  /\ UNCHANGED <<rules, approvals, invs, alerts, faults, confirmed>>

\* ... and removes them one by one.
Unblock(p) ==
  LET f == frames[p] IN
  /\ At(p, "unblock")
  /\ \E r \in f.todo : \E e \in RemoveAnswers(f.snap[r].enf) :
       /\ rules' = [rules EXCEPT ![r].state = "disabled", ![r].enf = e]
       /\ Continue(p, [f EXCEPT !.pc = IF f.todo = {r} THEN "llm" ELSE "unblock",
                                !.todo = @ \ {r}, !.snap[r] = NoRule])
  /\ UNCHANGED <<approvals, invs, alerts, faults, confirmed>>

\* The model records a verdict (the last one counts).
LlmVerdict(p) ==
  LET f == frames[p] IN
  /\ At(p, "llm")
  /\ \E o \in Outcomes \ {f.outcome} : Continue(p, [f EXCEPT !.outcome = o])
  /\ UNCHANGED <<rules, approvals, invs, alerts, faults, confirmed>>

\* The model stops with a verdict ...
LlmEnd(p) ==
  LET f == frames[p] IN
  /\ At(p, "llm")
  /\ f.outcome # None
  /\ Continue(p, [f EXCEPT !.pc = "finish"])
  /\ UNCHANGED <<rules, approvals, invs, alerts, faults, confirmed>>

\* ... or without one, or it fails: the playbook takes over, ctx.actions kept.
LlmFallback(p) ==
  LET f == frames[p] IN
  /\ At(p, "llm")
  /\ Continue(p, [f EXCEPT !.pc = "decide"])
  /\ UNCHANGED <<rules, approvals, invs, alerts, faults, confirmed>>

-----------------------------------------------------------------------------
\* finish() stores the investigation with the actions that wait for approval ...
Finish(p) ==
  LET f == frames[p] IN
  /\ At(p, "finish")
  /\ invs' = [invs EXCEPT ![f.inv].outcome = f.outcome, ![f.inv].waiting = f.held]
  /\ Continue(p, [f EXCEPT !.pc = IF f.mine = {} THEN "close" ELSE "link", !.todo = f.mine])
  /\ UNCHANGED <<rules, approvals, alerts, faults, confirmed>>

\* The run is done with linking rule r.
Linked(f, r) ==
  [f EXCEPT !.pc = IF f.todo = {r} THEN "close" ELSE "link", !.todo = @ \ {r}]

\* ... links the rules it applied, one by one ...
FinishLink(p) ==
  LET f == frames[p] IN
  /\ At(p, "link")
  /\ \E r \in f.todo :
       /\ rules' = [rules EXCEPT ![r].inv = f.inv]
       /\ Continue(p, Linked(f, r))
  /\ UNCHANGED <<approvals, invs, alerts, faults, confirmed>>

RunContained(f) == f.outcome = "ATTACK_SUCCEEDED" /\ f.first # None /\ Contained(f)

\* ... and moves the alert to its status.
FinishClose(p) ==
  LET f == frames[p] IN
  /\ At(p, "close")
  /\ alerts' = [alerts EXCEPT ![f.alert] = IF RunContained(f) THEN "CONTAINED"
                                                             ELSE OUTCOME_STATUS[f.outcome]]
  /\ Continue(p, [f EXCEPT !.pc = "audit"])
  /\ UNCHANGED <<rules, approvals, invs, faults, confirmed>>

\* The audit line is written and the run returns.
FinishAudit(p) ==
  LET f == frames[p] IN
  /\ At(p, "audit")
  /\ Continue(p, [f EXCEPT !.pc = "idle"])
  /\ UNCHANGED <<rules, approvals, invs, alerts, faults, confirmed>>

-----------------------------------------------------------------------------
\* Seeded fault: the clean-up is missing.
Reopen_Forgotten(al) == UNCHANGED alerts

\* The clean-up of a run that failed.
Reopen(al) == alerts' = [alerts EXCEPT ![al] = "NEW"]

\* A store call of the run fails.  A failed request for approval or link of a
\* rule is skipped; a failed tool call of the model hands over to the playbook;
\* anything else puts the alert back to NEW, unless that write fails as well.
RunFail(p) ==
  LET f == frames[p] IN
  /\ Failing
  /\ f.op \in RunOps
  /\ \/ /\ f.pc \in {"request", "active", "propose"}
        /\ Continue(p, [f EXCEPT !.pc = AfterRequest(f.op)])
        /\ UNCHANGED <<alerts, faults>>
     \/ /\ f.pc = "link"
        /\ \E r \in f.todo : Continue(p, Linked(f, r))
        /\ UNCHANGED <<alerts, faults>>
     \/ /\ f.op = "llm" /\ f.pc \in {"exec", "insert", "verify", "check", "unblock"}
        /\ Continue(p, [f EXCEPT !.pc = "decide"])
        /\ UNCHANGED <<alerts, faults>>
     \/ /\ \/ f.op = "run" /\ f.pc \in {"exec", "insert", "verify", "check"}
           \/ f.pc \in {"mark", "decide", "finish", "close", "audit"}
        /\ Continue(p, [f EXCEPT !.pc = "idle"])
        /\ \/ Reopen(f.alert) /\ UNCHANGED faults
           \/ faults < MaxFaults /\ faults' = faults + 1 /\ UNCHANGED alerts
  /\ UNCHANGED <<rules, approvals, invs, confirmed>>

RunStep(p) ==
  \/ MarkInvestigating(p) \/ RunDecide(p) \/ RunContain(p) \/ RunVerify(p) \/ RunVerified(p)
  \/ Unblock(p)
  \/ Finish(p) \/ FinishLink(p) \/ FinishClose(p) \/ FinishAudit(p)

LlmStep(p) ==
  \/ LlmContain(p) \/ LlmVerify(p) \/ LlmUnblock(p) \/ LlmVerdict(p)
  \/ LlmEnd(p) \/ LlmFallback(p)

=============================================================================
