---------------------------- MODULE RuleHandlers -----------------------------
(***************************************************************************)
(* Containment rules: the two tools every path shares                       *)
(* (execute_firewall_action and verify_defense_state of                     *)
(* src/src/engine/tools.js), the console's rule endpoints and the expiry    *)
(* sweep of src/src/routes.js.                                              *)
(***************************************************************************)
EXTENDS ResponseState

\* Where a handler goes on after execute_firewall_action and verify_defense_state.
AfterExecute(op) ==
  CASE op = "run" -> "contain"
    [] op = "llm" -> "llm"
    [] op = "add" -> "idle"
    [] OTHER      -> "verify"

AfterVerify(op) ==
  CASE op = "decide"   -> "approve"
    [] op = "override" -> "ovr_write"
    [] op = "run"      -> "verified"
    [] op = "llm"      -> "llm"
    [] OTHER           -> "idle"

\* After a refused BLOCK of an internal address ({ error }).
AfterRefusal(op) ==
  CASE op = "decide"   -> "fail"
    [] op \in {"run", "llm", "override"} -> AfterExecute(op)
    [] OTHER           -> "idle"

\* Seeded fault: the existing rule is not handed back to the caller.
WithRule_Dropped(f, r, applied) ==
  [f EXCEPT !.pc = AfterExecute(f.op), !.rule = IF applied THEN r ELSE @]

\* The local state after the call returned rule r; ctx.actions notes it.
WithRule(f, r, applied) ==
  [f EXCEPT !.pc = AfterExecute(f.op), !.rule = r,
            !.mine = IF applied THEN @ \cup {r} ELSE @,
            !.first = IF @ = None THEN f.ip ELSE @]

\* execute_firewall_action is called by engine, approvals and override with the
\* investigation they act for; the playbook and the model link theirs in finish().
LinkOf(f) == IF f.op \in {"decide", "override"} THEN f.inv ELSE None

\* Seeded fault: the check for internal addresses is missing.
Refused_Never(f) == FALSE

\* Blocking an internal address is refused.
Refused(f) == f.action = "BLOCK" /\ f.ip \in Internal

ExecuteRefuse(p) ==
  LET f == frames[p] IN
  /\ At(p, "exec")
  /\ Refused(f)
  /\ Continue(p, [f EXCEPT !.pc = AfterRefusal(f.op)])
  /\ UNCHANGED <<rules, approvals, invs, alerts, faults, confirmed>>

\* Seeded faults: the address, or a rule still pending, is not considered.
Clashes_AnyAddress(action, ip) == {r \in Rules : Active(r) /\ rules[r].action = action}

Clashes_Enforced(action, ip) ==
  {r \in ActiveFor(ip) : rules[r].action = action /\ rules[r].enf.status = "ENFORCED"}

\* The active rules that already do the same.
Clashes(action, ip) == {r \in ActiveFor(ip) : rules[r].action = action}

\* rules.activeFor: an active rule of the same kind is returned, not doubled.
ExecuteLookup(p) ==
  LET f == frames[p] IN
  /\ At(p, "exec")
  /\ ~Refused(f)
  /\ \/ \E r \in Clashes(f.action, f.ip) : Continue(p, WithRule(f, r, FALSE))
     \/ /\ Clashes(f.action, f.ip) = {}
        /\ Continue(p, [f EXCEPT !.pc = "insert"])
  /\ UNCHANGED <<rules, approvals, invs, alerts, faults, confirmed>>

\* enforcer.apply(draft), then rules.insert; the answer depends on nothing stored,
\* so one step stands for both.
ExecuteInsert(p) ==
  LET f == frames[p] IN
  /\ At(p, "insert")
  /\ \E r \in Rules, e \in ApplyAnswers(f.action),
        ttl \in {"none"} \cup (IF TimeBoxed THEN {"running"} ELSE {}) :
       /\ rules[r].state = "absent"
       /\ rules' = [rules EXCEPT ![r] = [state |-> "active", action |-> f.action, ip |-> f.ip,
                                         enf |-> e, inv |-> LinkOf(f), ttl |-> ttl]]
       /\ Confirm(r, e)
       /\ Continue(p, WithRule(f, r, TRUE))
  /\ UNCHANGED <<approvals, invs, alerts, faults>>

\* verify_defense_state: list the active rules of the address ...
VerifyList(p) ==
  LET f == frames[p]
      R == ActiveFor(f.ip) IN
  /\ At(p, "verify")
  /\ Continue(p, [f EXCEPT !.pc = IF R = {} THEN AfterVerify(f.op) ELSE "check",
                           !.todo = R, !.snap = Snapshot(R), !.seen = {}])
  /\ UNCHANGED <<rules, approvals, invs, alerts, faults, confirmed>>

\* ... and read each back.  The answer is computed from the listed copy and stored
\* over whatever the rule has become since; an echoed answer is not stored.
VerifyCheck(p) ==
  LET f == frames[p] IN
  /\ At(p, "check")
  /\ \E r \in f.todo : \E e \in VerifyAnswers(f.snap[r].action, f.snap[r].enf) :
       /\ IF Echoes(f.snap[r].action, f.snap[r].enf)
          THEN UNCHANGED <<rules, confirmed>>
          ELSE /\ rules' = [rules EXCEPT ![r].enf = e]
               /\ Confirm(r, e)
       /\ Continue(p, [f EXCEPT !.pc = IF f.todo = {r} THEN AfterVerify(f.op) ELSE "check",
                                !.todo = @ \ {r}, !.snap[r] = NoRule,
                                !.seen = @ \cup {e.status}])
  /\ UNCHANGED <<approvals, invs, alerts, faults>>

\* checks.find(ENFORCED): the result's `contained`.
Contained(f) == "ENFORCED" \in f.seen

-----------------------------------------------------------------------------
\* POST /api/rules, and the direct path of cases.contain, which the approval policy
\* may forbid and which also reads back.
StartAdd(p) ==
  /\ Idle(p) /\ p \in Console
  /\ \E op \in {"add", "contain"} \cap ConsoleOps, action \in Actions, ip \in IPs :
       /\ op = "contain" => ApprovalMode # "manual"
       /\ ~(action = "BLOCK" /\ ip \in Internal)
       /\ Continue(p, [IdleFrame EXCEPT !.op = op, !.pc = "exec", !.action = action, !.ip = ip])
  /\ UNCHANGED <<rules, approvals, invs, alerts, faults, confirmed>>

\* POST /api/verify
StartProbe(p) ==
  /\ Idle(p) /\ p \in Console /\ "probe" \in ConsoleOps
  /\ \E ip \in IPs : Continue(p, [IdleFrame EXCEPT !.op = "probe", !.pc = "verify", !.ip = ip])
  /\ UNCHANGED <<rules, approvals, invs, alerts, faults, confirmed>>

\* POST /api/rules/:id/toggle reads the rule and decides which way to switch it.
StartToggle(p) ==
  /\ Idle(p) /\ p \in Console /\ "toggle" \in ConsoleOps
  /\ \E r \in Rules :
       /\ rules[r].state # "absent"
       /\ ~(rules[r].state = "disabled" /\ rules[r].action = "BLOCK" /\ rules[r].ip \in Internal)
       /\ Continue(p, [IdleFrame EXCEPT !.op = "toggle", !.rule = r, !.snap = Snapshot({r}),
                         !.pc = IF Active(r) THEN "disable" ELSE "clash"])
  /\ UNCHANGED <<rules, approvals, invs, alerts, faults, confirmed>>

ToggleClash(p) ==
  LET f == frames[p] IN
  /\ At(p, "clash")
  /\ Continue(p, [f EXCEPT !.pc = IF Clashes(f.snap[f.rule].action, f.snap[f.rule].ip) # {}
                                  THEN "idle" ELSE "enable"])
  /\ UNCHANGED <<rules, approvals, invs, alerts, faults, confirmed>>

\* A rule re-enabled after it ran out becomes permanent.
ToggleEnable(p) ==
  LET f == frames[p]
      r == f.rule IN
  /\ At(p, "enable")
  /\ \E e \in ApplyAnswers(f.snap[r].action) :
       /\ rules' = [rules EXCEPT ![r].state = "active", ![r].enf = e,
                                 ![r].ttl = IF @ = "lapsed" THEN "none" ELSE @]
       /\ Confirm(r, e)
  /\ Continue(p, [f EXCEPT !.pc = "idle"])
  /\ UNCHANGED <<approvals, invs, alerts, faults>>

ToggleDisable(p) ==
  LET f == frames[p]
      r == f.rule IN
  /\ At(p, "disable")
  /\ \E e \in RemoveAnswers(f.snap[r].enf) :
       rules' = [rules EXCEPT ![r].state = "disabled", ![r].enf = e]
  /\ Continue(p, [f EXCEPT !.pc = "idle"])
  /\ UNCHANGED <<approvals, invs, alerts, faults, confirmed>>

\* POST /api/rules/:id/verify stores the answer even when it is an echo.
StartRecheck(p) ==
  /\ Idle(p) /\ p \in Console /\ "recheck" \in ConsoleOps
  /\ \E r \in Rules :
       /\ Active(r)
       /\ Continue(p, [IdleFrame EXCEPT !.op = "recheck", !.pc = "recheck", !.rule = r,
                                        !.snap = Snapshot({r})])
  /\ UNCHANGED <<rules, approvals, invs, alerts, faults, confirmed>>

RecheckWrite(p) ==
  LET f == frames[p]
      r == f.rule IN
  /\ At(p, "recheck")
  /\ \E e \in VerifyAnswers(f.snap[r].action, f.snap[r].enf) :
       /\ rules' = [rules EXCEPT ![r].enf = e]
       /\ Confirm(r, e)
  /\ Continue(p, [f EXCEPT !.pc = "idle"])
  /\ UNCHANGED <<approvals, invs, alerts, faults>>

-----------------------------------------------------------------------------
\* expires_at passes.
Lapse(r) ==
  /\ rules[r].ttl = "running"
  /\ rules' = [rules EXCEPT ![r].ttl = "lapsed"]
  /\ UNCHANGED <<approvals, invs, alerts, frames, faults, confirmed>>

Due == {r \in Rules : Active(r) /\ rules[r].ttl = "lapsed"}

\* The frame of a caller of expireRules, once rules.expiredActive has listed R.
Sweeping(f, R, next) ==
  [f EXCEPT !.pc = IF R = {} THEN next ELSE "sweep", !.todo = R, !.snap = Snapshot(R)]

AfterSweep(op) == IF op = "pull" THEN "pull_list" ELSE "idle"

\* The hourly job's expireRules; a pull of a feed starts with the same sweep.
StartSweep(p) ==
  /\ Idle(p) /\ p \in Timer
  /\ Due # {}
  /\ Continue(p, Sweeping([IdleFrame EXCEPT !.op = "sweep"], Due, "idle"))
  /\ UNCHANGED <<rules, approvals, invs, alerts, faults, confirmed>>

\* One rule of the list is removed at the backend and switched off.
SweepRule(p) ==
  LET f == frames[p] IN
  /\ At(p, "sweep")
  /\ \E r \in f.todo : \E e \in RemoveAnswers(f.snap[r].enf) :
       /\ rules' = [rules EXCEPT ![r].state = "disabled", ![r].enf = e]
       /\ Continue(p, [f EXCEPT !.pc = IF f.todo = {r} THEN AfterSweep(f.op) ELSE "sweep",
                                !.todo = @ \ {r}, !.snap[r] = NoRule])
  /\ UNCHANGED <<approvals, invs, alerts, faults, confirmed>>

RuleStep(p) ==
  \/ ExecuteRefuse(p) \/ ExecuteLookup(p) \/ ExecuteInsert(p)
  \/ VerifyList(p) \/ VerifyCheck(p)
  \/ ToggleClash(p) \/ ToggleEnable(p) \/ ToggleDisable(p)
  \/ RecheckWrite(p) \/ SweepRule(p)

RuleStart(p) ==
  StartAdd(p) \/ StartProbe(p) \/ StartToggle(p) \/ StartRecheck(p) \/ StartSweep(p)

=============================================================================
