------------------------------ MODULE Response -------------------------------
(***************************************************************************)
(* The containment part of the console as a whole: the handlers of          *)
(* RuleHandlers, ApprovalHandlers, InvestigationHandlers, AnalystHandlers   *)
(* and FirewallFeed interleaved over the shared store, with the passing of  *)
(* time, failing store calls and restarts of the process.                   *)
(***************************************************************************)
EXTENDS FirewallFeed

\* A store call of a handler other than a run fails: the request ends with an
\* error, except where reflect() swallows it.
HandlerFail(p) ==
  LET f == frames[p] IN
  /\ Failing
  /\ ~Idle(p) /\ f.op \notin RunOps
  /\ Continue(p, [f EXCEPT !.pc = CASE f.pc = "rewrite" /\ f.yes -> "relink"
                                    [] f.pc = "relink" -> AfterReflect(f)
                                    [] OTHER -> "idle"])
  /\ UNCHANGED <<rules, approvals, invs, alerts, faults, confirmed>>

\* The process restarts: the store survives, every handler is gone.
Crash ==
  /\ faults < MaxFaults
  /\ \E p \in Procs : ~Idle(p)
  /\ faults' = faults + 1
  /\ frames' = [p \in Procs |-> IdleFrame]
  /\ UNCHANGED <<rules, approvals, invs, alerts, confirmed>>

Step(p) == RuleStep(p) \/ ApprovalStep(p) \/ RunStep(p) \/ AnalystStep(p) \/ FeedStep(p)

Start(p) ==
  \/ RuleStart(p) \/ ApprovalStart(p) \/ StartRun(p) \/ AnalystStart(p)
  \/ \E action \in Actions : StartPull(p, action)

Next ==
  \/ \E p \in Procs : Step(p) \/ LlmStep(p) \/ Start(p) \/ RunFail(p) \/ HandlerFail(p)
  \/ \E r \in Rules : Lapse(r)
  \/ \E a \in Approvals : Age(a)
  \/ Crash

Spec == Init /\ [][Next]_vars

\* The event loop runs every handler on, store and enforcer calls return (they
\* carry timeouts), and a firewall polls both feeds for ever.  Nobody is obliged to
\* start anything else.
Fairness ==
  \A p \in Procs :
    /\ WF_vars(Step(p))
    /\ \A action \in Actions : SF_vars(StartPull(p, action))

FairSpec == Spec /\ Fairness

-----------------------------------------------------------------------------
\* Safety.

\* An alert reads CONTAINED only after the enforcement backend reported a rule in
\* force on one of the two addresses of that alert (README.md: containment is
\* claimed only when the backend confirms it).  The model may verify any address,
\* so with a language model only some rule is known to have been confirmed.
ContainedWasConfirmed ==
  \A al \in Alerts : alerts[al] = "CONTAINED" =>
    \E r \in confirmed : Llm \/ rules[r].ip \in Parties(al)

\* An alert that reads INVESTIGATING has a run of this process working on it, so
\* long as the process did not restart and no clean-up failed.
InvestigatingIsRunning ==
  faults = 0 => \A al \in Alerts : alerts[al] = "INVESTIGATING" => Running(al)

\* No path (engine, model, analyst, approval, override) stores a BLOCK rule for an
\* internal address.
NoInternalBlock ==
  \A r \in Rules : rules[r].state # "absent" /\ rules[r].action = "BLOCK"
                     => rules[r].ip \notin Internal

\* An approved request names a stored rule that does what was approved.
ApprovedHasRule ==
  \A a \in Approvals : approvals[a].status = "APPROVED" =>
    LET r == approvals[a].rule IN
    /\ r # None
    /\ rules[r].state # "absent"
    /\ rules[r].action = approvals[a].action /\ rules[r].ip = approvals[a].ip

\* A rule linked to an investigation acts on an address of that investigation's
\* alert, so a rollback never takes down an unrelated rule.
LinkedRuleIsRelevant ==
  ~Llm => \A r \in Rules : rules[r].inv # None =>
    rules[r].ip \in Parties(invs[rules[r].inv].alert)

\* Under approvalMode "manual", where analysts only propose and decide, every rule in
\* the store does what some request asks for that was approved or is being approved.
\* Two analysts who decide the same request at once break it, as DecisionIsFinal.
RuleNeedsApproval ==
  \A r \in Rules : rules[r].state # "absent" =>
    \E a \in Approvals :
      /\ approvals[a].action = rules[r].action /\ approvals[a].ip = rules[r].ip
      /\ \/ approvals[a].status = "APPROVED"
         \/ \E p \in Procs : frames[p].op = "decide" /\ frames[p].apr = a /\ frames[p].yes

-----------------------------------------------------------------------------
\* What the handlers guarantee one after the other, and lose when they interleave.

\* At most one open request per action and address.
OneOpenRequest ==
  \A a, b \in Approvals :
    /\ approvals[a].status = "PENDING" /\ approvals[b].status = "PENDING"
    /\ approvals[a].action = approvals[b].action /\ approvals[a].ip = approvals[b].ip
    => a = b

\* At most one active rule per action and address.
OneActiveRule ==
  \A r, s \in Rules :
    Active(r) /\ Active(s) /\ rules[r].action = rules[s].action /\ rules[r].ip = rules[s].ip
      => r = s

\* A rule that is switched off does not read ENFORCED.
DisabledIsNotEnforced ==
  \A r \in Rules : rules[r].state = "disabled" => rules[r].enf.status # "ENFORCED"

\* What the console lists agrees with itself, whatever sequence of additions, toggles, read-backs and
\* expiries led there: no rule twice, and none in force that is switched off.
RulesAgree == OneActiveRule /\ DisabledIsNotEnforced

\* A request that was decided, or lapsed, keeps its decision.
DecisionIsFinal ==
  [][\A a \in Approvals : approvals[a].status \notin {"absent", "PENDING"}
       => approvals'[a].status = approvals[a].status]_vars

\* When an override to a benign verdict returns, no active rule of the investigation
\* is left: containment is reconciled with the new outcome.
OverrideReconciles ==
  [][\A p \in Procs :
       /\ At(p, "ovr_alert") /\ frames'[p].pc = "idle"
       /\ frames[p].outcome \in {"FALSE_POSITIVE", "RECON_ONLY"}
       => LinkedTo(frames[p].inv) = {}]_vars

-----------------------------------------------------------------------------
\* What the console shows of alerts, rules and requests is what Containment promises.
OneOf(S) == \A p, q \in S : p = q

Worked == {al \in Alerts : Running(al)}

RuleStates == [r \in Rules |-> rules[r].state]

RuleActs == [r \in Rules |-> [action |-> rules[r].action, ip |-> rules[r].ip]]

RequestStates == [a \in Approvals |-> approvals[a].status]

RequestActs == [a \in Approvals |-> [action |-> approvals[a].action, ip |-> approvals[a].ip]]

Promise == INSTANCE Containment WITH
  Requests <- Approvals, AnyProof <- Llm, OneWriter <- OneOf(Engine \cup Console),
  OneSettles <- OneOf(Console \cup Timer), Alone <- OneOf(Procs),
  status <- alerts, working <- Worked, losses <- faults,
  state <- RuleStates, does <- RuleActs, proven <- confirmed,
  asked <- RequestStates, wants <- RequestActs

\* Each step of a handler changes one alert, one rule or one request, or none, and only as
\* Containment lets it: a run takes an alert, says so, reaches a verdict and lets it go, or
\* puts it back; CONTAINED is written on proof alone; a rule is never stored for an internal
\* address and keeps what it does; a request is approved only with a rule that does it.
KeepsPromises == Promise!Spec

-----------------------------------------------------------------------------
\* Liveness, under FairSpec.

\* Whichever store calls fail and however often a read-back is retried, every handler returns and
\* every investigation ends with another status of its alert.
InvestigationEnds ==
  /\ \A p \in Procs : ~Idle(p) ~> Idle(p)
  /\ \A al \in Alerts : alerts[al] = "INVESTIGATING" ~> alerts[al] # "INVESTIGATING"

\* A confirmed compromise that an active rule of its investigation answers does
\* not stay CONFIRMED: the alert stays open until the firewall has the rules.
Answered(i) ==
  /\ invs[i].outcome = "ATTACK_SUCCEEDED"
  /\ alerts[invs[i].alert] = "CONFIRMED"
  /\ LinkedTo(i) # {}

ConfirmedIsContained == \A i \in Invs : Answered(i) ~> ~Answered(i)

-----------------------------------------------------------------------------
\* Statements of comments and of the documentation that the code does not keep: README.md, section 5,
\* says in which instance TLC finds each of them violated, and how.

\* An alert leaves INVESTIGATING only by a step of the run that investigates it.
EngineOwnsInvestigating ==
  [][\A al \in Alerts : alerts[al] = "INVESTIGATING" /\ alerts'[al] # "INVESTIGATING"
       => \E p \in Procs : /\ frames[p].op \in RunOps /\ frames[p].alert = al
                           /\ frames'[p] # frames[p]]_vars

\* CONTAINED stands for a confirmed rule on an address of the alert, whoever
\* investigated it.
ContainedOnItsOwnAddress ==
  \A al \in Alerts : alerts[al] = "CONTAINED" =>
    \E r \in confirmed : rules[r].ip \in Parties(al)

\* A confirmed compromise whose attacker a rule already in force blocks does not
\* stay CONFIRMED, whichever investigation the rule was made for.
BlockedAttackerIsContained ==
  \A al \in Alerts :
    LET blocked == /\ alerts[al] = "CONFIRMED"
                   /\ \E r \in ActiveFor(Attacker[al]) : rules[r].enf.status = "ENFORCED" IN
    blocked ~> ~blocked
=============================================================================
