---------------------------- MODULE HandlerProofs ----------------------------
(***************************************************************************)
(* The steps of RuleHandlers and FirewallFeed, and those of                 *)
(* ApprovalHandlers, InvestigationHandlers and AnalystHandlers, keep IInv.  *)
(***************************************************************************)
EXTENDS InvariantLemmas

\* Refusing an internal address keeps IInv.
LEMMA ExecuteRefuseStep == ASSUME IInv, NEW p \in Procs, ExecuteRefuse(p) PROVE IInv'
<1> DEFINE f == frames[p]
           g == [f EXCEPT !.pc = AfterRefusal(f.op)]
<1>0. f \in Frame /\ FrameOK(f)
  BY DEF IInv, TypeOK
<1>1. g \in Frame
  BY <1>0 DEF Frame, Ops, PCs, AfterRefusal, AfterExecute
<1>2. FrameOK(g)
  BY <1>0 DEF ExecuteRefuse, At, FrameOK, OpOK, HeldOK, RunOK, DecideOK, OverrideOK, PullOK,
     RunOps, AfterRefusal, AfterExecute, Frame, Ops
<1> QED BY <1>1, <1>2, LocalStep DEF ExecuteRefuse, IInv, TypeOK

\* Looking up an existing rule keeps IInv.
LEMMA ExecuteLookupStep == ASSUME IInv, NEW p \in Procs, ExecuteLookup(p) PROVE IInv'
<1>0. PICK f \in Frame :
        f = frames[p] /\ FrameOK(f) /\ f.pc = "exec" /\ ~Refused(f)
  BY DEF IInv, TypeOK, ExecuteLookup, At
<1>1. CASE \E r \in Clashes(f.action, f.ip) : Continue(p, WithRule(f, r, FALSE))
  <2>1. PICK r \in Clashes(f.action, f.ip) : Continue(p, WithRule(f, r, FALSE))
    BY <1>1
  <2>2. r \in Rules /\ Present(r) /\ rules[r].ip = f.ip /\ rules[r].action = f.action
    BY DEF Clashes, ActiveFor, Active, Present
  <2>3. WithRule(f, r, FALSE) \in Frame /\ FrameOK(WithRule(f, r, FALSE))
    BY <1>0, <2>2, WithRuleOK DEF IInv
  <2> QED BY <2>1, <2>3, LocalStep DEF ExecuteLookup, IInv, TypeOK
<1>2. CASE Continue(p, [f EXCEPT !.pc = "insert"])
  <2>1. [f EXCEPT !.pc = "insert"] \in Frame
    BY <1>0 DEF Frame, PCs
  <2>2. FrameOK([f EXCEPT !.pc = "insert"])
    BY <1>0 DEF FrameOK, OpOK, HeldOK, RunOK, DecideOK, OverrideOK, PullOK, RunOps, Frame, Refused
  <2> QED BY <1>2, <2>1, <2>2, LocalStep DEF ExecuteLookup, IInv, TypeOK
<1> QED BY <1>0, <1>1, <1>2 DEF ExecuteLookup

\* A new rule keeps IInv.
LEMMA ExecuteInsertStep == ASSUME IInv, NEW p \in Procs, ExecuteInsert(p) PROVE IInv'
<1>0. PICK f \in Frame :
        f = frames[p] /\ FrameOK(f) /\ f.pc = "insert" /\ ~Refused(f)
  BY DEF IInv, TypeOK, ExecuteInsert, At, FrameOK, HeldOK
<1>1. PICK r \in Rules, e \in ApplyAnswers(f.action), ttl \in {"none", "running"} :
       /\ rules[r].state = "absent"
       /\ rules' = [rules EXCEPT ![r] = [state |-> "active", action |-> f.action, ip |-> f.ip,
                                         enf |-> e, inv |-> LinkOf(f), ttl |-> ttl]]
       /\ Confirm(r, e)
       /\ Continue(p, WithRule(f, r, TRUE))
  BY <1>0 DEF ExecuteInsert
<1>2. e \in Answers
  BY <1>0, AnswersTyped DEF Frame, IInv, TypeOK, RuleRecord
<1>3. LinkOf(f) \in Invs \cup {None}
  BY <1>0 DEF LinkOf, Frame
<1>4. rules' \in [Rules -> RuleRecord]
  <2>1. [state |-> "active", action |-> f.action, ip |-> f.ip,
         enf |-> e, inv |-> LinkOf(f), ttl |-> ttl] \in RuleRecord
    BY <1>0, <1>2, <1>3 DEF RuleRecord, Frame
  <2> QED BY <1>1, <2>1 DEF IInv, TypeOK
<1>5. /\ rules'[r].state = "active" /\ rules'[r].ip = f.ip /\ rules'[r].action = f.action
      /\ rules'[r].enf = e /\ rules'[r].inv = LinkOf(f)
      /\ \A s \in Rules \ {r} : rules'[s] = rules[s]
  BY <1>1 DEF IInv, TypeOK
<1>6. Grows /\ confirmed' \in SUBSET Rules
  BY <1>1, <1>5 DEF Grows, Present, Confirm, IInv, TypeOK, ExecuteInsert
<1>7. LinkOf(f) # None => /\ invs[LinkOf(f)].alert \in Alerts
                          /\ ~Llm => f.ip \in Parties(invs[LinkOf(f)].alert)
  BY <1>0 DEF LinkOf, FrameOK, DecideOK, OverrideOK, Parties
<1>8. RulesOK'
  <2>1. UNCHANGED invs
    BY DEF ExecuteInsert
  <2>2. ASSUME NEW s \in Rules PROVE
          /\ s \in confirmed' => rules'[s].state # "absent"
          /\ rules'[s].enf.status = "ENFORCED" => s \in confirmed'
          /\ rules'[s].inv # None =>
               /\ invs'[rules'[s].inv].alert \in Alerts
               /\ ~Llm => rules'[s].ip \in Parties(invs'[rules'[s].inv].alert)
          /\ rules'[s].state # "absent" /\ rules'[s].action = "BLOCK" => rules'[s].ip \notin Internal
    <3>1. CASE s = r
      BY <3>1, <1>0, <1>1, <1>5, <1>7, <2>1 DEF Confirm, Refused
    <3>2. CASE s # r
      BY <3>2, <1>1, <1>5, <2>1 DEF Confirm, IInv, StoreOK, RulesOK, Present
    <3> QED BY <3>1, <3>2
  <2> QED BY <2>2 DEF RulesOK, Present, Parties
<1>9. ApprovalsOK'
  BY <1>1, <1>5 DEF ExecuteInsert, IInv, TypeOK, StoreOK, ApprovalsOK, Present, Parties,
     ApprovalRecord
<1>10. InvsOK' /\ AlertsOK'
  BY <1>6, ConfirmedLasts DEF ExecuteInsert, IInv, StoreOK, InvsOK, AlertsOK
<1>11. FrameOK(f)'
  BY <1>0, <1>6, FrameStable DEF IInv, StoreOK
<1>12. WithRule(f, r, TRUE) \in Frame /\ FrameOK(WithRule(f, r, TRUE))'
  <2>1. Present(r)' /\ rules'[r].ip = f.ip /\ rules'[r].action = f.action
    BY <1>5 DEF Present
  <2> QED BY <2>1, <1>0, <1>11, WithRuleNext DEF WithRuleClaim
<1> QED BY <1>1, <1>4, <1>6, <1>8, <1>9, <1>10, <1>12, HandlerStep DEF StoreOK, ExecuteInsert, IInv, TypeOK

\* Listing the rules to read back keeps IInv.
LEMMA VerifyListStep == ASSUME IInv, NEW p \in Procs, VerifyList(p) PROVE IInv'
<1>0. PICK f \in Frame : f = frames[p] /\ FrameOK(f) /\ f.pc = "verify"
  BY DEF IInv, TypeOK, VerifyList, At
<1>a. ActiveFor(f.ip) \in SUBSET Rules
  BY DEF ActiveFor
<1>1. PICK R \in SUBSET Rules :
        R = ActiveFor(f.ip) /\ \A r \in R : Present(r) /\ rules[r].ip = f.ip
  BY <1>a DEF ActiveFor, Active, Present
<1>2. PICK snap \in [Rules -> RuleRecord] :
        /\ snap = Snapshot(R)
        /\ \A r \in Rules : snap[r].enf.status = "ENFORCED" => r \in confirmed
  BY SnapshotOK DEF IInv, StoreOK
<1>3. PICK pc \in PCs : pc = IF R = {} THEN AfterVerify(f.op) ELSE "check"
  BY <1>0, AfterInPCs DEF Frame, PCs
<1> DEFINE g == [f EXCEPT !.pc = pc, !.todo = R, !.snap = snap, !.seen = {}]
<1>4. g \in Frame
  BY DEF Frame
<1>5. FrameOK(g)
  BY <1>0, <1>1, <1>2, <1>3 DEF FrameOK, OpOK, HeldOK, RunOK, DecideOK, OverrideOK, PullOK,
     RunOps, AfterVerify, Frame, Ops
<1>6. Continue(p, g)
  BY <1>0, <1>1, <1>2, <1>3 DEF VerifyList
<1> QED BY <1>4, <1>5, <1>6, LocalStep DEF VerifyList, IInv, TypeOK

\* Storing a read-back keeps IInv.
LEMMA VerifyCheckStep == ASSUME IInv, NEW p \in Procs, VerifyCheck(p) PROVE IInv'
<1>0. PICK f \in Frame : f = frames[p] /\ FrameOK(f) /\ f.pc = "check"
  BY HandlerFrame DEF VerifyCheck, At
<1>1. PICK r \in f.todo : \E e \in VerifyAnswers(f.snap[r].action, f.snap[r].enf) :
       /\ IF Echoes(f.snap[r].action, f.snap[r].enf)
          THEN UNCHANGED <<rules, confirmed>>
          ELSE /\ rules' = [rules EXCEPT ![r].enf = e]
               /\ Confirm(r, e)
       /\ Continue(p, [f EXCEPT !.pc = IF f.todo = {r} THEN AfterVerify(f.op) ELSE "check",
                                !.todo = @ \ {r}, !.snap[r] = NoRule,
                                !.seen = @ \cup {e.status}])
  BY <1>0 DEF VerifyCheck
<1>a. PICK e \in VerifyAnswers(f.snap[r].action, f.snap[r].enf) :
       /\ IF Echoes(f.snap[r].action, f.snap[r].enf)
          THEN UNCHANGED <<rules, confirmed>>
          ELSE /\ rules' = [rules EXCEPT ![r].enf = e]
               /\ Confirm(r, e)
       /\ Continue(p, [f EXCEPT !.pc = IF f.todo = {r} THEN AfterVerify(f.op) ELSE "check",
                                !.todo = @ \ {r}, !.snap[r] = NoRule,
                                !.seen = @ \cup {e.status}])
  BY <1>1
<1>2. /\ r \in Rules /\ Present(r) /\ rules[r].ip = f.ip
      /\ f.snap[r].action \in Actions /\ f.snap[r].enf \in Answers
      /\ f.snap[r].enf.status = "ENFORCED" => r \in confirmed
  BY <1>0, <1>1 DEF Frame, RuleRecord, FrameOK, HeldOK
<1>3. e \in Answers /\ (Echoes(f.snap[r].action, f.snap[r].enf) => e = f.snap[r].enf)
  BY <1>a, <1>2, AnswersTyped
<1>4. /\ rules' \in [Rules -> RuleRecord] /\ confirmed' \in SUBSET Rules
      /\ Grows /\ StoreOK'
      /\ e.status = "ENFORCED" => r \in confirmed'
  <2>1. CASE Echoes(f.snap[r].action, f.snap[r].enf)
    <3>1. UNCHANGED <<rules, approvals, invs, alerts, confirmed>>
      BY <1>a, <2>1 DEF VerifyCheck
    <3>2. Grows
      BY <3>1 DEF Grows, Present
    <3>3. StoreOK'
      BY <3>1 DEF IInv, StoreOK, RulesOK, ApprovalsOK, InvsOK, AlertsOK, Present, ConfirmedFor
    <3> QED BY <3>1, <3>2, <3>3, <1>2, <1>3, <2>1 DEF IInv, TypeOK
  <2>2. CASE ~Echoes(f.snap[r].action, f.snap[r].enf)
    BY <2>2, <1>a, <1>2, <1>3, AnswerWrite DEF VerifyCheck
  <2> QED BY <2>1, <2>2
<1>5. FrameOK(f)' /\ rules'[r].ip = f.ip
  BY <1>0, <1>2, <1>4, FrameStable DEF Grows, IInv, StoreOK
<1>6. PICK pc \in PCs : pc = IF f.todo = {r} THEN AfterVerify(f.op) ELSE "check"
  BY <1>0, AfterInPCs DEF Frame, PCs
<1>7. PICK todo \in SUBSET Rules : todo = f.todo \ {r}
  BY DEF Frame
<1>8. PICK snap \in [Rules -> RuleRecord] : snap = [f.snap EXCEPT ![r] = NoRule]
  BY NoRuleOK DEF Frame
<1>9. PICK seen \in SUBSET Statuses : seen = f.seen \cup {e.status}
  BY <1>3 DEF Frame, Answers
<1> DEFINE g == [f EXCEPT !.pc = pc, !.todo = todo, !.snap = snap, !.seen = seen]
<1>10. g \in Frame
  BY DEF Frame
<1>11. Continue(p, g)
  BY <1>a, <1>6, <1>7, <1>8, <1>9
<1>12. \A s \in Rules : snap[s].enf.status = "ENFORCED" => s \in confirmed'
  BY <1>5, <1>8, NoRuleOK DEF FrameOK, HeldOK, Frame
<1>13. ("ENFORCED" \in seen) => ConfirmedOn(f.ip)'
  BY <1>4, <1>5, <1>9 DEF FrameOK, HeldOK, ConfirmedOn
<1>14. FrameOK(g)'
  BY <1>0, <1>5, <1>6, <1>7, <1>12, <1>13 DEF FrameOK, OpOK, HeldOK, RunOK, DecideOK,
     OverrideOK, PullOK,
     RunOps, AfterVerify, Frame, Ops
<1> QED BY <1>4, <1>10, <1>11, <1>14, HandlerStep DEF VerifyCheck, IInv, TypeOK

-----------------------------------------------------------------------------
\* The requests that start a rule handler keep IInv.
LEMMA StartAddStep == ASSUME IInv, NEW p \in Procs, StartAdd(p) PROVE IInv'
<1>1. PICK f \in Frame : f = IdleFrame /\ FrameOK(f) /\ f.seen = {}
  BY IdleFields
<1>2. PICK op \in {"add", "contain"}, action \in Actions, ip \in IPs :
        /\ ~(action = "BLOCK" /\ ip \in Internal)
        /\ Continue(p, [f EXCEPT !.op = op, !.pc = "exec", !.action = action, !.ip = ip])
  BY <1>1 DEF StartAdd
<1> DEFINE g == [f EXCEPT !.op = op, !.pc = "exec", !.action = action, !.ip = ip]
<1>3. g \in Frame
  BY DEF Frame, Ops, PCs
<1>4. FrameOK(g)
  BY <1>1, <1>2 DEF FrameOK, OpOK, HeldOK, RunOK, DecideOK, OverrideOK, PullOK, RunOps, Frame
<1> QED BY <1>2, <1>3, <1>4, LocalStep DEF StartAdd, IInv, TypeOK

\* An analyst's read-back keeps IInv when it starts.
LEMMA StartProbeStep == ASSUME IInv, NEW p \in Procs, StartProbe(p) PROVE IInv'
<1>1. PICK f \in Frame : f = IdleFrame /\ FrameOK(f) /\ f.seen = {}
  BY IdleFields
<1>2. PICK ip \in IPs : Continue(p, [f EXCEPT !.op = "probe", !.pc = "verify", !.ip = ip])
  BY <1>1 DEF StartProbe
<1> DEFINE g == [f EXCEPT !.op = "probe", !.pc = "verify", !.ip = ip]
<1>3. g \in Frame
  BY DEF Frame, Ops, PCs
<1>4. FrameOK(g)
  BY <1>1 DEF FrameOK, OpOK, HeldOK, RunOK, DecideOK, OverrideOK, PullOK, RunOps, Frame
<1> QED BY <1>2, <1>3, <1>4, LocalStep DEF StartProbe, IInv, TypeOK

\* A request for one rule holds a rule that exists.
LEMMA StartToggleStep == ASSUME IInv, NEW p \in Procs, StartToggle(p) PROVE IInv'
<1>1. PICK f \in Frame : f = IdleFrame /\ FrameOK(f) /\ f.seen = {} /\ f.todo = {} /\ f.mine = {}
  BY IdleFields
<1>2. PICK r \in Rules :
        /\ rules[r].state # "absent"
        /\ Continue(p, [f EXCEPT !.op = "toggle", !.rule = r, !.snap = Snapshot({r}),
                         !.pc = IF Active(r) THEN "disable" ELSE "clash"])
  BY <1>1 DEF StartToggle
<1>3. PICK snap \in [Rules -> RuleRecord] :
        /\ snap = Snapshot({r})
        /\ \A s \in Rules : snap[s].enf.status = "ENFORCED" => s \in confirmed
  BY SnapshotOK DEF IInv, StoreOK
<1>4. PICK pc \in PCs : /\ pc \in {"disable", "clash"}
                       /\ pc = IF Active(r) THEN "disable" ELSE "clash"
  BY DEF PCs
<1> DEFINE g == [f EXCEPT !.op = "toggle", !.rule = r, !.snap = snap, !.pc = pc]
<1>5. g \in Frame
  BY DEF Frame, Ops
<1>9. g.rule = r /\ g.snap = snap /\ g.pc = pc /\ g.seen = {} /\ g.todo = {} /\ g.mine = {}
  BY <1>1 DEF Frame
<1>6. HeldOK(g)
  <2> HIDE DEF g
  <2> QED BY <1>2, <1>3, <1>4, <1>9, ResponseAssumption DEF HeldOK, Present
<1>8. FrameOK(g)
  BY <1>1, <1>4, <1>6 DEF FrameOK, OpOK, RunOK, DecideOK, OverrideOK, PullOK, RunOps, Frame
<1>7. Continue(p, g)
  BY <1>2, <1>3, <1>4
<1> QED BY <1>5, <1>8, <1>7, LocalStep DEF StartToggle, IInv, TypeOK

\* A re-check holds a rule that exists.
LEMMA StartRecheckStep == ASSUME IInv, NEW p \in Procs, StartRecheck(p) PROVE IInv'
<1>1. PICK f \in Frame : f = IdleFrame /\ FrameOK(f) /\ f.seen = {} /\ f.todo = {} /\ f.mine = {}
  BY IdleFields
<1>2. PICK r \in Rules :
        /\ rules[r].state # "absent"
        /\ Continue(p, [f EXCEPT !.op = "recheck", !.pc = "recheck", !.rule = r,
                                 !.snap = Snapshot({r})])
  BY <1>1 DEF StartRecheck, Active
<1>3. PICK snap \in [Rules -> RuleRecord] :
        /\ snap = Snapshot({r})
        /\ \A s \in Rules : snap[s].enf.status = "ENFORCED" => s \in confirmed
  BY SnapshotOK DEF IInv, StoreOK
<1> DEFINE g == [f EXCEPT !.op = "recheck", !.pc = "recheck", !.rule = r, !.snap = snap]
<1>5. g \in Frame
  BY DEF Frame, Ops, PCs
<1>9. g.rule = r /\ g.snap = snap /\ g.pc = "recheck" /\ g.seen = {} /\ g.todo = {} /\ g.mine = {}
  BY <1>1 DEF Frame
<1>6. HeldOK(g)
  <2> HIDE DEF g
  <2> QED BY <1>2, <1>3, <1>9, ResponseAssumption DEF HeldOK, Present
<1>8. FrameOK(g)
  BY <1>1, <1>6 DEF FrameOK, OpOK, RunOK, DecideOK, OverrideOK, PullOK, RunOps, Frame
<1>7. Continue(p, g)
  BY <1>2, <1>3
<1> QED BY <1>5, <1>8, <1>7, LocalStep DEF StartRecheck, IInv, TypeOK

\* Looking for a rule that would clash keeps IInv.
LEMMA ToggleClashStep == ASSUME IInv, NEW p \in Procs, ToggleClash(p) PROVE IInv'
<1>0. PICK f \in Frame : f = frames[p] /\ FrameOK(f) /\ f.pc = "clash"
  BY HandlerFrame DEF ToggleClash, At
<1>1. PICK pc \in PCs :
        /\ pc \in {"idle", "enable"}
        /\ pc = IF Clashes(f.snap[f.rule].action, f.snap[f.rule].ip) # {} THEN "idle" ELSE "enable"
  BY DEF PCs
<1> DEFINE g == [f EXCEPT !.pc = pc]
<1>2. g \in Frame
  BY DEF Frame
<1>3. FrameOK(g)
  BY <1>0, <1>1 DEF FrameOK, OpOK, HeldOK, RunOK, DecideOK, OverrideOK, PullOK, RunOps, Frame
<1>4. Continue(p, g)
  BY <1>0, <1>1 DEF ToggleClash
<1> QED BY <1>2, <1>3, <1>4, LocalStep DEF ToggleClash, IInv, TypeOK

\* Switching a rule back on keeps IInv.
LEMMA ToggleEnableStep == ASSUME IInv, NEW p \in Procs, ToggleEnable(p) PROVE IInv'
<1>0. PICK f \in Frame : f = frames[p] /\ FrameOK(f) /\ f.pc = "enable"
  BY HandlerFrame DEF ToggleEnable, At
<1>1. PICK r \in Rules : r = f.rule /\ Present(r)
  BY <1>0 DEF FrameOK, OpOK, HeldOK, Frame
<1>2. f.snap[r].action \in Actions
  BY DEF Frame, RuleRecord
<1>3. PICK e \in ApplyAnswers(f.snap[r].action) :
        /\ rules' = [rules EXCEPT ![r].state = "active", ![r].enf = e,
                                  ![r].ttl = IF @ = "lapsed" THEN "none" ELSE @]
        /\ Confirm(r, e)
  BY <1>0, <1>1 DEF ToggleEnable
<1>4. e \in Answers
  BY <1>2, AnswersTyped DEF Answers, IInv, TypeOK, RuleRecord
<1>5. PICK ttl \in {"none", "running", "lapsed"} :
        ttl = IF rules[r].ttl = "lapsed" THEN "none" ELSE rules[r].ttl
  BY DEF IInv, TypeOK, RuleRecord
<1>6. PICK rec \in RuleRecord :
        rec = [rules[r] EXCEPT !.state = "active", !.enf = e, !.ttl = ttl]
  BY <1>4 DEF RuleRecord, IInv, TypeOK
<1>7. rules' = [rules EXCEPT ![r] = rec]
  BY <1>3, <1>5, <1>6 DEF IInv, TypeOK
<1>8. rules' \in [Rules -> RuleRecord] /\ \A s \in Rules \ {r} : rules'[s] = rules[s]
  BY <1>7 DEF IInv, TypeOK
<1>9. /\ rules'[r].ip = rules[r].ip /\ rules'[r].action = rules[r].action
      /\ rules'[r].inv = rules[r].inv /\ rules'[r].enf = e /\ rules'[r].state = "active"
  BY <1>6, <1>7 DEF IInv, TypeOK, RuleRecord
<1>10. /\ confirmed \subseteq confirmed' /\ confirmed' \subseteq confirmed \cup {r}
       /\ e.status = "ENFORCED" => r \in confirmed'
  BY <1>3 DEF Confirm
<1>11. confirmed' \in SUBSET Rules
  BY <1>10 DEF IInv, TypeOK
<1>12. rules[r].inv # None =>
         /\ invs[rules[r].inv].alert \in Alerts
         /\ ~Llm => rules[r].ip \in Parties(invs[rules[r].inv].alert)
  BY DEF IInv, StoreOK, RulesOK
<1>13. Grows /\ StoreOK'
  BY <1>1, <1>8, <1>9, <1>10, <1>12, RuleWrite DEF Present, ToggleEnable
<1>14. Continue(p, IdleFrame)
  BY <1>0, ReturnFrame DEF ToggleEnable
<1> QED BY <1>8, <1>11, <1>13, <1>14, IdleFrameOK, IdleFrameOKNext, HandlerStep DEF ToggleEnable, IInv, TypeOK

\* Switching a rule off keeps IInv.
LEMMA ToggleDisableStep == ASSUME IInv, NEW p \in Procs, ToggleDisable(p) PROVE IInv'
<1>0. PICK f \in Frame : f = frames[p] /\ FrameOK(f) /\ f.pc = "disable"
  BY HandlerFrame DEF ToggleDisable, At
<1>1. PICK r \in Rules : r = f.rule /\ Present(r)
  BY <1>0 DEF FrameOK, OpOK, HeldOK, Frame
<1>2. f.snap[r].enf \in Answers
  BY DEF Frame, RuleRecord
<1>3. Continue(p, IdleFrame)
  BY <1>0, ReturnFrame DEF ToggleDisable
<1> QED BY <1>0, <1>1, <1>2, <1>3, IdleFrameOK, RemovalStep DEF ToggleDisable

\* Storing the answer to a re-check keeps IInv.
LEMMA RecheckWriteStep == ASSUME IInv, NEW p \in Procs, RecheckWrite(p) PROVE IInv'
<1>0. PICK f \in Frame : f = frames[p] /\ FrameOK(f) /\ f.pc = "recheck"
  BY HandlerFrame DEF RecheckWrite, At
<1>1. PICK r \in Rules : r = f.rule /\ Present(r)
  BY <1>0 DEF FrameOK, OpOK, HeldOK, Frame
<1>2. f.snap[r].action \in Actions /\ f.snap[r].enf \in Answers
  BY DEF Frame, RuleRecord
<1>3. PICK e \in Answers : rules' = [rules EXCEPT ![r].enf = e] /\ Confirm(r, e)
  BY <1>0, <1>1, <1>2, AnswersTyped DEF RecheckWrite
<1>4. /\ rules' \in [Rules -> RuleRecord] /\ confirmed' \in SUBSET Rules /\ Grows /\ StoreOK'
  BY <1>1, <1>3, AnswerWrite DEF RecheckWrite
<1>5. Continue(p, IdleFrame)
  BY <1>0, ReturnFrame DEF RecheckWrite
<1> QED BY <1>4, <1>5, IdleFrameOK, IdleFrameOKNext, HandlerStep DEF RecheckWrite, IInv, TypeOK

-----------------------------------------------------------------------------
\* Time keeps IInv.
LEMMA LapseStep == ASSUME IInv, NEW r \in Rules, Lapse(r) PROVE IInv'
<1>1. PICK rec \in RuleRecord : rec = [rules[r] EXCEPT !.ttl = "lapsed"]
  BY DEF RuleRecord, IInv, TypeOK
<1>2. rules' = [rules EXCEPT ![r] = rec]
  BY <1>1 DEF Lapse, IInv, TypeOK
<1>3. rules' \in [Rules -> RuleRecord] /\ \A s \in Rules \ {r} : rules'[s] = rules[s]
  BY <1>2 DEF IInv, TypeOK
<1>4. /\ rules'[r].ip = rules[r].ip /\ rules'[r].action = rules[r].action
      /\ rules'[r].inv = rules[r].inv /\ rules'[r].enf = rules[r].enf
      /\ rules'[r].state = rules[r].state
  BY <1>1, <1>2 DEF IInv, TypeOK, RuleRecord
<1>5. UNCHANGED <<approvals, invs, alerts, frames, faults, confirmed>>
  BY DEF Lapse
<1>6. Grows
  BY <1>3, <1>4, <1>5 DEF Grows, Present
<1>7. StoreOK'
  <2>1. RulesOK'
    BY <1>3, <1>4, <1>5 DEF IInv, StoreOK, RulesOK, Present, Parties
  <2>2. ApprovalsOK'
    BY <1>3, <1>4, <1>5, ResponseAssumption
    DEF IInv, TypeOK, StoreOK, ApprovalsOK, ApprovalRecord, Present, Parties
  <2>3. InvsOK'
    BY <1>5 DEF IInv, StoreOK, InvsOK
  <2>4. AlertsOK'
    BY <1>5, <1>6, ConfirmedLasts DEF IInv, StoreOK, AlertsOK
  <2> QED BY <2>1, <2>2, <2>3, <2>4 DEF StoreOK
<1> QED BY <1>3, <1>5, <1>6, <1>7, EnvironmentStep DEF IInv, TypeOK

\* The rules that a sweep visits exist.
LEMMA SweepingOK ==
  ASSUME IInv, NEW op \in {"sweep", "pull"}, NEW action \in Actions,
         NEW next \in {"idle", "pull_list"}, next = "pull_list" => op = "pull",
         NEW R \in SUBSET Due
  PROVE  LET f == [IdleFrame EXCEPT !.op = op, !.action = action] IN
         Sweeping(f, R, next) \in Frame /\ FrameOK(Sweeping(f, R, next))
<1>1. PICK f \in Frame : f = IdleFrame /\ FrameOK(f) /\ f.seen = {} /\ f.mine = {} /\ f.rule = None
  BY IdleFields
<1>2. R \in SUBSET Rules /\ \A r \in R : Present(r)
  BY DEF Due, Active, Present
<1>3. PICK snap \in [Rules -> RuleRecord] :
        /\ snap = Snapshot(R)
        /\ \A s \in Rules : snap[s].enf.status = "ENFORCED" => s \in confirmed
  BY <1>2, SnapshotOK DEF IInv, StoreOK
<1>4. PICK pc \in PCs : pc \in {next, "sweep"} /\ pc = IF R = {} THEN next ELSE "sweep"
  BY DEF PCs
<1> DEFINE g == [f EXCEPT !.op = op, !.action = action, !.pc = pc, !.todo = R, !.snap = snap]
<1>5. g \in Frame
  BY <1>2 DEF Frame, Ops
<1>6. FrameOK(g)
  BY <1>1, <1>2, <1>3, <1>4 DEF FrameOK, OpOK, HeldOK, RunOK, DecideOK, OverrideOK, PullOK,
     RunOps, Frame
<1>7. g = Sweeping([IdleFrame EXCEPT !.op = op, !.action = action], R, next)
  BY <1>1, <1>3, <1>4 DEF Sweeping, Frame
<1> QED BY <1>5, <1>6, <1>7

\* The hourly sweep keeps IInv when it lists the rules that ran out.
LEMMA StartSweepStep == ASSUME IInv, NEW p \in Procs, StartSweep(p) PROVE IInv'
<1>1. IdleFrame.action \in Actions /\ [IdleFrame EXCEPT !.op = "sweep"]
        = [IdleFrame EXCEPT !.op = "sweep", !.action = IdleFrame.action]
  BY DEF IdleFrame, Actions
<1>2. PICK g \in Frame : Continue(p, g) /\ FrameOK(g)
  BY <1>1, SweepingOK DEF StartSweep
<1> QED BY <1>2, LocalStep DEF StartSweep, IInv, TypeOK

\* A pull keeps IInv when it starts with the sweep, or without it.
LEMMA StartPullStep ==
  ASSUME IInv, NEW p \in Procs, NEW action \in Actions, StartPull(p, action)
  PROVE  IInv'
<1>1. PICK R \in SUBSET Due :
        Continue(p, Sweeping([IdleFrame EXCEPT !.op = "pull", !.action = action], R, "pull_list"))
  BY DEF StartPull
<1>2. PICK g \in Frame : Continue(p, g) /\ FrameOK(g)
  BY <1>1, SweepingOK
<1> QED BY <1>2, LocalStep DEF StartPull, IInv, TypeOK

\* Removing one rule of a list keeps IInv, whoever removes it.
LEMMA RemoveListed ==
  ASSUME IInv, NEW p \in Procs, NEW f \in Frame, FrameOK(f),
         f.pc \in {"sweep", "unblock", "rollback"}, NEW pc \in PCs,
         pc = f.pc \/ (f.pc = "sweep" /\ pc \in {"idle", "pull_list"} /\ pc = AfterSweep(f.op))
           \/ (f.pc = "unblock" /\ pc = "llm") \/ (f.pc = "rollback" /\ pc = "ovr_write"),
         NEW r \in f.todo, NEW e \in RemoveAnswers(f.snap[r].enf),
         rules' = [rules EXCEPT ![r].state = "disabled", ![r].enf = e],
         Continue(p, [f EXCEPT !.pc = pc, !.todo = @ \ {r}, !.snap[r] = NoRule]),
         UNCHANGED <<approvals, invs, alerts, faults, confirmed>>
  PROVE  IInv'
<1>1. r \in Rules /\ Present(r) /\ f.snap[r].enf \in Answers
  BY DEF Frame, RuleRecord, FrameOK, HeldOK
<1>2. PICK todo \in SUBSET Rules : todo = f.todo \ {r}
  BY DEF Frame
<1>3. PICK snap \in [Rules -> RuleRecord] : snap = [f.snap EXCEPT ![r] = NoRule]
  BY NoRuleOK DEF Frame
<1> DEFINE g == [f EXCEPT !.pc = pc, !.todo = todo, !.snap = snap]
<1>4. g \in Frame
  BY DEF Frame
<1>5. Continue(p, g)
  BY <1>2, <1>3
<1>6. \A s \in Rules : snap[s].enf.status = "ENFORCED" => s \in confirmed
  BY <1>3, NoRuleOK DEF FrameOK, HeldOK, Frame
<1>7. FrameOK(g)
  BY <1>2, <1>6 DEF FrameOK, OpOK, HeldOK, RunOK, DecideOK, OverrideOK, PullOK, RunOps,
     AfterSweep, Frame
<1> QED BY <1>1, <1>4, <1>5, <1>7, RemovalStep

\* Taking down one rule that ran out keeps IInv.
LEMMA SweepRuleStep == ASSUME IInv, NEW p \in Procs, SweepRule(p) PROVE IInv'
<1>0. PICK f \in Frame : f = frames[p] /\ FrameOK(f) /\ f.pc = "sweep"
  BY HandlerFrame DEF SweepRule, At
<1>1. PICK r \in f.todo : \E e \in RemoveAnswers(f.snap[r].enf) :
       /\ rules' = [rules EXCEPT ![r].state = "disabled", ![r].enf = e]
       /\ Continue(p, [f EXCEPT !.pc = IF f.todo = {r} THEN AfterSweep(f.op) ELSE "sweep",
                                !.todo = @ \ {r}, !.snap[r] = NoRule])
  BY <1>0 DEF SweepRule
<1>2. PICK pc \in PCs : /\ pc = IF f.todo = {r} THEN AfterSweep(f.op) ELSE "sweep"
                       /\ pc \in {"sweep", "idle", "pull_list"}
  BY DEF PCs, AfterSweep
<1>3. pc = f.pc \/ (pc \in {"idle", "pull_list"} /\ pc = AfterSweep(f.op))
  BY <1>0, <1>2 DEF AfterSweep
<1> QED BY <1>0, <1>1, <1>2, <1>3, RemoveListed DEF SweepRule

-----------------------------------------------------------------------------
\* The steps of a pull keep IInv.
LEMMA PullListStep == ASSUME IInv, NEW p \in Procs, PullList(p) PROVE IInv'
<1>0. PICK f \in Frame : f = frames[p] /\ FrameOK(f) /\ f.pc = "pull_list"
  BY HandlerFrame DEF PullList, At
<1> DEFINE pending == {r \in Served(f.action) : Mode = "feed" /\ rules[r].enf.status = "PENDING"}
<1>a. pending \in SUBSET Rules /\ \A r \in pending : Present(r)
  BY DEF Served, Active, Present
<1>1. PICK R \in SUBSET Rules : R = pending /\ \A r \in R : Present(r)
  BY <1>a
<1>2. PICK snap \in [Rules -> RuleRecord] :
        /\ snap = Snapshot(R)
        /\ \A s \in Rules : snap[s].enf.status = "ENFORCED" => s \in confirmed
  BY SnapshotOK DEF IInv, StoreOK
<1>3. PICK pc \in PCs : pc \in {"idle", "pull_mark"} /\ pc = IF R = {} THEN "idle" ELSE "pull_mark"
  BY DEF PCs
<1> DEFINE g == [f EXCEPT !.pc = pc, !.todo = R, !.snap = snap]
<1>4. g \in Frame
  BY DEF Frame
<1>5. FrameOK(g)
  BY <1>0, <1>1, <1>2, <1>3 DEF FrameOK, OpOK, HeldOK, RunOK, DecideOK, OverrideOK, PullOK,
     RunOps, Frame
<1>6. Continue(p, g)
  BY <1>0, <1>1, <1>2, <1>3 DEF PullList
<1> QED BY <1>4, <1>5, <1>6, LocalStep DEF PullList, IInv, TypeOK

\* A rule handed to the firewall is confirmed, and IInv is kept.
LEMMA PullMarkStep == ASSUME IInv, NEW p \in Procs, PullMark(p) PROVE IInv'
<1>0. PICK f \in Frame : f = frames[p] /\ FrameOK(f) /\ f.pc = "pull_mark"
  BY HandlerFrame DEF PullMark, At
<1> DEFINE noted(r) == f.invset \cup ({f.snap[r].inv} \ {None})
           after(r) == CASE f.todo # {r} -> "pull_mark"
                         [] f.todo = {r} /\ noted(r) # {} -> "pull_own"
                         [] OTHER -> "idle"
<1>1. PICK r \in f.todo :
       /\ rules' = [rules EXCEPT ![r].enf = Answer("ENFORCED", FALSE)]
       /\ Confirm(r, Answer("ENFORCED", FALSE))
       /\ Continue(p, [f EXCEPT !.pc = after(r), !.todo = @ \ {r}, !.snap[r] = NoRule,
                                !.invset = noted(r)])
  BY <1>0 DEF PullMark
<1>2. r \in Rules /\ Present(r) /\ f.snap[r].inv \in Invs \cup {None}
  BY <1>0, <1>1 DEF Frame, RuleRecord, FrameOK, HeldOK
<1>3. Answer("ENFORCED", FALSE) \in Answers
  BY DEF Answer, Answers, Statuses
<1>4. /\ rules' \in [Rules -> RuleRecord] /\ confirmed' \in SUBSET Rules /\ Grows /\ StoreOK'
  BY <1>1, <1>2, <1>3, AnswerWrite DEF PullMark
<1>5. PICK todo \in SUBSET Rules : todo = f.todo \ {r}
  BY DEF Frame
<1>6. PICK snap \in [Rules -> RuleRecord] : snap = [f.snap EXCEPT ![r] = NoRule]
  BY NoRuleOK DEF Frame
<1>7. PICK invset \in SUBSET Invs : invset = noted(r)
  BY <1>2 DEF Frame
<1>8. PICK pc \in PCs : pc \in {"pull_mark", "pull_own", "idle"} /\ pc = after(r)
  BY DEF PCs
<1> HIDE DEF noted, after
<1> DEFINE g == [f EXCEPT !.pc = pc, !.todo = todo, !.snap = snap, !.invset = invset]
<1>9. g \in Frame
  BY DEF Frame
<1>10. Continue(p, g)
  BY <1>1, <1>5, <1>6, <1>7, <1>8
<1>11. \A s \in Rules : snap[s].enf.status = "ENFORCED" => s \in confirmed
  BY <1>0, <1>6, NoRuleOK DEF FrameOK, HeldOK, Frame
<1>12. FrameOK(g)
  BY <1>0, <1>5, <1>8, <1>11 DEF FrameOK, OpOK, HeldOK, RunOK, DecideOK, OverrideOK, PullOK,
     RunOps, Frame
<1>13. FrameOK(g)'
  <2> HIDE DEF g
  <2> QED BY <1>4, <1>9, <1>12, FrameStable DEF IInv, StoreOK
<1> QED BY <1>4, <1>9, <1>10, <1>13, HandlerStep DEF PullMark, IInv, TypeOK

\* An investigation whose rules are in force belongs to an alert that a confirmed
\* rule answers.
LEMMA PullOwnStep == ASSUME IInv, NEW p \in Procs, PullOwn(p) PROVE IInv'
<1>0. PICK f \in Frame : f = frames[p] /\ FrameOK(f) /\ f.pc = "pull_own"
  BY HandlerFrame DEF PullOwn, At
<1>a. {i \in f.invset : Enforced(i)} \in SUBSET Invs
  BY DEF Frame
<1>1. PICK ready \in SUBSET Invs : ready = {i \in f.invset : Enforced(i)}
  BY <1>a
<1>2. ASSUME NEW i \in ready PROVE invs[i].alert \in Alerts /\ ConfirmedFor(invs[i].alert)
  <2>1. PICK r \in Rules : rules[r].inv = i /\ rules[r].enf.status = "ENFORCED"
    BY <1>1 DEF Enforced, LinkedTo
  <2>2. r \in confirmed /\ invs[i].alert \in Alerts /\ (~Llm => rules[r].ip \in Parties(invs[i].alert))
    BY <2>1, ResponseAssumption DEF IInv, StoreOK, RulesOK
  <2> QED BY <2>2 DEF ConfirmedFor
<1>3. PICK pc \in PCs : pc \in {"idle", "pull_inv"} /\ pc = IF ready = {} THEN "idle" ELSE "pull_inv"
  BY DEF PCs
<1> DEFINE g == [f EXCEPT !.pc = pc, !.invset = ready]
<1>4. g \in Frame
  BY DEF Frame
<1>5. FrameOK(g)
  BY <1>0, <1>2, <1>3 DEF FrameOK, OpOK, HeldOK, RunOK, DecideOK, OverrideOK, PullOK, RunOps, Frame
<1>6. Continue(p, g)
  BY <1>0, <1>1, <1>3 DEF PullOwn
<1> QED BY <1>4, <1>5, <1>6, LocalStep DEF PullOwn, IInv, TypeOK

\* A pull looks only at investigations a confirmed rule answers.
LEMMA PullInvStep == ASSUME IInv, NEW p \in Procs, PullInv(p) PROVE IInv'
<1>0. PICK f \in Frame : f = frames[p] /\ FrameOK(f) /\ f.pc = "pull_inv"
  BY HandlerFrame DEF PullInv, At
<1> DEFINE next(i) == [f EXCEPT !.invset = @ \ {i}, !.inv = i, !.alert = invs[i].alert]
<1>1. PICK i \in f.invset :
        Continue(p, [next(i) EXCEPT !.pc =
          IF Recorded(i) /\ invs[i].outcome = "ATTACK_SUCCEEDED" THEN "pull_alert" ELSE NextInv(next(i))])
  BY <1>0 DEF PullInv
<1>2. i \in Invs /\ invs[i].alert \in Alerts /\ ConfirmedFor(invs[i].alert)
  BY <1>0, <1>1 DEF FrameOK, PullOK, Frame
<1>3. PICK al \in Alerts : al = invs[i].alert
  BY <1>2
<1>4. PICK rest \in SUBSET Invs : rest = f.invset \ {i}
  BY DEF Frame
<1>5. PICK pc \in PCs :
        /\ pc \in {"pull_alert", "idle", "pull_inv"}
        /\ pc = IF Recorded(i) /\ invs[i].outcome = "ATTACK_SUCCEEDED" THEN "pull_alert" ELSE NextInv(next(i))
  BY DEF PCs, NextInv
<1> DEFINE g == [f EXCEPT !.invset = rest, !.inv = i, !.alert = al, !.pc = pc]
<1>6. g \in Frame
  BY <1>2 DEF Frame
<1>7. FrameOK(g)
  BY <1>0, <1>2, <1>3, <1>4, <1>5 DEF FrameOK, OpOK, HeldOK, RunOK, DecideOK, OverrideOK,
     PullOK, RunOps, Frame
<1>8. g = [next(i) EXCEPT !.pc = pc]
  BY <1>3, <1>4
<1>9. Continue(p, g)
  BY <1>1, <1>5, <1>8
<1> QED BY <1>6, <1>7, <1>9, LocalStep DEF PullInv, IInv, TypeOK

\* Reading the alert of an answered investigation keeps IInv.
LEMMA PullAlertStep == ASSUME IInv, NEW p \in Procs, PullAlert(p) PROVE IInv'
<1>0. PICK f \in Frame : f = frames[p] /\ FrameOK(f) /\ f.pc = "pull_alert"
  BY HandlerFrame DEF PullAlert, At
<1>1. PICK pc \in PCs :
        /\ pc \in {"pull_contain", "idle", "pull_inv"}
        /\ pc = IF alerts[f.alert] = "CONFIRMED" THEN "pull_contain" ELSE NextInv(f)
  BY DEF PCs, NextInv
<1> DEFINE g == [f EXCEPT !.pc = pc]
<1>2. g \in Frame
  BY DEF Frame
<1>3. FrameOK(g)
  BY <1>0, <1>1 DEF FrameOK, OpOK, HeldOK, RunOK, DecideOK, OverrideOK, PullOK, RunOps, Frame
<1>4. Continue(p, g)
  BY <1>0, <1>1 DEF PullAlert
<1> QED BY <1>2, <1>3, <1>4, LocalStep DEF PullAlert, IInv, TypeOK

\* A pull claims containment only for an alert a confirmed rule answers.
LEMMA PullContainStep == ASSUME IInv, NEW p \in Procs, PullContain(p) PROVE IInv'
<1>0. PICK f \in Frame : f = frames[p] /\ FrameOK(f) /\ f.pc = "pull_contain"
  BY HandlerFrame DEF PullContain, At
<1>1. PICK pc \in PCs : pc \in {"idle", "pull_inv"} /\ pc = NextInv(f)
  BY DEF PCs, NextInv
<1> DEFINE g == [f EXCEPT !.pc = pc]
<1>2. g \in Frame
  BY DEF Frame
<1>3. FrameOK(g)
  BY <1>0, <1>1 DEF FrameOK, OpOK, HeldOK, RunOK, DecideOK, OverrideOK, PullOK, RunOps, Frame
<1>4. Continue(p, g)
  BY <1>0, <1>1 DEF PullContain
<1>5. f.alert \in Alerts /\ ConfirmedFor(f.alert) /\ "CONTAINED" \in AlertStatuses
  BY <1>0 DEF FrameOK, PullOK, AlertStatuses
<1>6. alerts' = [alerts EXCEPT ![f.alert] = "CONTAINED"]
  BY <1>0 DEF PullContain
<1> QED BY <1>2, <1>3, <1>4, <1>5, <1>6, AlertStep DEF PullContain

-----------------------------------------------------------------------------
\* A handler that moves on with a request in hand, or without one.
LEMMA RequestedOK ==
  ASSUME NEW f \in Frame, FrameOK(f), f.pc \in {"request", "active", "propose"},
         NEW held \in SUBSET Approvals
  PROVE  /\ [f EXCEPT !.pc = AfterRequest(f.op), !.held = held] \in Frame
         /\ FrameOK([f EXCEPT !.pc = AfterRequest(f.op), !.held = held])
<1>1. PICK pc \in PCs : pc = AfterRequest(f.op)
  BY AfterInPCs DEF Frame
<1>2. f.op \in RunOps \cup {"propose"}
  BY DEF FrameOK, OpOK
<1> DEFINE g == [f EXCEPT !.pc = pc, !.held = held]
<1>3. g \in Frame
  BY DEF Frame
<1>4. FrameOK(g)
  BY <1>1, <1>2 DEF FrameOK, OpOK, HeldOK, RunOK, DecideOK, OverrideOK, PullOK, RunOps,
     AfterRequest, Frame
<1> QED BY <1>1, <1>3, <1>4

\* Joining an open request keeps IInv.
LEMMA RequestLookupStep == ASSUME IInv, NEW p \in Procs, RequestLookup(p) PROVE IInv'
<1>0. PICK f \in Frame : f = frames[p] /\ FrameOK(f) /\ f.pc = "request"
  BY HandlerFrame DEF RequestLookup, At
<1>1. CASE \E a \in Open(f.action, f.ip) : Continue(p, Holding(f, a))
  <2>1. PICK a \in Approvals : Continue(p, Holding(f, a))
    BY <1>1 DEF Open
  <2>2. PICK held \in SUBSET Approvals : held = f.held \cup {a}
    BY DEF Frame
  <2>3. PICK g \in Frame : Continue(p, g) /\ FrameOK(g)
    BY <1>0, <2>1, <2>2, RequestedOK DEF Holding
  <2> QED BY <2>3, LocalStep DEF RequestLookup, IInv, TypeOK
<1>2. CASE Continue(p, [f EXCEPT !.pc = "active"])
  <2> DEFINE g == [f EXCEPT !.pc = "active"]
  <2>1. g \in Frame
    BY DEF Frame, PCs
  <2>2. FrameOK(g)
    BY <1>0 DEF FrameOK, OpOK, HeldOK, RunOK, DecideOK, OverrideOK, PullOK, RunOps, Frame
  <2> QED BY <1>2, <2>1, <2>2, LocalStep DEF RequestLookup, IInv, TypeOK
<1> QED BY <1>0, <1>1, <1>2 DEF RequestLookup

\* Dropping a proposal that an active rule answers keeps IInv.
LEMMA RequestActiveStep == ASSUME IInv, NEW p \in Procs, RequestActive(p) PROVE IInv'
<1>0. PICK f \in Frame : f = frames[p] /\ FrameOK(f) /\ f.pc = "active"
  BY HandlerFrame DEF RequestActive, At
<1>1. Continue(p, [f EXCEPT !.pc = IF Clashes(f.action, f.ip) # {}
                                   THEN AfterRequest(f.op) ELSE "propose"])
  BY <1>0 DEF RequestActive
<1>2. CASE Clashes(f.action, f.ip) # {}
  <2>1. f.held \in SUBSET Approvals
    BY DEF Frame
  <2>2. [f EXCEPT !.pc = AfterRequest(f.op), !.held = f.held] = [f EXCEPT !.pc = AfterRequest(f.op)]
    BY DEF Frame
  <2>3. PICK g \in Frame : Continue(p, g) /\ FrameOK(g)
    BY <1>0, <1>1, <1>2, <2>1, <2>2, RequestedOK
  <2> QED BY <2>3, LocalStep DEF RequestActive, IInv, TypeOK
<1>3. CASE Clashes(f.action, f.ip) = {}
  <2> DEFINE g == [f EXCEPT !.pc = "propose"]
  <2>1. g \in Frame
    BY DEF Frame, PCs
  <2>2. FrameOK(g)
    BY <1>0 DEF FrameOK, OpOK, HeldOK, RunOK, DecideOK, OverrideOK, PullOK, RunOps, Frame
  <2> QED BY <1>1, <1>3, <2>1, <2>2, LocalStep DEF RequestActive, IInv, TypeOK
<1> QED BY <1>2, <1>3

\* A new request asks for what its handler works on.
LEMMA RequestInsertStep == ASSUME IInv, NEW p \in Procs, RequestInsert(p) PROVE IInv'
<1>0. PICK f \in Frame : f = frames[p] /\ FrameOK(f) /\ f.pc = "propose"
  BY HandlerFrame DEF RequestInsert, At
<1>1. PICK a \in Approvals :
       /\ approvals[a].status = "absent"
       /\ approvals' = [approvals EXCEPT ![a] =
            [NoApproval EXCEPT !.status = "PENDING", !.action = f.action, !.ip = f.ip,
                               !.alert = f.alert, !.inv = f.inv]]
       /\ Continue(p, Holding(f, a))
  BY <1>0 DEF RequestInsert
<1> DEFINE new == [NoApproval EXCEPT !.status = "PENDING", !.action = f.action, !.ip = f.ip,
                                     !.alert = f.alert, !.inv = f.inv]
<1>a. NoApproval \in ApprovalRecord
  BY DEF NoApproval, ApprovalRecord, Actions
<1>b. new \in ApprovalRecord
  BY <1>a DEF ApprovalRecord, Frame
<1>2. PICK rec \in ApprovalRecord :
        /\ rec = new
        /\ rec.status = "PENDING" /\ rec.action = f.action /\ rec.ip = f.ip
        /\ rec.alert = f.alert /\ rec.inv = f.inv
  BY <1>b, <1>a DEF ApprovalRecord
<1>3. /\ approvals' \in [Approvals -> ApprovalRecord] /\ approvals'[a] = rec
      /\ \A b \in Approvals \ {a} : approvals'[b] = approvals[b]
  BY <1>1, <1>2 DEF IInv, TypeOK
<1>4. UNCHANGED <<rules, invs, alerts, faults, confirmed>>
  BY DEF RequestInsert
<1>5. Grows
  BY <1>1, <1>3, <1>4 DEF Grows, Present
<1>6. f.inv # None =>
        /\ f.alert \in Alerts
        /\ invs[f.inv].alert = f.alert
        /\ ~Llm => f.ip \in Parties(f.alert)
  BY <1>0, ResponseAssumption DEF FrameOK, OpOK, RunOK, PullOK, Frame
<1>7. ApprovalsOK'
  <2>1. rec.inv # None =>
         /\ rec.alert \in Alerts
         /\ invs[rec.inv].alert = rec.alert
         /\ ~Llm => rec.ip \in Parties(rec.alert)
    BY <1>2, <1>6
  <2>2. rec.status # "APPROVED"
    BY <1>2
  <2> HIDE DEF new
  <2> QED BY <1>3, <1>4, <2>1, <2>2 DEF IInv, StoreOK, ApprovalsOK, Present, Parties
<1>8. StoreOK'
  BY <1>4, <1>7 DEF IInv, StoreOK, RulesOK, InvsOK, AlertsOK, Present, ConfirmedFor
<1>9. PICK held \in SUBSET Approvals : held = f.held \cup {a}
  BY DEF Frame
<1>10. PICK g \in Frame : Continue(p, g) /\ FrameOK(g)
  BY <1>0, <1>1, <1>9, RequestedOK DEF Holding
<1>11. FrameOK(g)'
  BY <1>5, <1>10, FrameStable DEF IInv, StoreOK
<1> QED BY <1>3, <1>4, <1>5, <1>8, <1>10, <1>11, HandlerStep DEF IInv, TypeOK

\* An analyst's proposal names no investigation.
LEMMA StartProposeStep == ASSUME IInv, NEW p \in Procs, StartPropose(p) PROVE IInv'
<1>1. PICK f \in Frame : f = IdleFrame /\ FrameOK(f) /\ f.seen = {} /\ f.inv = None
  BY IdleFields
<1>2. PICK action \in Actions, ip \in IPs, al \in Alerts \cup {None} :
        Continue(p, [f EXCEPT !.op = "propose", !.pc = "request", !.action = action, !.ip = ip,
                              !.alert = al])
  BY <1>1 DEF StartPropose
<1> DEFINE g == [f EXCEPT !.op = "propose", !.pc = "request", !.action = action, !.ip = ip,
                          !.alert = al]
<1>3. g \in Frame
  BY DEF Frame, Ops, PCs
<1>4. FrameOK(g)
  BY <1>1 DEF FrameOK, OpOK, HeldOK, RunOK, DecideOK, OverrideOK, PullOK, RunOps, Frame
<1> QED BY <1>2, <1>3, <1>4, LocalStep DEF StartPropose, IInv, TypeOK

\* A request that grows old keeps IInv.
LEMMA AgeStep == ASSUME IInv, NEW a \in Approvals, Age(a) PROVE IInv'
<1>1. PICK rec \in ApprovalRecord : rec = [approvals[a] EXCEPT !.old = TRUE]
  BY DEF ApprovalRecord, IInv, TypeOK
<1>2. approvals' = [approvals EXCEPT ![a] = rec]
  BY <1>1 DEF Age, IInv, TypeOK
<1>3. approvals' \in [Approvals -> ApprovalRecord] /\ \A b \in Approvals \ {a} : approvals'[b] = approvals[b]
  BY <1>2 DEF IInv, TypeOK
<1>4. /\ approvals'[a].status = approvals[a].status /\ approvals'[a].action = approvals[a].action
      /\ approvals'[a].ip = approvals[a].ip /\ approvals'[a].alert = approvals[a].alert
      /\ approvals'[a].inv = approvals[a].inv /\ approvals'[a].rule = approvals[a].rule
  BY <1>1, <1>2 DEF IInv, TypeOK, ApprovalRecord
<1>5. UNCHANGED <<rules, invs, alerts, frames, faults, confirmed>>
  BY DEF Age
<1>6. Grows
  BY <1>3, <1>4, <1>5 DEF Grows, Present
<1>7. ApprovalsOK'
  BY <1>3, <1>4, <1>5 DEF IInv, StoreOK, ApprovalsOK, Present, Parties
<1>8. StoreOK'
  BY <1>5, <1>7 DEF IInv, StoreOK, RulesOK, InvsOK, AlertsOK, Present, ConfirmedFor
<1> QED BY <1>3, <1>5, <1>6, <1>8, EnvironmentStep DEF IInv, TypeOK

\* Listing the requests to expire keeps IInv.
LEMMA StartExpireStep == ASSUME IInv, NEW p \in Procs, StartExpire(p) PROVE IInv'
<1>1. PICK f \in Frame : f = IdleFrame /\ FrameOK(f) /\ f.seen = {} /\ f.inv = None
  BY IdleFields
<1>2. PICK held \in SUBSET Approvals : held = Stale
  BY DEF Stale
<1> DEFINE g == [f EXCEPT !.op = "lapse", !.pc = "lapse", !.held = held]
<1>3. g \in Frame
  BY DEF Frame, Ops, PCs
<1>4. FrameOK(g)
  BY <1>1 DEF FrameOK, OpOK, HeldOK, RunOK, DecideOK, OverrideOK, PullOK, RunOps, Frame
<1>5. Continue(p, g)
  BY <1>1, <1>2 DEF StartExpire
<1> QED BY <1>3, <1>4, <1>5, LocalStep DEF StartExpire, IInv, TypeOK

\* Expiring a request keeps IInv.
LEMMA ExpireOneStep == ASSUME IInv, NEW p \in Procs, ExpireOne(p) PROVE IInv'
<1>0. PICK f \in Frame : f = frames[p] /\ FrameOK(f) /\ f.pc = "lapse"
  BY HandlerFrame DEF ExpireOne, At
<1>1. PICK a \in f.held :
       /\ approvals' = [approvals EXCEPT ![a].status = "EXPIRED"]
       /\ Continue(p, [f EXCEPT !.pc = IF f.held = {a} THEN "idle" ELSE "lapse", !.held = @ \ {a}])
  BY <1>0 DEF ExpireOne
<1>2. a \in Approvals
  BY <1>1 DEF Frame
<1>3. PICK held \in SUBSET Approvals : held = f.held \ {a}
  BY DEF Frame
<1>4. PICK pc \in PCs : pc \in {"idle", "lapse"} /\ pc = IF f.held = {a} THEN "idle" ELSE "lapse"
  BY DEF PCs
<1> DEFINE g == [f EXCEPT !.pc = pc, !.held = held]
<1>5. g \in Frame
  BY DEF Frame
<1>6. FrameOK(g)
  BY <1>0, <1>4 DEF FrameOK, OpOK, HeldOK, RunOK, DecideOK, OverrideOK, PullOK, RunOps, Frame
<1>7. Continue(p, g)
  BY <1>1, <1>3, <1>4
<1> QED BY <1>1, <1>2, <1>5, <1>6, <1>7, SettleStep DEF ExpireOne

-----------------------------------------------------------------------------
\* A decision starts from the request it read.
LEMMA StartDecideStep == ASSUME IInv, NEW p \in Procs, StartDecide(p) PROVE IInv'
<1>1. PICK f \in Frame : f = IdleFrame /\ FrameOK(f) /\ f.seen = {} /\ f.rule = None
  BY IdleFields
<1>2. PICK a \in Approvals, way \in {"approve", "reject"} :
       /\ approvals[a].status = "PENDING"
       /\ Continue(p, [f EXCEPT !.op = "decide", !.apr = a, !.inv = approvals[a].inv,
                         !.alert = approvals[a].alert, !.action = approvals[a].action,
                         !.ip = approvals[a].ip, !.yes = (way = "approve"),
                         !.pc = IF way = "approve" THEN "exec" ELSE "reject"])
  BY <1>1 DEF StartDecide
<1>3. approvals[a] \in ApprovalRecord
  BY DEF IInv, TypeOK
<1>4. PICK action \in Actions, ip \in IPs \cup {None}, al \in Alerts \cup {None}, i \in Invs \cup {None} :
        /\ action = approvals[a].action /\ ip = approvals[a].ip
        /\ al = approvals[a].alert /\ i = approvals[a].inv
  BY <1>3 DEF ApprovalRecord
<1>5. PICK pc \in PCs, yes \in BOOLEAN :
        /\ pc = IF way = "approve" THEN "exec" ELSE "reject"
        /\ yes = (way = "approve")
        /\ \/ pc = "exec" /\ yes = TRUE
           \/ pc = "reject" /\ yes = FALSE
  BY DEF PCs
<1> DEFINE g == [f EXCEPT !.op = "decide", !.apr = a, !.inv = i, !.alert = al, !.action = action,
                          !.ip = ip, !.yes = yes, !.pc = pc]
<1>6. g \in Frame
  BY DEF Frame, Ops
<1>7. i # None => /\ al \in Alerts /\ invs[i].alert = al
                  /\ ~Llm => ip \in Parties(al)
  BY <1>4 DEF IInv, StoreOK, ApprovalsOK
<1>8. FrameOK(g)
  BY <1>1, <1>2, <1>4, <1>5, <1>7, ResponseAssumption DEF FrameOK, OpOK, HeldOK, RunOK,
     DecideOK, OverrideOK,
     PullOK, RunOps, Frame
<1>9. Continue(p, g)
  BY <1>2, <1>4, <1>5
<1> QED BY <1>6, <1>8, <1>9, LocalStep DEF StartDecide, IInv, TypeOK

\* Rejecting a request keeps IInv.
LEMMA DecideRejectStep == ASSUME IInv, NEW p \in Procs, DecideReject(p) PROVE IInv'
<1>0. PICK f \in Frame : f = frames[p] /\ FrameOK(f) /\ f.pc = "reject"
  BY HandlerFrame DEF DecideReject, At
<1> DEFINE g == [f EXCEPT !.pc = "reflect"]
<1>1. g \in Frame
  BY DEF Frame, PCs
<1>2. f.apr \in Approvals /\ f.op = "decide"
  BY <1>0 DEF FrameOK, OpOK, DecideOK, Frame
<1>3. FrameOK(g)
  BY <1>0, <1>2 DEF FrameOK, OpOK, HeldOK, RunOK, DecideOK, OverrideOK, PullOK, RunOps, Frame
<1> QED BY <1>0, <1>1, <1>2, <1>3, SettleStep DEF DecideReject

\* A request whose rule was refused keeps IInv.
LEMMA DecideFailStep == ASSUME IInv, NEW p \in Procs, DecideFail(p) PROVE IInv'
<1>0. PICK f \in Frame : f = frames[p] /\ FrameOK(f) /\ f.pc = "fail"
  BY HandlerFrame DEF DecideFail, At
<1>1. f.apr \in Approvals
  BY <1>0 DEF FrameOK, OpOK, DecideOK, Frame
<1>2. Continue(p, IdleFrame)
  BY <1>0, ReturnFrame DEF DecideFail
<1> QED BY <1>0, <1>1, <1>2, IdleFrameOK, SettleStep DEF DecideFail

\* An approval names the rule that does what was asked.
LEMMA DecideApproveStep == ASSUME IInv, NEW p \in Procs, DecideApprove(p) PROVE IInv'
<1>0. PICK f \in Frame : f = frames[p] /\ FrameOK(f) /\ f.pc = "approve"
  BY HandlerFrame DEF DecideApprove, At
<1>1. f.op = "decide" /\ f.yes
  BY <1>0 DEF FrameOK, OpOK, DecideOK
<1>2. PICK a \in Approvals : a = f.apr
  BY <1>0, <1>1 DEF FrameOK, DecideOK, Frame
<1>3. PICK r \in Rules : /\ r = f.rule /\ Present(r)
                         /\ rules[r].action = approvals[a].action /\ rules[r].ip = approvals[a].ip
  BY <1>0, <1>1, <1>2 DEF FrameOK, DecideOK, HeldOK, Frame
<1>4. PICK rec \in ApprovalRecord : rec = [approvals[a] EXCEPT !.status = "APPROVED", !.rule = r]
  BY DEF ApprovalRecord, IInv, TypeOK
<1>5. approvals' = [approvals EXCEPT ![a] = rec]
  BY <1>0, <1>2, <1>3, <1>4 DEF DecideApprove, IInv, TypeOK
<1>6. approvals' \in [Approvals -> ApprovalRecord] /\ \A b \in Approvals \ {a} : approvals'[b] = approvals[b]
  BY <1>5 DEF IInv, TypeOK
<1>7. /\ approvals'[a].status = "APPROVED" /\ approvals'[a].action = approvals[a].action
      /\ approvals'[a].ip = approvals[a].ip /\ approvals'[a].alert = approvals[a].alert
      /\ approvals'[a].inv = approvals[a].inv /\ approvals'[a].rule = r
  BY <1>4, <1>5 DEF IInv, TypeOK, ApprovalRecord
<1> DEFINE g == [f EXCEPT !.pc = "reflect"]
<1>8. g \in Frame
  BY DEF Frame, PCs
<1>9. FrameOK(g)
  BY <1>0, <1>1 DEF FrameOK, OpOK, HeldOK, RunOK, DecideOK, OverrideOK, PullOK, RunOps, Frame
<1>10. Continue(p, g)
  BY <1>0 DEF DecideApprove
<1>11. r # None /\ UNCHANGED <<rules, invs, alerts, faults, confirmed>>
  BY ResponseAssumption DEF DecideApprove
<1> QED BY <1>3, <1>6, <1>7, <1>8, <1>9, <1>10, <1>11, RequestStep

\* Rewriting the timeline of the investigation a decision belongs to keeps IInv.
LEMMA ReflectReadStep == ASSUME IInv, NEW p \in Procs, ReflectRead(p) PROVE IInv'
<1>0. PICK f \in Frame : f = frames[p] /\ FrameOK(f) /\ f.pc = "reflect"
  BY HandlerFrame DEF ReflectRead, At
<1>a. f.op = "decide"
  BY <1>0 DEF FrameOK, OpOK
<1>1. CASE Recorded(f.inv)
  <2>1. PICK held \in SUBSET Approvals : held = invs[f.inv].waiting
    BY <1>1 DEF Recorded, Frame, IInv, TypeOK, InvRecord
  <2> DEFINE g == [f EXCEPT !.pc = "rewrite", !.held = held]
  <2>2. g \in Frame
    BY DEF Frame, PCs
  <2>3. FrameOK(g)
    BY <1>0, <1>a, <1>1 DEF Recorded, FrameOK, OpOK, HeldOK, RunOK, DecideOK, OverrideOK,
       PullOK, RunOps, Frame
  <2>4. Continue(p, g)
    BY <1>0, <1>1, <2>1 DEF ReflectRead
  <2> QED BY <2>2, <2>3, <2>4, LocalStep DEF ReflectRead, IInv, TypeOK
<1>2. CASE ~Recorded(f.inv)
  <2>1. PICK pc \in PCs : pc \in {"dec_inv", "idle"} /\ pc = AfterReflect(f)
    BY DEF PCs, AfterReflect
  <2> DEFINE g == [f EXCEPT !.pc = pc]
  <2>2. g \in Frame
    BY DEF Frame
  <2>3. FrameOK(g)
    BY <1>0, <1>a, <2>1 DEF AfterReflect, Contained, FrameOK, OpOK, HeldOK, RunOK, DecideOK,
       OverrideOK, PullOK, RunOps, Frame
  <2>4. Continue(p, g)
    BY <1>0, <1>2, <2>1 DEF ReflectRead
  <2> QED BY <2>2, <2>3, <2>4, LocalStep DEF ReflectRead, IInv, TypeOK
<1> QED BY <1>1, <1>2

\* Writing the timeline keeps IInv.
LEMMA ReflectWriteStep == ASSUME IInv, NEW p \in Procs, ReflectWrite(p) PROVE IInv'
<1>0. PICK f \in Frame : f = frames[p] /\ FrameOK(f) /\ f.pc = "rewrite"
  BY HandlerFrame DEF ReflectWrite, At
<1>a. f.op = "decide"
  BY <1>0 DEF FrameOK, OpOK
<1>1. PICK i \in Invs : i = f.inv /\ invs[i].alert \in Alerts
  BY <1>0, <1>a DEF FrameOK, DecideOK, Frame
<1>2. PICK waiting \in SUBSET Approvals : waiting = f.held \ {f.apr}
  BY DEF Frame
<1>3. PICK rec \in InvRecord : rec = [invs[i] EXCEPT !.waiting = waiting]
  BY DEF InvRecord, IInv, TypeOK
<1>4. invs' = [invs EXCEPT ![i] = rec]
  BY <1>0, <1>1, <1>2, <1>3 DEF ReflectWrite, IInv, TypeOK
<1>5. /\ invs' \in [Invs -> InvRecord] /\ \A j \in Invs \ {i} : invs'[j] = invs[j]
      /\ invs'[i].alert = invs[i].alert
  BY <1>3, <1>4 DEF IInv, TypeOK, InvRecord
<1>6. PICK pc \in PCs : pc \in {"relink", "idle"} /\ pc = IF f.yes THEN "relink" ELSE "idle"
  BY DEF PCs
<1> DEFINE g == [f EXCEPT !.pc = pc]
<1>7. g \in Frame
  BY DEF Frame
<1>8. FrameOK(g)
  BY <1>0, <1>a, <1>6 DEF FrameOK, OpOK, HeldOK, RunOK, DecideOK, OverrideOK, PullOK, RunOps, Frame
<1>9. Continue(p, g)
  BY <1>0, <1>6 DEF ReflectWrite
<1> QED BY <1>1, <1>5, <1>7, <1>8, <1>9, InvStep DEF ReflectWrite

\* The rule of a decision is linked to the investigation that asked for it.
LEMMA ReflectLinkStep == ASSUME IInv, NEW p \in Procs, ReflectLink(p) PROVE IInv'
<1>0. PICK f \in Frame : f = frames[p] /\ FrameOK(f) /\ f.pc = "relink"
  BY HandlerFrame DEF ReflectLink, At
<1>a. f.op = "decide"
  BY <1>0 DEF FrameOK, OpOK
<1>1. PICK i \in Invs : /\ i = f.inv /\ invs[i].alert \in Alerts
                        /\ ~Llm => f.ip \in Parties(invs[i].alert)
  BY <1>0, <1>a DEF FrameOK, DecideOK, Frame
<1>2. PICK r \in Rules : r = f.rule /\ Present(r) /\ rules[r].ip = f.ip
  BY <1>0, <1>a DEF FrameOK, DecideOK, HeldOK, Frame
<1>3. PICK pc \in PCs : pc \in {"dec_inv", "idle"} /\ pc = AfterReflect(f)
  BY DEF PCs, AfterReflect
<1> DEFINE g == [f EXCEPT !.pc = pc]
<1>4. g \in Frame
  BY DEF Frame
<1>5. FrameOK(g)
  BY <1>0, <1>a, <1>3 DEF AfterReflect, Contained, FrameOK, OpOK, HeldOK, RunOK, DecideOK,
     OverrideOK, PullOK, RunOps, Frame
<1>6. Continue(p, g)
  BY <1>0, <1>3 DEF ReflectLink
<1> QED BY <1>0, <1>1, <1>2, <1>4, <1>5, <1>6, LinkStep DEF ReflectLink

\* Only a decision whose rule was confirmed goes on to the alert.
LEMMA DecideInvStep == ASSUME IInv, NEW p \in Procs, DecideInv(p) PROVE IInv'
<1>0. PICK f \in Frame : f = frames[p] /\ FrameOK(f) /\ f.pc = "dec_inv"
  BY HandlerFrame DEF DecideInv, At
<1>a. f.op = "decide"
  BY <1>0 DEF FrameOK, OpOK
<1>1. PICK pc \in PCs :
        /\ pc \in {"dec_alert", "idle"}
        /\ pc = IF Recorded(f.inv) /\ invs[f.inv].outcome = "ATTACK_SUCCEEDED" THEN "dec_alert" ELSE "idle"
  BY DEF PCs
<1>2. ConfirmedOn(f.ip)
  BY <1>0, <1>a DEF FrameOK, HeldOK, DecideOK
<1>3. f.inv # None => f.alert \in Alerts /\ ConfirmedFor(f.alert)
  BY <1>0, <1>2, <1>a DEF FrameOK, DecideOK, ConfirmedOn, ConfirmedFor
<1> DEFINE g == [f EXCEPT !.pc = pc]
<1>4. g \in Frame
  BY DEF Frame
<1>5. FrameOK(g)
  BY <1>0, <1>a, <1>1, <1>3 DEF Recorded, FrameOK, OpOK, HeldOK, RunOK, DecideOK, OverrideOK,
     PullOK, RunOps, Frame
<1>6. Continue(p, g)
  BY <1>0, <1>1 DEF DecideInv
<1> QED BY <1>4, <1>5, <1>6, LocalStep DEF DecideInv, IInv, TypeOK

\* Reading the alert of a confirmed decision keeps IInv.
LEMMA DecideAlertStep == ASSUME IInv, NEW p \in Procs, DecideAlert(p) PROVE IInv'
<1>0. PICK f \in Frame : f = frames[p] /\ FrameOK(f) /\ f.pc = "dec_alert"
  BY HandlerFrame DEF DecideAlert, At
<1>1. PICK pc \in PCs :
        /\ pc \in {"dec_contain", "idle"}
        /\ pc = IF alerts[f.alert] = "CONFIRMED" THEN "dec_contain" ELSE "idle"
  BY DEF PCs
<1> DEFINE g == [f EXCEPT !.pc = pc]
<1>2. g \in Frame
  BY DEF Frame
<1>3. FrameOK(g)
  BY <1>0, <1>1 DEF FrameOK, OpOK, HeldOK, RunOK, DecideOK, OverrideOK, PullOK, RunOps, Frame
<1>4. Continue(p, g)
  BY <1>0, <1>1 DEF DecideAlert
<1> QED BY <1>2, <1>3, <1>4, LocalStep DEF DecideAlert, IInv, TypeOK

\* A decision claims containment only for an alert a confirmed rule answers.
LEMMA DecideContainStep == ASSUME IInv, NEW p \in Procs, DecideContain(p) PROVE IInv'
<1>0. PICK f \in Frame : f = frames[p] /\ FrameOK(f) /\ f.pc = "dec_contain"
  BY HandlerFrame DEF DecideContain, At
<1>1. Continue(p, IdleFrame)
  BY <1>0, ReturnFrame DEF DecideContain
<1>2. f.alert \in Alerts /\ ConfirmedFor(f.alert) /\ "CONTAINED" \in AlertStatuses
  BY <1>0 DEF FrameOK, OpOK, DecideOK, AlertStatuses
<1>3. alerts' = [alerts EXCEPT ![f.alert] = "CONTAINED"]
  BY <1>0 DEF DecideContain
<1> QED BY <1>1, <1>2, <1>3, IdleFrameOK, AlertStep DEF DecideContain

-----------------------------------------------------------------------------
\* The steps of an override keep IInv.
LEMMA StartOverrideStep == ASSUME IInv, NEW p \in Procs, StartOverride(p) PROVE IInv'
<1>1. PICK f \in Frame : f = IdleFrame /\ FrameOK(f) /\ f.seen = {} /\ f.apr = None
  BY IdleFields
<1>2. PICK i \in Invs, o \in Outcomes :
       /\ Recorded(i)
       /\ Continue(p, [f EXCEPT !.op = "override", !.pc = "ovr_list", !.inv = i,
                                !.alert = invs[i].alert, !.outcome = o])
  BY <1>1 DEF StartOverride
<1>3. PICK al \in Alerts : al = invs[i].alert
  BY <1>2 DEF Recorded, IInv, StoreOK, InvsOK
<1>a. o # None
  BY ResponseAssumption
<1> DEFINE g == [f EXCEPT !.op = "override", !.pc = "ovr_list", !.inv = i, !.alert = al, !.outcome = o]
<1>4. g \in Frame
  BY DEF Frame, Ops, PCs
<1>5. FrameOK(g)
  BY <1>1, <1>3, <1>a DEF FrameOK, OpOK, HeldOK, RunOK, DecideOK, OverrideOK, PullOK, RunOps, Frame
<1>6. Continue(p, g)
  BY <1>2, <1>3
<1> QED BY <1>4, <1>5, <1>6, LocalStep DEF StartOverride, IInv, TypeOK

\* Which rules an override rolls back, or which address it blocks.
LEMMA OverrideListStep == ASSUME IInv, NEW p \in Procs, OverrideList(p) PROVE IInv'
<1>0. PICK f \in Frame : f = frames[p] /\ FrameOK(f) /\ f.pc = "ovr_list"
  BY HandlerFrame DEF OverrideList, At
<1>a. f.op = "override" /\ f.alert \in Alerts
  BY <1>0 DEF FrameOK, OpOK, OverrideOK
<1>b. PICK attacker \in IPs : attacker = Attacker[f.alert]
  BY <1>a, ResponseAssumption
<1>c. LinkedTo(f.inv) \in SUBSET Rules
  BY DEF LinkedTo
<1>1. PICK R \in SUBSET Rules : R = LinkedTo(f.inv) /\ \A r \in R : Present(r)
  BY <1>c DEF LinkedTo, Active, Present
<1>2. PICK snap \in [Rules -> RuleRecord] :
        /\ snap = Snapshot(R)
        /\ \A s \in Rules : snap[s].enf.status = "ENFORCED" => s \in confirmed
  BY SnapshotOK DEF IInv, StoreOK
<1> DEFINE back  == [f EXCEPT !.pc = "rollback", !.todo = R, !.snap = snap]
           block == [f EXCEPT !.pc = "exec", !.action = "BLOCK", !.ip = attacker]
           write == [f EXCEPT !.pc = "ovr_write"]
<1>d. {"rollback", "exec", "ovr_write"} \subseteq PCs /\ "BLOCK" \in Actions
  BY DEF PCs, Actions
<1>3. back \in Frame /\ block \in Frame /\ write \in Frame
  <2>1. back \in Frame
    BY <1>d DEF Frame
  <2>2. block \in Frame
    BY <1>d DEF Frame
  <2>3. write \in Frame
    BY <1>d DEF Frame
  <2> QED BY <2>1, <2>2, <2>3
<1>4. FrameOK(back)
  BY <1>0, <1>a, <1>1, <1>2 DEF FrameOK, OpOK, HeldOK, RunOK, DecideOK, OverrideOK, PullOK,
     RunOps, Frame
<1>5. FrameOK(write)
  BY <1>0, <1>a DEF FrameOK, OpOK, HeldOK, RunOK, DecideOK, OverrideOK, PullOK, RunOps, Frame
<1>6. FrameOK(block)
  BY <1>0, <1>a, <1>b DEF FrameOK, OpOK, HeldOK, RunOK, DecideOK, OverrideOK, PullOK, RunOps, Frame
<1>7. Continue(p, back) \/ Continue(p, block) \/ Continue(p, write)
  BY <1>0, <1>b, <1>1, <1>2 DEF OverrideList
<1> QED BY <1>3, <1>4, <1>5, <1>6, <1>7, LocalStep DEF OverrideList, IInv, TypeOK

\* Rolling back one rule keeps IInv.
LEMMA RollbackStep == ASSUME IInv, NEW p \in Procs, Rollback(p) PROVE IInv'
<1>0. PICK f \in Frame : f = frames[p] /\ FrameOK(f) /\ f.pc = "rollback"
  BY HandlerFrame DEF Rollback, At
<1>1. PICK r \in f.todo : \E e \in RemoveAnswers(f.snap[r].enf) :
       /\ rules' = [rules EXCEPT ![r].state = "disabled", ![r].enf = e]
       /\ Continue(p, [f EXCEPT !.pc = IF f.todo = {r} THEN "ovr_write" ELSE "rollback",
                                !.todo = @ \ {r}, !.snap[r] = NoRule])
  BY <1>0 DEF Rollback
<1>2. PICK pc \in PCs : /\ pc = IF f.todo = {r} THEN "ovr_write" ELSE "rollback"
                       /\ pc \in {"rollback", "ovr_write"}
  BY DEF PCs
<1> QED BY <1>0, <1>1, <1>2, RemoveListed DEF Rollback

\* Writing the overridden outcome keeps IInv.
LEMMA OverrideWriteStep == ASSUME IInv, NEW p \in Procs, OverrideWrite(p) PROVE IInv'
<1>0. PICK f \in Frame : f = frames[p] /\ FrameOK(f) /\ f.pc = "ovr_write"
  BY HandlerFrame DEF OverrideWrite, At
<1>1. f.op = "override" /\ f.alert \in Alerts /\ f.outcome # None
  BY <1>0 DEF FrameOK, OpOK, OverrideOK
<1>2. PICK i \in Invs : i = f.inv /\ invs[i].alert = f.alert
  BY <1>0, <1>1 DEF FrameOK, OverrideOK
<1>a. PICK o \in Outcomes : o = f.outcome
  BY <1>1 DEF Frame
<1>3. PICK rec \in InvRecord : rec = [invs[i] EXCEPT !.outcome = o]
  BY DEF InvRecord, IInv, TypeOK
<1>4. invs' = [invs EXCEPT ![i] = rec]
  BY <1>0, <1>2, <1>3, <1>a DEF OverrideWrite, IInv, TypeOK
<1>5. /\ invs' \in [Invs -> InvRecord] /\ \A j \in Invs \ {i} : invs'[j] = invs[j]
      /\ invs'[i].alert = invs[i].alert
  BY <1>3, <1>4 DEF IInv, TypeOK, InvRecord
<1> DEFINE g == [f EXCEPT !.pc = "ovr_rule"]
<1>6. g \in Frame
  BY DEF Frame, PCs
<1>7. FrameOK(g)
  BY <1>0, <1>1 DEF FrameOK, OpOK, HeldOK, RunOK, DecideOK, OverrideOK, PullOK, RunOps, Frame
<1>8. Continue(p, g)
  BY <1>0 DEF OverrideWrite
<1> QED BY <1>1, <1>2, <1>5, <1>6, <1>7, <1>8, InvStep DEF OverrideWrite

\* hasRule is true only of an investigation that a confirmed rule answers.
LEMMA OverrideRuleStep == ASSUME IInv, NEW p \in Procs, OverrideRule(p) PROVE IInv'
<1>0. PICK f \in Frame : f = frames[p] /\ FrameOK(f) /\ f.pc = "ovr_rule"
  BY HandlerFrame DEF OverrideRule, At
<1>1. f.op = "override" /\ f.alert \in Alerts /\ f.inv \in Invs /\ invs[f.inv].alert = f.alert
  BY <1>0 DEF FrameOK, OpOK, OverrideOK
<1>2. PICK yes \in BOOLEAN : yes = \E r \in LinkedTo(f.inv) : rules[r].enf.status = "ENFORCED"
  OBVIOUS
<1>3. ASSUME yes PROVE ConfirmedFor(f.alert)
  <2>1. PICK r \in Rules : rules[r].inv = f.inv /\ rules[r].enf.status = "ENFORCED"
    BY <1>2, <1>3 DEF LinkedTo
  <2>2. r \in confirmed /\ (~Llm => rules[r].ip \in Parties(f.alert))
    BY <2>1, <1>1, ResponseAssumption DEF IInv, StoreOK, RulesOK
  <2> QED BY <2>2 DEF ConfirmedFor
<1> DEFINE g == [f EXCEPT !.pc = "ovr_alert", !.yes = yes]
<1>4. g \in Frame
  BY DEF Frame, PCs
<1>5. FrameOK(g)
  BY <1>0, <1>1, <1>3 DEF FrameOK, OpOK, HeldOK, RunOK, DecideOK, OverrideOK, PullOK, RunOps, Frame
<1>6. Continue(p, g)
  BY <1>0, <1>2 DEF OverrideRule
<1> QED BY <1>4, <1>5, <1>6, LocalStep DEF OverrideRule, IInv, TypeOK

\* The status an outcome gives is never CONTAINED.
LEMMA OutcomeStatus ==
  ASSUME NEW o \in Outcomes
  PROVE  OUTCOME_STATUS[o] \in AlertStatuses /\ OUTCOME_STATUS[o] # "CONTAINED"
  BY DEF OUTCOME_STATUS, Outcomes, AlertStatuses

\* An override claims containment only with a rule in force.
LEMMA OverrideAlertStep == ASSUME IInv, NEW p \in Procs, OverrideAlert(p) PROVE IInv'
<1>0. PICK f \in Frame : f = frames[p] /\ FrameOK(f) /\ f.pc = "ovr_alert"
  BY HandlerFrame DEF OverrideAlert, At
<1>1. /\ f.op = "override" /\ f.alert \in Alerts /\ f.outcome \in Outcomes
      /\ f.yes => ConfirmedFor(f.alert)
  BY <1>0 DEF FrameOK, OpOK, OverrideOK, Frame
<1>2. Continue(p, IdleFrame)
  BY <1>0, ReturnFrame DEF OverrideAlert
<1>3. PICK v \in AlertStatuses :
        /\ v = IF f.outcome = "ATTACK_SUCCEEDED" /\ f.yes THEN "CONTAINED" ELSE OUTCOME_STATUS[f.outcome]
        /\ v = "CONTAINED" => f.yes
  BY <1>1, OutcomeStatus DEF AlertStatuses
<1>4. alerts' = [alerts EXCEPT ![f.alert] = v]
  BY <1>0, <1>3 DEF OverrideAlert
<1> QED BY <1>1, <1>2, <1>3, <1>4, IdleFrameOK, AlertStep DEF OverrideAlert

-----------------------------------------------------------------------------
\* An analyst's status change never claims containment.
LEMMA StartStatusStep == ASSUME IInv, NEW p \in Procs, StartStatus(p) PROVE IInv'
<1>1. PICK f \in Frame : f = IdleFrame /\ FrameOK(f) /\ f.seen = {}
  BY IdleFields
<1>2. PICK al \in SUBSET Alerts, st \in {"NEW", "CLOSED", "FALSE_POSITIVE"} :
        Continue(p, [f EXCEPT !.op = "status", !.pc = "set_status",
                         !.targets = {x \in al : alerts[x] # "INVESTIGATING"}, !.status = st])
  BY <1>1 DEF StartStatus
<1>a. {x \in al : alerts[x] # "INVESTIGATING"} \in SUBSET Alerts
  OBVIOUS
<1>3. PICK targets \in SUBSET Alerts : targets = {x \in al : alerts[x] # "INVESTIGATING"}
  BY <1>a
<1> DEFINE g == [f EXCEPT !.op = "status", !.pc = "set_status", !.targets = targets, !.status = st]
<1>b. "set_status" \in PCs /\ st \in AlertStatuses
  BY DEF PCs, AlertStatuses
<1>4. g \in Frame
  BY <1>b DEF Frame, Ops
<1>5. FrameOK(g)
  BY <1>1 DEF FrameOK, OpOK, HeldOK, RunOK, DecideOK, OverrideOK, PullOK, RunOps, Frame
<1>6. Continue(p, g)
  BY <1>2, <1>3
<1> QED BY <1>4, <1>5, <1>6, LocalStep DEF StartStatus, IInv, TypeOK

\* Writing the statuses an analyst asked for keeps IInv.
LEMMA SetStatusStep == ASSUME IInv, NEW p \in Procs, SetStatus(p) PROVE IInv'
<1>0. PICK f \in Frame : f = frames[p] /\ FrameOK(f) /\ f.pc = "set_status"
  BY HandlerFrame DEF SetStatus, At
<1>1. f.status \in AlertStatuses /\ f.status # "CONTAINED"
  BY <1>0 DEF FrameOK, OpOK, Frame
<1>2. Continue(p, IdleFrame)
  BY <1>0, ReturnFrame DEF SetStatus
<1>3. /\ alerts' = [al \in Alerts |-> IF al \in f.targets THEN f.status ELSE alerts[al]]
      /\ UNCHANGED <<rules, approvals, invs, faults, confirmed>>
  BY <1>0 DEF SetStatus
<1>4. alerts' \in [Alerts -> AlertStatuses] /\ \A al \in Alerts : alerts'[al] = "CONTAINED" => alerts[al] = "CONTAINED"
  BY <1>1, <1>3 DEF IInv, TypeOK
<1>5. Grows
  BY <1>3 DEF Grows, Present
<1>6. AlertsOK'
  BY <1>3, <1>4 DEF IInv, StoreOK, AlertsOK, ConfirmedFor, Parties
<1>7. StoreOK'
  BY <1>3, <1>6 DEF IInv, StoreOK, RulesOK, ApprovalsOK, InvsOK, Present
<1> QED BY <1>2, <1>3, <1>4, <1>5, <1>7, IdleFrameOK, IdleFrameOKNext, HandlerStep DEF IInv, TypeOK

-----------------------------------------------------------------------------
\* A run starts with an investigation nobody refers to yet.
LEMMA StartRunStep == ASSUME IInv, NEW p \in Procs, StartRun(p) PROVE IInv'
<1>1. PICK f \in Frame : /\ f = IdleFrame /\ FrameOK(f) /\ f.seen = {} /\ f.mine = {}
                         /\ f.first = None /\ f.rule = None /\ f.todo = {}
                         /\ \A r \in Rules : f.snap[r].enf.status # "ENFORCED"
  BY IdleFields
<1>2. PICK al \in Alerts, i \in Invs :
       /\ invs[i].alert = None
       /\ invs' = [invs EXCEPT ![i].alert = al]
       /\ Continue(p, [f EXCEPT !.op = "run", !.pc = "mark", !.alert = al, !.inv = i])
  BY <1>1 DEF StartRun
<1>3. UNCHANGED <<rules, approvals, alerts, faults, confirmed>>
  BY DEF StartRun
<1>4. PICK rec \in InvRecord : rec = [invs[i] EXCEPT !.alert = al]
  BY DEF InvRecord, IInv, TypeOK
<1>5. invs' = [invs EXCEPT ![i] = rec]
  BY <1>2, <1>4 DEF IInv, TypeOK
<1>6. /\ invs' \in [Invs -> InvRecord] /\ \A j \in Invs \ {i} : invs'[j] = invs[j]
      /\ invs'[i].alert = al /\ invs'[i].outcome = invs[i].outcome
  BY <1>4, <1>5 DEF IInv, TypeOK, InvRecord
<1>7. Grows
  BY <1>2, <1>3, <1>6 DEF Grows, Present
<1>8. \A j \in Invs : invs[j].alert \in Alerts => invs'[j].alert = invs[j].alert
  BY <1>2, <1>6, ResponseAssumption
<1>9. RulesOK'
  <2>1. \A r \in Rules : rules[r].inv # None => rules[r].inv \in Invs
    BY DEF IInv, TypeOK, RuleRecord
  <2> QED BY <1>3, <1>8, <2>1 DEF IInv, StoreOK, RulesOK, Present, Parties
<1>10. ApprovalsOK'
  <2>1. \A a \in Approvals : approvals[a].inv # None => approvals[a].inv \in Invs
    BY DEF IInv, TypeOK, ApprovalRecord
  <2> QED BY <1>3, <1>8, <2>1 DEF IInv, StoreOK, ApprovalsOK, Present, Parties
<1>11. InvsOK'
  BY <1>2, <1>6 DEF IInv, StoreOK, InvsOK
<1>12. StoreOK'
  BY <1>3, <1>9, <1>10, <1>11 DEF IInv, StoreOK, AlertsOK, ConfirmedFor, Parties
<1> DEFINE g == [f EXCEPT !.op = "run", !.pc = "mark", !.alert = al, !.inv = i]
<1>13. g \in Frame
  BY DEF Frame, Ops, PCs
<1>14. FrameOK(g)'
  BY <1>1, <1>6 DEF FrameOK, OpOK, HeldOK, RunOK, DecideOK, OverrideOK, PullOK, RunOps, Frame
<1> QED BY <1>2, <1>3, <1>6, <1>7, <1>12, <1>13, <1>14, HandlerStep DEF IInv, TypeOK

\* Taking an alert into investigation keeps IInv.
LEMMA MarkInvestigatingStep == ASSUME IInv, NEW p \in Procs, MarkInvestigating(p) PROVE IInv'
<1>0. PICK f \in Frame : f = frames[p] /\ FrameOK(f) /\ f.pc = "mark"
  BY HandlerFrame DEF MarkInvestigating, At
<1>1. f.op = "run" /\ f.alert \in Alerts /\ "INVESTIGATING" \in AlertStatuses
  BY <1>0 DEF FrameOK, OpOK, RunOK, RunOps, AlertStatuses
<1>2. /\ alerts' = [alerts EXCEPT ![f.alert] = "INVESTIGATING"]
      /\ UNCHANGED <<rules, approvals, invs, faults, confirmed>>
  BY <1>0 DEF MarkInvestigating
<1>3. CASE Llm /\ Continue(p, [f EXCEPT !.op = "llm", !.pc = "llm"])
  <2> DEFINE g == [f EXCEPT !.op = "llm", !.pc = "llm"]
  <2>1. g \in Frame
    BY DEF Frame, Ops, PCs
  <2>2. FrameOK(g)
    BY <1>0, <1>1, <1>3 DEF FrameOK, OpOK, HeldOK, RunOK, DecideOK, OverrideOK, PullOK, RunOps,
       Frame
  <2> QED BY <1>1, <1>2, <1>3, <2>1, <2>2, AlertStep
<1>4. CASE Continue(p, [f EXCEPT !.pc = "decide"])
  <2> DEFINE g == [f EXCEPT !.pc = "decide"]
  <2>1. g \in Frame
    BY DEF Frame, PCs
  <2>2. FrameOK(g)
    BY <1>0, <1>1 DEF FrameOK, OpOK, HeldOK, RunOK, DecideOK, OverrideOK, PullOK, RunOps, Frame
  <2> QED BY <1>1, <1>2, <1>4, <2>1, <2>2, AlertStep
<1> QED BY <1>0, <1>3, <1>4 DEF MarkInvestigating

\* The playbook's verdict and plan.
LEMMA RunDecideStep == ASSUME IInv, NEW p \in Procs, RunDecide(p) PROVE IInv'
<1>0. PICK f \in Frame : f = frames[p] /\ FrameOK(f) /\ f.pc = "decide"
  BY HandlerFrame DEF RunDecide, At
<1>1. f.op \in RunOps /\ f.alert \in Alerts
  BY <1>0 DEF FrameOK, OpOK, RunOK
<1>2. PICK o \in Outcomes, yes \in Executes(TRUE) : \E plan \in Plans(o, f.alert) :
        Continue(p, [f EXCEPT !.op = "run", !.pc = "contain", !.outcome = o, !.plan = plan,
                              !.yes = yes, !.seen = {}])
  BY <1>0 DEF RunDecide
<1>3. yes \in BOOLEAN
  BY <1>2, ResponseAssumption DEF Executes
<1>4. Plans(o, f.alert) \subseteq SUBSET Actions
  BY DEF Plans, Actions
<1>5. PICK plan \in SUBSET Actions :
        Continue(p, [f EXCEPT !.op = "run", !.pc = "contain", !.outcome = o, !.plan = plan,
                              !.yes = yes, !.seen = {}])
  BY <1>2, <1>4
<1> DEFINE g == [f EXCEPT !.op = "run", !.pc = "contain", !.outcome = o, !.plan = plan,
                          !.yes = yes, !.seen = {}]
<1>b. "run" \in Ops /\ "contain" \in PCs
  BY DEF Ops, PCs
<1>6. g \in Frame
  <2>1. PICK b \in BOOLEAN : b = yes
    BY <1>3
  <2>2. [f EXCEPT !.op = "run", !.pc = "contain", !.outcome = o, !.plan = plan,
                  !.yes = b, !.seen = {}] \in Frame
    BY <1>b DEF Frame
  <2> QED BY <2>1, <2>2
<1>7. o # None
  BY ResponseAssumption
<1>8. FrameOK(g)
  BY <1>0, <1>1, <1>7 DEF FrameOK, OpOK, HeldOK, RunOK, DecideOK, OverrideOK, PullOK, RunOps, Frame
<1> QED BY <1>5, <1>6, <1>8, LocalStep DEF RunDecide, IInv, TypeOK

\* The playbook acts on the parties of its alert.
LEMMA RunContainStep == ASSUME IInv, NEW p \in Procs, RunContain(p) PROVE IInv'
<1>0. PICK f \in Frame : f = frames[p] /\ FrameOK(f) /\ f.pc = "contain"
  BY HandlerFrame DEF RunContain, At
<1>1. f.op = "run" /\ f.alert \in Alerts
  BY <1>0 DEF FrameOK, OpOK, RunOK, RunOps
<1> DEFINE a == NextInPlan(f.plan)
<1>2. PICK ip \in IPs : /\ ip = IF a = "BLOCK" THEN Attacker[f.alert] ELSE Host[f.alert]
                        /\ ip \in Parties(f.alert)
  BY <1>1, ResponseAssumption DEF Parties
<1>3. PICK action \in Actions : action = a
  BY DEF NextInPlan, Actions
<1>4. PICK plan \in SUBSET Actions : plan = f.plan \ {a}
  BY DEF Frame
<1>5. PICK pc \in PCs : pc \in {"exec", "request"} /\ pc = IF f.yes THEN "exec" ELSE "request"
  BY DEF PCs
<1> HIDE DEF a
<1> DEFINE g == [f EXCEPT !.pc = pc, !.plan = plan, !.action = action, !.ip = ip]
<1>6. g \in Frame
  BY DEF Frame
<1>7. FrameOK(g)
  BY <1>0, <1>1, <1>2, <1>5 DEF FrameOK, OpOK, HeldOK, RunOK, DecideOK, OverrideOK, PullOK,
     RunOps, Frame
<1>8. Continue(p, [f EXCEPT !.pc = IF f.yes THEN "exec" ELSE "request", !.plan = @ \ {a},
                           !.action = a,
                           !.ip = IF a = "BLOCK" THEN Attacker[f.alert] ELSE Host[f.alert]])
  BY <1>0 DEF RunContain, a
<1>9. Continue(p, g)
  BY <1>8, <1>2, <1>3, <1>4, <1>5
<1> QED BY <1>6, <1>7, <1>9, LocalStep DEF RunContain, IInv, TypeOK

\* The read-back of a run is of the first address it acted on.
LEMMA RunVerifyStep == ASSUME IInv, NEW p \in Procs, RunVerify(p) PROVE IInv'
<1>0. PICK f \in Frame : f = frames[p] /\ FrameOK(f) /\ f.pc = "contain"
  BY HandlerFrame DEF RunVerify, At
<1>1. f.op = "run" /\ f.alert \in Alerts
  BY <1>0 DEF FrameOK, OpOK, RunOK, RunOps
<1>2. CASE f.first = None
  <2> DEFINE g == [f EXCEPT !.pc = "finish"]
  <2>1. g \in Frame
    BY DEF Frame, PCs
  <2>2. FrameOK(g)
    BY <1>0, <1>1 DEF FrameOK, OpOK, HeldOK, RunOK, DecideOK, OverrideOK, PullOK, RunOps, Frame
  <2>3. Continue(p, g)
    BY <1>0, <1>2 DEF RunVerify
  <2> QED BY <2>1, <2>2, <2>3, LocalStep DEF RunVerify, IInv, TypeOK
<1>3. CASE f.first # None
  <2>1. PICK ip \in IPs : ip = f.first
    BY <1>3 DEF Frame
  <2> DEFINE g == [f EXCEPT !.pc = "verify", !.ip = ip, !.yes = TRUE]
  <2>2. g \in Frame
    BY DEF Frame, PCs
  <2>3. FrameOK(g)
    BY <1>0, <1>1, <1>3, <2>1 DEF FrameOK, OpOK, HeldOK, RunOK, DecideOK, OverrideOK, PullOK,
       RunOps, Frame
  <2>4. Continue(p, g)
    BY <1>0, <1>3, <2>1 DEF RunVerify
  <2> QED BY <2>2, <2>3, <2>4, LocalStep DEF RunVerify, IInv, TypeOK
<1> QED BY <1>2, <1>3

\* Repeating the read-back, or going on, keeps IInv.
LEMMA RunVerifiedStep == ASSUME IInv, NEW p \in Procs, RunVerified(p) PROVE IInv'
<1>0. PICK f \in Frame : f = frames[p] /\ FrameOK(f) /\ f.pc = "verified"
  BY HandlerFrame DEF RunVerified, At
<1>1. f.op = "run"
  BY <1>0 DEF FrameOK, OpOK
<1>2. CASE Continue(p, [f EXCEPT !.pc = "verify", !.yes = FALSE])
  <2> DEFINE g == [f EXCEPT !.pc = "verify", !.yes = FALSE]
  <2>1. g \in Frame
    BY DEF Frame, PCs
  <2>2. FrameOK(g)
    BY <1>0, <1>1 DEF FrameOK, OpOK, HeldOK, RunOK, DecideOK, OverrideOK, PullOK, RunOps, Frame
  <2> QED BY <1>2, <2>1, <2>2, LocalStep DEF RunVerified, IInv, TypeOK
<1>3. CASE Continue(p, [f EXCEPT !.pc = "finish"])
  <2> DEFINE g == [f EXCEPT !.pc = "finish"]
  <2>1. g \in Frame
    BY DEF Frame, PCs
  <2>2. FrameOK(g)
    BY <1>0, <1>1 DEF FrameOK, OpOK, HeldOK, RunOK, DecideOK, OverrideOK, PullOK, RunOps, Frame
  <2> QED BY <1>3, <2>1, <2>2, LocalStep DEF RunVerified, IInv, TypeOK
<1> QED BY <1>0, <1>2, <1>3 DEF RunVerified

-----------------------------------------------------------------------------
\* What the language model asks for keeps IInv.
LEMMA LlmContainStep == ASSUME IInv, NEW p \in Procs, LlmContain(p) PROVE IInv'
<1>0. PICK f \in Frame : f = frames[p] /\ FrameOK(f) /\ f.pc = "llm"
  BY HandlerFrame DEF LlmContain, At
<1>1. f.op = "llm" /\ Llm
  BY <1>0 DEF FrameOK, OpOK
<1>2. PICK action \in Actions, ip \in IPs, yes \in Executes(FALSE) :
        Continue(p, [f EXCEPT !.pc = IF yes THEN "exec" ELSE "request", !.action = action, !.ip = ip])
  BY <1>0 DEF LlmContain
<1>3. PICK pc \in PCs : pc \in {"exec", "request"} /\ pc = IF yes THEN "exec" ELSE "request"
  BY DEF PCs
<1> DEFINE g == [f EXCEPT !.pc = pc, !.action = action, !.ip = ip]
<1>4. g \in Frame
  BY DEF Frame
<1>5. ("ENFORCED" \in f.seen) => ConfirmedOn(ip)
  BY <1>0, <1>1 DEF FrameOK, HeldOK, ConfirmedOn
<1>6. FrameOK(g)
  BY <1>0, <1>1, <1>3, <1>5 DEF FrameOK, OpOK, HeldOK, RunOK, DecideOK, OverrideOK, PullOK,
     RunOps, Frame
<1>7. Continue(p, g)
  BY <1>2, <1>3
<1> QED BY <1>4, <1>6, <1>7, LocalStep DEF LlmContain, IInv, TypeOK

\* A read-back the model asks for keeps IInv.
LEMMA LlmVerifyStep == ASSUME IInv, NEW p \in Procs, LlmVerify(p) PROVE IInv'
<1>0. PICK f \in Frame : f = frames[p] /\ FrameOK(f) /\ f.pc = "llm"
  BY HandlerFrame DEF LlmVerify, At
<1>1. f.op = "llm" /\ Llm
  BY <1>0 DEF FrameOK, OpOK
<1>2. PICK ip \in IPs : Continue(p, [f EXCEPT !.pc = "verify", !.ip = ip])
  BY <1>0 DEF LlmVerify
<1> DEFINE g == [f EXCEPT !.pc = "verify", !.ip = ip]
<1>3. g \in Frame
  BY DEF Frame, PCs
<1>4. ("ENFORCED" \in f.seen) => ConfirmedOn(ip)
  BY <1>0, <1>1 DEF FrameOK, HeldOK, ConfirmedOn
<1>5. FrameOK(g)
  BY <1>0, <1>1, <1>4 DEF FrameOK, OpOK, HeldOK, RunOK, DecideOK, OverrideOK, PullOK, RunOps, Frame
<1> QED BY <1>2, <1>3, <1>5, LocalStep DEF LlmVerify, IInv, TypeOK

\* Listing the rules the model wants removed keeps IInv.
LEMMA LlmUnblockStep == ASSUME IInv, NEW p \in Procs, LlmUnblock(p) PROVE IInv'
<1>0. PICK f \in Frame : f = frames[p] /\ FrameOK(f) /\ f.pc = "llm"
  BY HandlerFrame DEF LlmUnblock, At
<1>1. f.op = "llm" /\ Llm
  BY <1>0 DEF FrameOK, OpOK
<1>2. PICK ip \in IPs : Continue(p, [f EXCEPT !.pc = "unblock", !.todo = ActiveFor(ip),
                                              !.snap = Snapshot(ActiveFor(ip))])
  BY <1>0 DEF LlmUnblock
<1>a. ActiveFor(ip) \in SUBSET Rules
  BY DEF ActiveFor
<1>3. PICK R \in SUBSET Rules : R = ActiveFor(ip) /\ \A r \in R : Present(r)
  BY <1>a DEF ActiveFor, Active, Present
<1>4. PICK snap \in [Rules -> RuleRecord] :
        /\ snap = Snapshot(R)
        /\ \A r \in Rules : snap[r].enf.status = "ENFORCED" => r \in confirmed
  BY SnapshotOK DEF IInv, StoreOK
<1> DEFINE g == [f EXCEPT !.pc = "unblock", !.todo = R, !.snap = snap]
<1>5. g \in Frame
  BY DEF Frame, PCs
<1>6. FrameOK(g)
  BY <1>0, <1>1, <1>3, <1>4 DEF FrameOK, OpOK, HeldOK, RunOK, DecideOK, OverrideOK, PullOK,
     RunOps, Frame
<1>7. Continue(p, g)
  BY <1>2, <1>3, <1>4
<1> QED BY <1>5, <1>6, <1>7, LocalStep DEF LlmUnblock, IInv, TypeOK

\* Removing one of them keeps IInv.
LEMMA UnblockStep == ASSUME IInv, NEW p \in Procs, Unblock(p) PROVE IInv'
<1>0. PICK f \in Frame : f = frames[p] /\ FrameOK(f) /\ f.pc = "unblock"
  BY HandlerFrame DEF Unblock, At
<1>1. PICK r \in f.todo : \E e \in RemoveAnswers(f.snap[r].enf) :
       /\ rules' = [rules EXCEPT ![r].state = "disabled", ![r].enf = e]
       /\ Continue(p, [f EXCEPT !.pc = IF f.todo = {r} THEN "llm" ELSE "unblock",
                                !.todo = @ \ {r}, !.snap[r] = NoRule])
  BY <1>0 DEF Unblock
<1>2. PICK pc \in PCs : /\ pc = IF f.todo = {r} THEN "llm" ELSE "unblock"
                       /\ pc \in {"unblock", "llm"}
  BY DEF PCs
<1> QED BY <1>0, <1>1, <1>2, RemoveListed DEF Unblock

\* A verdict of the model keeps IInv.
LEMMA LlmVerdictStep == ASSUME IInv, NEW p \in Procs, LlmVerdict(p) PROVE IInv'
<1>0. PICK f \in Frame : f = frames[p] /\ FrameOK(f) /\ f.pc = "llm"
  BY HandlerFrame DEF LlmVerdict, At
<1>1. PICK o \in Outcomes : Continue(p, [f EXCEPT !.outcome = o])
  BY <1>0 DEF LlmVerdict
<1>2. f.op = "llm"
  BY <1>0 DEF FrameOK, OpOK
<1> DEFINE g == [f EXCEPT !.outcome = o]
<1>3. g \in Frame
  BY DEF Frame
<1>4. FrameOK(g)
  BY <1>0, <1>2 DEF FrameOK, OpOK, HeldOK, RunOK, DecideOK, OverrideOK, PullOK, RunOps, Frame
<1> QED BY <1>1, <1>3, <1>4, LocalStep DEF LlmVerdict, IInv, TypeOK

\* The model ends with a verdict.
LEMMA LlmEndStep == ASSUME IInv, NEW p \in Procs, LlmEnd(p) PROVE IInv'
<1>0. PICK f \in Frame : f = frames[p] /\ FrameOK(f) /\ f.pc = "llm" /\ f.outcome # None
  BY HandlerFrame DEF LlmEnd, At
<1>1. f.op = "llm" /\ Llm
  BY <1>0 DEF FrameOK, OpOK
<1> DEFINE g == [f EXCEPT !.pc = "finish"]
<1>2. g \in Frame
  BY DEF Frame, PCs
<1>3. FrameOK(g)
  BY <1>0, <1>1 DEF FrameOK, OpOK, HeldOK, RunOK, DecideOK, OverrideOK, PullOK, RunOps, Frame
<1>4. Continue(p, g)
  BY <1>0 DEF LlmEnd
<1> QED BY <1>2, <1>3, <1>4, LocalStep DEF LlmEnd, IInv, TypeOK

\* Handing over to the playbook, by the model or after one of its calls failed.
LEMMA FallbackOK ==
  ASSUME NEW f \in Frame, FrameOK(f), f.op = "llm"
  PROVE  [f EXCEPT !.pc = "decide"] \in Frame /\ FrameOK([f EXCEPT !.pc = "decide"])
<1>1. [f EXCEPT !.pc = "decide"] \in Frame
  BY DEF Frame, PCs
<1>2. FrameOK([f EXCEPT !.pc = "decide"])
  BY DEF FrameOK, OpOK, HeldOK, RunOK, DecideOK, OverrideOK, PullOK, RunOps, Frame
<1> QED BY <1>1, <1>2

\* The playbook takes over with what the model applied.
LEMMA LlmFallbackStep == ASSUME IInv, NEW p \in Procs, LlmFallback(p) PROVE IInv'
<1>0. PICK f \in Frame : f = frames[p] /\ FrameOK(f) /\ f.pc = "llm"
  BY HandlerFrame DEF LlmFallback, At
<1>1. f.op = "llm"
  BY <1>0 DEF FrameOK, OpOK
<1>2. Continue(p, [f EXCEPT !.pc = "decide"])
  BY <1>0 DEF LlmFallback
<1> QED BY <1>0, <1>1, <1>2, FallbackOK, LocalStep DEF LlmFallback, IInv, TypeOK

-----------------------------------------------------------------------------
\* Closing an investigation keeps IInv.
LEMMA FinishStep == ASSUME IInv, NEW p \in Procs, Finish(p) PROVE IInv'
<1>0. PICK f \in Frame : f = frames[p] /\ FrameOK(f) /\ f.pc = "finish"
  BY HandlerFrame DEF Finish, At
<1>1. f.op \in RunOps /\ f.alert \in Alerts
  BY <1>0 DEF FrameOK, OpOK, RunOK
<1>2. PICK i \in Invs, o \in Outcomes : i = f.inv /\ invs[i].alert = f.alert /\ o = f.outcome
  BY <1>0, <1>1 DEF FrameOK, RunOK, Frame
<1>3. PICK held \in SUBSET Approvals : held = f.held
  BY DEF Frame
<1>4. PICK rec \in InvRecord : rec = [invs[i] EXCEPT !.outcome = o, !.waiting = held]
  BY DEF InvRecord, IInv, TypeOK
<1>5. invs' = [invs EXCEPT ![i] = rec]
  BY <1>0, <1>2, <1>3, <1>4 DEF Finish, IInv, TypeOK
<1>6. /\ invs' \in [Invs -> InvRecord] /\ \A j \in Invs \ {i} : invs'[j] = invs[j]
      /\ invs'[i].alert = invs[i].alert
  BY <1>4, <1>5 DEF IInv, TypeOK, InvRecord
<1>7. PICK pc \in PCs : pc \in {"close", "link"} /\ pc = IF f.mine = {} THEN "close" ELSE "link"
  BY DEF PCs
<1>8. PICK mine \in SUBSET Rules : mine = f.mine
  BY DEF Frame
<1> DEFINE g == [f EXCEPT !.pc = pc, !.todo = mine]
<1>9. g \in Frame
  BY DEF Frame
<1>10. FrameOK(g)
  BY <1>0, <1>1, <1>7, <1>8 DEF FrameOK, OpOK, HeldOK, RunOK, DecideOK, OverrideOK, PullOK,
     RunOps, Frame
<1>11. Continue(p, g)
  BY <1>0, <1>7, <1>8 DEF Finish
<1> QED BY <1>1, <1>2, <1>6, <1>9, <1>10, <1>11, InvStep DEF Finish

\* A run that is done with linking a rule.
LEMMA LinkedOK ==
  ASSUME NEW f \in Frame, FrameOK(f), f.pc = "link", NEW r \in f.todo
  PROVE  Linked(f, r) \in Frame /\ FrameOK(Linked(f, r))
<1>1. f.op \in RunOps
  BY DEF FrameOK, OpOK
<1>2. PICK pc \in PCs : pc \in {"close", "link"} /\ pc = IF f.todo = {r} THEN "close" ELSE "link"
  BY DEF PCs
<1>3. PICK todo \in SUBSET Rules : todo = f.todo \ {r}
  BY DEF Frame
<1> DEFINE g == [f EXCEPT !.pc = pc, !.todo = todo]
<1>4. g \in Frame
  BY DEF Frame
<1>5. FrameOK(g)
  BY <1>1, <1>2, <1>3 DEF FrameOK, OpOK, HeldOK, RunOK, DecideOK, OverrideOK, PullOK, RunOps, Frame
<1> QED BY <1>2, <1>3, <1>4, <1>5 DEF Linked

\* A run links only rules on the parties of its alert.
LEMMA FinishLinkStep == ASSUME IInv, NEW p \in Procs, FinishLink(p) PROVE IInv'
<1>0. PICK f \in Frame : f = frames[p] /\ FrameOK(f) /\ f.pc = "link"
  BY HandlerFrame DEF FinishLink, At
<1>1. f.op \in RunOps /\ f.alert \in Alerts
  BY <1>0 DEF FrameOK, OpOK, RunOK
<1>2. PICK i \in Invs : i = f.inv /\ invs[i].alert = f.alert
  BY <1>0, <1>1 DEF FrameOK, RunOK
<1>3. PICK r \in f.todo : rules' = [rules EXCEPT ![r].inv = i] /\ Continue(p, Linked(f, r))
  BY <1>0, <1>2 DEF FinishLink
<1>4. r \in Rules /\ Present(r) /\ (~Llm => rules[r].ip \in Parties(f.alert))
  BY <1>0, <1>1, <1>3 DEF FrameOK, HeldOK, RunOK, Frame
<1>5. PICK g \in Frame : Continue(p, g) /\ FrameOK(g)
  BY <1>0, <1>3, LinkedOK
<1> QED BY <1>1, <1>2, <1>3, <1>4, <1>5, LinkStep DEF FinishLink

\* A run claims containment only when its own read-back found a rule in force.
LEMMA FinishCloseStep == ASSUME IInv, NEW p \in Procs, FinishClose(p) PROVE IInv'
<1>0. PICK f \in Frame : f = frames[p] /\ FrameOK(f) /\ f.pc = "close"
  BY HandlerFrame DEF FinishClose, At
<1>1. f.op \in RunOps /\ f.alert \in Alerts /\ f.outcome \in Outcomes
  BY <1>0 DEF FrameOK, OpOK, RunOK, Frame
<1>2. RunContained(f) => ConfirmedFor(f.alert)
  BY <1>0, <1>1 DEF RunContained, Contained, FrameOK, HeldOK, RunOK, ConfirmedOn, ConfirmedFor
<1>3. PICK v \in AlertStatuses :
        /\ v = IF RunContained(f) THEN "CONTAINED" ELSE OUTCOME_STATUS[f.outcome]
        /\ v = "CONTAINED" => RunContained(f)
  BY <1>1, OutcomeStatus DEF AlertStatuses
<1>4. alerts' = [alerts EXCEPT ![f.alert] = v]
  BY <1>0, <1>3 DEF FinishClose
<1> DEFINE g == [f EXCEPT !.pc = "audit"]
<1>5. g \in Frame
  BY DEF Frame, PCs
<1>6. FrameOK(g)
  BY <1>0, <1>1 DEF FrameOK, OpOK, HeldOK, RunOK, DecideOK, OverrideOK, PullOK, RunOps, Frame
<1>7. Continue(p, g)
  BY <1>0 DEF FinishClose
<1> QED BY <1>1, <1>2, <1>3, <1>4, <1>5, <1>6, <1>7, AlertStep DEF FinishClose

\* The end of a run keeps IInv.
LEMMA FinishAuditStep == ASSUME IInv, NEW p \in Procs, FinishAudit(p) PROVE IInv'
<1>0. PICK f \in Frame : f = frames[p]
  BY HandlerFrame
<1>1. Continue(p, IdleFrame)
  BY <1>0, ReturnFrame DEF FinishAudit
<1> QED BY <1>1, IdleFrameOK, LocalStep DEF FinishAudit, IInv, TypeOK

\* A store call that fails under a run keeps IInv, whatever the clean-up does.
LEMMA RunFailStep == ASSUME IInv, NEW p \in Procs, RunFail(p) PROVE IInv'
<1>0. PICK f \in Frame : f = frames[p] /\ FrameOK(f) /\ f.op \in RunOps
  BY HandlerFrame DEF RunFail
<1>1. UNCHANGED <<rules, approvals, invs, confirmed>>
  BY DEF RunFail
<1>2. CASE /\ f.pc \in {"request", "active", "propose"}
           /\ Continue(p, [f EXCEPT !.pc = AfterRequest(f.op)])
           /\ UNCHANGED <<alerts, faults>>
  <2>1. f.held \in SUBSET Approvals
    BY DEF Frame
  <2>2. [f EXCEPT !.pc = AfterRequest(f.op), !.held = f.held] = [f EXCEPT !.pc = AfterRequest(f.op)]
    BY DEF Frame
  <2>3. PICK g \in Frame : Continue(p, g) /\ FrameOK(g)
    BY <1>0, <1>2, <2>1, <2>2, RequestedOK
  <2> QED BY <1>1, <1>2, <2>3, LocalStep DEF IInv, TypeOK
<1>3. CASE /\ f.pc = "link"
           /\ \E r \in f.todo : Continue(p, Linked(f, r))
           /\ UNCHANGED <<alerts, faults>>
  <2>1. PICK g \in Frame : Continue(p, g) /\ FrameOK(g)
    BY <1>0, <1>3, LinkedOK
  <2> QED BY <1>1, <1>3, <2>1, LocalStep DEF IInv, TypeOK
<1>4. CASE /\ f.op = "llm"
           /\ Continue(p, [f EXCEPT !.pc = "decide"])
           /\ UNCHANGED <<alerts, faults>>
  BY <1>0, <1>1, <1>4, FallbackOK, LocalStep DEF IInv, TypeOK
<1>5. CASE /\ Continue(p, [f EXCEPT !.pc = "idle"])
           /\ \/ Reopen(f.alert) /\ UNCHANGED faults
              \/ faults' = faults + 1 /\ UNCHANGED alerts
  <2>1. Continue(p, IdleFrame)
    BY <1>5, ReturnFrame
  <2>2. CASE Reopen(f.alert) /\ UNCHANGED faults
    <3>1. f.alert \in Alerts /\ "NEW" \in AlertStatuses
      BY <1>0 DEF FrameOK, RunOK, AlertStatuses
    <3> QED BY <1>1, <2>1, <2>2, <3>1, IdleFrameOK, AlertStep DEF Reopen
  <2>3. CASE faults' = faults + 1 /\ UNCHANGED alerts
    <3>1. faults' \in Nat
      BY <2>3 DEF IInv, TypeOK
    <3> QED BY <1>1, <2>1, <2>3, <3>1, IdleFrameOK, LocalStep
  <2> QED BY <1>5, <2>2, <2>3
<1> QED BY <1>0, <1>2, <1>3, <1>4, <1>5 DEF RunFail

=============================================================================
