--------------------------- MODULE InvariantLemmas ---------------------------
(***************************************************************************)
(* What the proofs about Response share: which facts no step undoes, why a  *)
(* handler's local knowledge survives the steps of the others, and what     *)
(* each kind of write to the records has to establish.                      *)
(***************************************************************************)
EXTENDS ResponseInvariant, TLAPS

-----------------------------------------------------------------------------
\* What no step undoes: confirmed rules stay confirmed, a stored rule keeps its
\* action and address, an investigation its alert, a request what it asks for.
Grows ==
  /\ confirmed \subseteq confirmed'
  /\ \A r \in Rules : Present(r) =>
       /\ Present(r)'
       /\ rules'[r].ip = rules[r].ip /\ rules'[r].action = rules[r].action
  /\ \A i \in Invs : invs[i].alert # None => invs'[i].alert = invs[i].alert
  /\ \A a \in Approvals : approvals[a].status # "absent" =>
       /\ approvals'[a].status # "absent"
       /\ approvals'[a].action = approvals[a].action /\ approvals'[a].ip = approvals[a].ip

\* An idle handler holds nothing that could be wrong.
LEMMA IdleFrameOK == IdleFrame \in Frame /\ FrameOK(IdleFrame)
<1>1. IdleFrame \in Frame
  BY DEF IdleFrame, Frame, RuleRecord, NoRule, Actions, Answers, Answer, Statuses, Ops,
         PCs, Outcomes, AlertStatuses
<1>2. FrameOK(IdleFrame)
  BY DEF IdleFrame, FrameOK, OpOK, HeldOK, RunOK, DecideOK, OverrideOK, PullOK, RunOps,
         NoRule, Answer, Refused
<1> QED BY <1>1, <1>2

\* The same after any step.
LEMMA IdleFrameOKNext == FrameOK(IdleFrame)'
  BY DEF IdleFrame, FrameOK, OpOK, HeldOK, RunOK, DecideOK, OverrideOK, PullOK, RunOps,
         NoRule, Answer, Refused

\* A step of one handler leaves the others alone.
LEMMA ContinueFrames ==
  ASSUME frames \in [Procs -> Frame], NEW p \in Procs, NEW f \in Frame, Continue(p, f)
  PROVE  /\ frames' \in [Procs -> Frame]
         /\ \A q \in Procs \ {p} : frames'[q] = frames[q]
         /\ frames'[p] = f \/ frames'[p] = IdleFrame
  BY IdleFrameOK DEF Continue

\* A handler that returns keeps nothing.
LEMMA ReturnFrame ==
  ASSUME NEW p \in Procs, NEW f \in Frame, Continue(p, [f EXCEPT !.pc = "idle"])
  PROVE  Continue(p, IdleFrame)
<1>1. [f EXCEPT !.pc = "idle"].pc = "idle"
  BY DEF Frame
<1> QED BY <1>1 DEF Continue

\* Confirmations last.
LEMMA ConfirmedLasts ==
  ASSUME TypeOK, RulesOK, Grows
  PROVE  /\ \A ip : ConfirmedOn(ip) => ConfirmedOn(ip)'
         /\ \A al : ConfirmedFor(al) => ConfirmedFor(al)'
<1>1. \A r \in confirmed : r \in Rules /\ r \in confirmed' /\ rules'[r].ip = rules[r].ip
  BY DEF TypeOK, RulesOK, Grows
<1>2. ASSUME NEW ip, ConfirmedOn(ip) PROVE ConfirmedOn(ip)'
  BY <1>1, <1>2 DEF ConfirmedOn
<1>3. ASSUME NEW al, ConfirmedFor(al) PROVE ConfirmedFor(al)'
  BY <1>1, <1>3 DEF ConfirmedFor, Parties
<1> QED BY <1>2, <1>3

\* What a handler holds stays true whatever the others do to the store.
LEMMA FrameStable ==
  ASSUME TypeOK, RulesOK, Grows, NEW f \in Frame, FrameOK(f)
  PROVE  FrameOK(f)'
<1> USE DEF TypeOK, Grows, Frame
<1>0. /\ \A ip : ConfirmedOn(ip) => ConfirmedOn(ip)'
      /\ \A al : ConfirmedFor(al) => ConfirmedFor(al)'
  BY ConfirmedLasts
<1>1. OpOK(f)'
  BY DEF FrameOK, OpOK
<1>2. HeldOK(f)'
  BY <1>0 DEF FrameOK, HeldOK, RulesOK, Present, Refused
<1>3. RunOK(f)'
  BY ResponseAssumption DEF FrameOK, RunOK, HeldOK
<1>4. DecideOK(f)'
  BY <1>0, ResponseAssumption DEF FrameOK, DecideOK, HeldOK, Parties
<1>5. OverrideOK(f)'
  BY <1>0, ResponseAssumption DEF FrameOK, OverrideOK
<1>6. PullOK(f)'
  BY <1>0, ResponseAssumption DEF FrameOK, PullOK
<1> QED BY <1>1, <1>2, <1>3, <1>4, <1>5, <1>6 DEF FrameOK

\* A step of handler p: what remains to be shown is about p and the records.
LEMMA HandlerStep ==
  ASSUME IInv, NEW p \in Procs, NEW f \in Frame, Continue(p, f), Grows, FrameOK(f)', StoreOK',
         rules' \in [Rules -> RuleRecord], approvals' \in [Approvals -> ApprovalRecord],
         invs' \in [Invs -> InvRecord], alerts' \in [Alerts -> AlertStatuses],
         faults' \in Nat, confirmed' \in SUBSET Rules
  PROVE  IInv'
<1>1. /\ frames' \in [Procs -> Frame]
      /\ \A q \in Procs \ {p} : frames'[q] = frames[q]
      /\ frames'[p] = f \/ frames'[p] = IdleFrame
  BY ContinueFrames DEF IInv, TypeOK
<1>2. TypeOK'
  BY <1>1 DEF TypeOK
<1>3. ASSUME NEW q \in Procs PROVE FrameOK(frames[q])'
  <2>1. CASE q = p
    BY <2>1, <1>1, IdleFrameOKNext
  <2>2. CASE q # p
    <3>1. FrameOK(frames[q]) /\ frames[q] \in Frame
      BY DEF IInv, TypeOK
    <3>2. FrameOK(frames[q])
      BY DEF IInv
    <3>3. PICK g \in Frame : g = frames[q]
      BY <3>1
    <3>4. FrameOK(g)'
      BY <3>1, <3>3, FrameStable DEF IInv, StoreOK
    <3>5. g = frames'[q]
      BY <3>3, <2>2, <1>1
    <3> QED BY <3>4, <3>5
  <2> QED BY <2>1, <2>2
<1> QED BY <1>2, <1>3 DEF IInv

\* A step of nobody: the records change, the handlers do not.
LEMMA EnvironmentStep ==
  ASSUME IInv, UNCHANGED frames, Grows, StoreOK',
         rules' \in [Rules -> RuleRecord], approvals' \in [Approvals -> ApprovalRecord],
         invs' \in [Invs -> InvRecord], alerts' \in [Alerts -> AlertStatuses],
         faults' \in Nat, confirmed' \in SUBSET Rules
  PROVE  IInv'
<1>1. TypeOK'
  BY DEF IInv, TypeOK
<1>2. ASSUME NEW q \in Procs PROVE FrameOK(frames[q])'
  <2>1. PICK g \in Frame : g = frames[q] /\ FrameOK(g)
    BY DEF IInv, TypeOK
  <2>2. FrameOK(g)'
    BY <2>1, FrameStable DEF IInv, StoreOK
  <2> QED BY <2>1, <2>2
<1> QED BY <1>1, <1>2 DEF IInv

\* A step that leaves the records alone.
LEMMA LocalStep ==
  ASSUME IInv, NEW p \in Procs, NEW f \in Frame, Continue(p, f), FrameOK(f),
         UNCHANGED <<rules, approvals, invs, alerts, confirmed>>, faults' \in Nat
  PROVE  IInv'
<1>1. Grows
  BY DEF Grows, Present
<1>2. FrameOK(f)'
  BY <1>1, FrameStable DEF IInv, StoreOK
<1>3. StoreOK'
  BY DEF IInv, StoreOK, RulesOK, ApprovalsOK, InvsOK, AlertsOK, Present, ConfirmedFor
<1> QED BY <1>1, <1>2, <1>3, HandlerStep DEF IInv, TypeOK
\* Every tool call returns to a step of its caller.
LEMMA AfterInPCs ==
  ASSUME NEW op \in Ops
  PROVE  /\ AfterExecute(op) \in PCs /\ AfterVerify(op) \in PCs
         /\ AfterRefusal(op) \in PCs /\ AfterRequest(op) \in PCs
  BY DEF Ops, PCs, AfterExecute, AfterVerify, AfterRefusal, AfterRequest

\* A handler that execute_firewall_action gave a rule doing what it asked for.
LEMMA WithRuleOK ==
  ASSUME NEW f \in Frame, FrameOK(f), NEW r \in Rules, NEW b \in BOOLEAN,
         f.pc \in {"exec", "insert"}, f.pc = "exec" => ~Refused(f),
         Present(r), rules[r].ip = f.ip, rules[r].action = f.action
  PROVE  WithRule(f, r, b) \in Frame /\ FrameOK(WithRule(f, r, b))
<1>1. PICK pc \in PCs : pc = AfterExecute(f.op)
  BY AfterInPCs DEF Frame
<1>2. PICK mine \in SUBSET Rules : mine = IF b THEN f.mine \cup {r} ELSE f.mine
  BY DEF Frame
<1>3. PICK first \in IPs \cup {None} : first = IF f.first = None THEN f.ip ELSE f.first
  BY DEF Frame
<1>. DEFINE g == [f EXCEPT !.pc = pc, !.rule = r, !.mine = mine, !.first = first]
<1>4. g \in Frame
  BY DEF Frame
<1>5. WithRule(f, r, b) = g
  BY <1>1, <1>2, <1>3, <1>4 DEF WithRule
<1>6. f.op \in RunOps \cup {"add", "contain", "decide", "override"}
  BY DEF FrameOK, OpOK
<1>7. /\ g.op = "run" => g.pc = "contain"
      /\ g.op = "llm" => g.pc = "llm"
      /\ g.op = "add" => g.pc = "idle"
      /\ g.op \in {"contain", "decide", "override"} => g.pc = "verify"
      /\ g.op = f.op
  BY <1>1, <1>4, <1>6 DEF AfterExecute, Frame
<1>8. /\ g.rule = r /\ g.mine = mine /\ g.first = first
      /\ g.action = f.action /\ g.ip = f.ip /\ g.alert = f.alert /\ g.inv = f.inv
      /\ g.apr = f.apr /\ g.todo = f.todo /\ g.snap = f.snap /\ g.seen = f.seen
      /\ g.outcome = f.outcome /\ g.yes = f.yes /\ g.invset = f.invset
  BY <1>4 DEF Frame
<1> HIDE DEF g
<1>11. OpOK(g)
  BY <1>6, <1>7, <1>8 DEF FrameOK, OpOK, RunOps
<1>12. HeldOK(g)
  BY <1>2, <1>7, <1>6, <1>8 DEF FrameOK, HeldOK, RunOps
<1>13. RunOK(g)
  BY <1>2, <1>3, <1>6, <1>7, <1>8 DEF FrameOK, RunOK, RunOps
<1>14. DecideOK(g)
  BY <1>6, <1>7, <1>8, ResponseAssumption DEF FrameOK, DecideOK, RunOps
<1>15. OverrideOK(g)
  BY <1>6, <1>7, <1>8 DEF FrameOK, OverrideOK, RunOps
<1>16. PullOK(g)
  BY <1>6, <1>7, <1>8 DEF FrameOK, PullOK, RunOps
<1> QED BY <1>4, <1>5, <1>11, <1>12, <1>13, <1>14, <1>15, <1>16 DEF FrameOK

\* The same as one formula, and about the records after a step.
WithRuleClaim ==
  \A f \in Frame, r \in Rules, b \in BOOLEAN :
    /\ FrameOK(f)
    /\ f.pc \in {"exec", "insert"} /\ (f.pc = "exec" => ~Refused(f))
    /\ Present(r) /\ rules[r].ip = f.ip /\ rules[r].action = f.action
    => WithRule(f, r, b) \in Frame /\ FrameOK(WithRule(f, r, b))

\* WithRuleOK as one formula.
LEMMA WithRuleNow == WithRuleClaim
  BY WithRuleOK DEF WithRuleClaim

\* WithRuleOK about the records after a step.
LEMMA WithRuleNext == WithRuleClaim'
  BY WithRuleNow, PTL

\* What a handler starts from.
LEMMA IdleFields ==
  \E f \in Frame :
    /\ f = IdleFrame /\ FrameOK(f)
    /\ f.op = "idle" /\ f.pc = "idle" /\ f.alert = None /\ f.inv = None /\ f.apr = None
    /\ f.rule = None /\ f.ip = None /\ f.first = None /\ f.outcome = None
    /\ f.todo = {} /\ f.mine = {} /\ f.seen = {} /\ f.invset = {} /\ ~f.yes
    /\ \A r \in Rules : f.snap[r].enf.status # "ENFORCED"
  BY IdleFrameOK DEF IdleFrame, NoRule, Answer

\* What is known of a handler in flight.
LEMMA HandlerFrame ==
  ASSUME IInv, NEW p \in Procs
  PROVE  \E f \in Frame : f = frames[p] /\ FrameOK(f)
  BY DEF IInv, TypeOK

\* What the adapters answer.
LEMMA AnswersTyped ==
  ASSUME NEW action \in Actions, NEW e \in Answers
  PROVE  /\ ApplyAnswers(action) \subseteq Answers
         /\ RemoveAnswers(e) \subseteq Answers
         /\ VerifyAnswers(action, e) \subseteq Answers
         /\ \A a \in RemoveAnswers(e) : a.status # "ENFORCED"
         /\ Echoes(action, e) => VerifyAnswers(action, e) = {e}
<1>0. ASSUME NEW s \in Statuses, NEW b \in BOOLEAN
      PROVE  Answer(s, b) \in Answers /\ Answer(s, b).status = s
  BY DEF Answers, Answer
<1>a. e.remote \in BOOLEAN
  BY DEF Answers
<1>1. ApplyAnswers(action) \subseteq Answers
  <2>1. CASE Mode = "record"
    BY <1>0, <2>1 DEF ApplyAnswers, Statuses
  <2>2. CASE Mode = "feed"
    BY <1>0, <2>2 DEF ApplyAnswers, Statuses
  <2>3. CASE Mode = "webhook"
    BY <1>0, <2>3 DEF ApplyAnswers, Statuses
  <2>4. CASE Mode = "cloudflare"
    BY <1>0, <2>4 DEF ApplyAnswers, Statuses
  <2> QED BY <2>1, <2>2, <2>3, <2>4, ModeAssumption
<1>2. RemoveAnswers(e) \subseteq Answers /\ \A a \in RemoveAnswers(e) : a.status # "ENFORCED"
  <2>1. CASE Mode \in {"record", "feed"}
    BY <1>0, <1>a, <2>1 DEF RemoveAnswers, Statuses
  <2>2. CASE Mode = "webhook"
    BY <1>0, <2>2 DEF RemoveAnswers, Statuses
  <2>3. CASE Mode = "cloudflare"
    BY <1>0, <2>3 DEF RemoveAnswers, Statuses
  <2> QED BY <2>1, <2>2, <2>3, ModeAssumption
<1>3. Answer("ENFORCED", TRUE) \in Answers /\ Answer("FAILED", TRUE) \in Answers
  BY <1>0 DEF Statuses
<1>4. VerifyAnswers(action, e) \subseteq Answers
  BY <1>1, <1>3 DEF VerifyAnswers
<1>5. Echoes(action, e) => VerifyAnswers(action, e) = {e}
  BY DEF VerifyAnswers
<1> QED BY <1>1, <1>2, <1>4, <1>5

\* The empty slot of a snapshot.
LEMMA NoRuleOK == NoRule \in RuleRecord /\ NoRule.enf.status # "ENFORCED"
  BY DEF NoRule, RuleRecord, Actions, Answer, Answers, Statuses

\* A listed copy of rules says of their enforcement only what was reported.
LEMMA SnapshotOK ==
  ASSUME TypeOK, RulesOK, NEW R \in SUBSET Rules
  PROVE  /\ Snapshot(R) \in [Rules -> RuleRecord]
         /\ \A r \in Rules : Snapshot(R)[r].enf.status = "ENFORCED" => r \in confirmed
  BY NoRuleOK DEF Snapshot, TypeOK, RulesOK

\* A rule of the store is written: it keeps its action and address, and reads
\* ENFORCED or is linked only as the records allow.
LEMMA RuleWrite ==
  ASSUME IInv, NEW r \in Rules, UNCHANGED <<approvals, invs, alerts>>,
         rules' \in [Rules -> RuleRecord], \A s \in Rules \ {r} : rules'[s] = rules[s],
         Present(r), Present(r)',
         rules'[r].ip = rules[r].ip, rules'[r].action = rules[r].action,
         rules'[r].inv # None =>
           /\ invs[rules'[r].inv].alert \in Alerts
           /\ ~Llm => rules[r].ip \in Parties(invs[rules'[r].inv].alert),
         confirmed \subseteq confirmed', confirmed' \subseteq confirmed \cup {r},
         rules'[r].enf.status = "ENFORCED" => r \in confirmed'
  PROVE  Grows /\ StoreOK'
<1>1. Grows
  BY DEF Grows, Present
<1>2. RulesOK'
  BY DEF IInv, StoreOK, RulesOK, Present, Parties
<1>3. ApprovalsOK'
  BY ResponseAssumption DEF IInv, TypeOK, StoreOK, ApprovalsOK, ApprovalRecord, Present, Parties
<1>4. InvsOK'
  BY DEF IInv, StoreOK, InvsOK
<1>5. AlertsOK'
  BY <1>1, ConfirmedLasts DEF IInv, StoreOK, AlertsOK
<1> QED BY <1>1, <1>2, <1>3, <1>4, <1>5 DEF StoreOK

\* The answer of a read-back is stored.
LEMMA AnswerWrite ==
  ASSUME IInv, NEW r \in Rules, Present(r), NEW e \in Answers,
         rules' = [rules EXCEPT ![r].enf = e], Confirm(r, e),
         UNCHANGED <<approvals, invs, alerts>>
  PROVE  /\ rules' \in [Rules -> RuleRecord] /\ confirmed' \in SUBSET Rules
         /\ Grows /\ StoreOK'
         /\ e.status = "ENFORCED" => r \in confirmed'
<1>1. PICK rec \in RuleRecord : rec = [rules[r] EXCEPT !.enf = e]
  BY DEF RuleRecord, IInv, TypeOK
<1>2. rules' = [rules EXCEPT ![r] = rec]
  BY <1>1 DEF IInv, TypeOK
<1>3. rules' \in [Rules -> RuleRecord] /\ \A s \in Rules \ {r} : rules'[s] = rules[s]
  BY <1>2 DEF IInv, TypeOK
<1>4. /\ rules'[r].ip = rules[r].ip /\ rules'[r].action = rules[r].action
      /\ rules'[r].inv = rules[r].inv /\ rules'[r].enf = e /\ rules'[r].state = rules[r].state
  BY <1>1, <1>2 DEF IInv, TypeOK, RuleRecord
<1>5. /\ confirmed \subseteq confirmed' /\ confirmed' \subseteq confirmed \cup {r}
      /\ e.status = "ENFORCED" => r \in confirmed'
  BY DEF Confirm
<1>6. confirmed' \in SUBSET Rules
  BY <1>5 DEF IInv, TypeOK
<1>7. rules[r].inv # None =>
        /\ invs[rules[r].inv].alert \in Alerts
        /\ ~Llm => rules[r].ip \in Parties(invs[rules[r].inv].alert)
  BY DEF IInv, StoreOK, RulesOK
<1>8. Grows /\ StoreOK'
  BY <1>3, <1>4, <1>5, <1>7, RuleWrite DEF Present
<1> QED BY <1>3, <1>5, <1>6, <1>8

\* A rule is switched off with the answer of its removal.
LEMMA RemovalStep ==
  ASSUME IInv, NEW p \in Procs, NEW g \in Frame, Continue(p, g), FrameOK(g),
         NEW r \in Rules, Present(r), NEW e0 \in Answers, NEW e \in RemoveAnswers(e0),
         rules' = [rules EXCEPT ![r].state = "disabled", ![r].enf = e],
         UNCHANGED <<approvals, invs, alerts, faults, confirmed>>
  PROVE  IInv'
<1>1. e \in Answers /\ e.status # "ENFORCED"
  BY AnswersTyped DEF Actions
<1>2. PICK rec \in RuleRecord : rec = [rules[r] EXCEPT !.state = "disabled", !.enf = e]
  BY <1>1 DEF RuleRecord, IInv, TypeOK
<1>3. rules' = [rules EXCEPT ![r] = rec]
  BY <1>2 DEF IInv, TypeOK
<1>4. rules' \in [Rules -> RuleRecord] /\ \A s \in Rules \ {r} : rules'[s] = rules[s]
  BY <1>3 DEF IInv, TypeOK
<1>5. /\ rules'[r].ip = rules[r].ip /\ rules'[r].action = rules[r].action
      /\ rules'[r].inv = rules[r].inv /\ rules'[r].enf = e /\ rules'[r].state = "disabled"
  BY <1>2, <1>3 DEF IInv, TypeOK, RuleRecord
<1>6. rules[r].inv # None =>
        /\ invs[rules[r].inv].alert \in Alerts
        /\ ~Llm => rules[r].ip \in Parties(invs[rules[r].inv].alert)
  BY DEF IInv, StoreOK, RulesOK
<1>7. Grows /\ StoreOK'
  BY <1>1, <1>4, <1>5, <1>6, RuleWrite DEF Present
<1>8. FrameOK(g)'
  BY <1>7, FrameStable DEF IInv, StoreOK
<1> QED BY <1>4, <1>7, <1>8, HandlerStep DEF IInv, TypeOK

\* A rule is linked to an investigation of one of its parties.
LEMMA LinkStep ==
  ASSUME IInv, NEW p \in Procs, NEW g \in Frame, Continue(p, g), FrameOK(g),
         NEW r \in Rules, Present(r), NEW i \in Invs, invs[i].alert \in Alerts,
         ~Llm => rules[r].ip \in Parties(invs[i].alert),
         rules' = [rules EXCEPT ![r].inv = i],
         UNCHANGED <<approvals, invs, alerts, faults, confirmed>>
  PROVE  IInv'
<1>2. PICK rec \in RuleRecord : rec = [rules[r] EXCEPT !.inv = i]
  BY DEF RuleRecord, IInv, TypeOK
<1>3. rules' = [rules EXCEPT ![r] = rec]
  BY <1>2 DEF IInv, TypeOK
<1>4. rules' \in [Rules -> RuleRecord] /\ \A s \in Rules \ {r} : rules'[s] = rules[s]
  BY <1>3 DEF IInv, TypeOK
<1>5. /\ rules'[r].ip = rules[r].ip /\ rules'[r].action = rules[r].action
      /\ rules'[r].inv = i /\ rules'[r].enf = rules[r].enf /\ rules'[r].state = rules[r].state
  BY <1>2, <1>3 DEF IInv, TypeOK, RuleRecord
<1>6. rules[r].enf.status = "ENFORCED" => r \in confirmed
  BY DEF IInv, StoreOK, RulesOK
<1>7. Grows /\ StoreOK'
  BY <1>4, <1>5, <1>6, RuleWrite DEF Present
<1>8. FrameOK(g)'
  BY <1>7, FrameStable DEF IInv, StoreOK
<1> QED BY <1>4, <1>7, <1>8, HandlerStep DEF IInv, TypeOK

\* An alert is written: CONTAINED needs a confirmed rule.
LEMMA AlertStep ==
  ASSUME IInv, NEW p \in Procs, NEW f \in Frame, Continue(p, f), FrameOK(f),
         NEW v \in AlertStatuses, NEW al \in Alerts,
         alerts' = [alerts EXCEPT ![al] = v], v = "CONTAINED" => ConfirmedFor(al),
         UNCHANGED <<rules, approvals, invs, faults, confirmed>>
  PROVE  IInv'
<1>1. Grows
  BY DEF Grows, Present
<1>2. FrameOK(f)'
  BY <1>1, FrameStable DEF IInv, StoreOK
<1>3. AlertsOK'
  BY DEF IInv, TypeOK, StoreOK, AlertsOK, ConfirmedFor, Parties
<1>4. StoreOK'
  BY <1>3 DEF IInv, StoreOK, RulesOK, ApprovalsOK, InvsOK, Present
<1>5. alerts' \in [Alerts -> AlertStatuses]
  BY DEF IInv, TypeOK
<1> QED BY <1>1, <1>2, <1>4, <1>5, HandlerStep DEF IInv, TypeOK

\* A request is written: it keeps what it asks for, and is approved only with a
\* rule that does it.
LEMMA RequestStep ==
  ASSUME IInv, NEW p \in Procs, NEW f \in Frame, Continue(p, f), FrameOK(f),
         NEW a \in Approvals, approvals' \in [Approvals -> ApprovalRecord],
         \A b \in Approvals \ {a} : approvals'[b] = approvals[b],
         approvals'[a].status # "absent",
         approvals'[a].action = approvals[a].action, approvals'[a].ip = approvals[a].ip,
         approvals'[a].alert = approvals[a].alert, approvals'[a].inv = approvals[a].inv,
         approvals'[a].status = "APPROVED" =>
           LET r == approvals'[a].rule IN
           /\ r # None /\ Present(r)
           /\ rules[r].action = approvals[a].action /\ rules[r].ip = approvals[a].ip,
         UNCHANGED <<rules, invs, alerts, faults, confirmed>>
  PROVE  IInv'
<1>1. Grows
  BY DEF Grows, Present
<1>2. FrameOK(f)'
  BY <1>1, FrameStable DEF IInv, StoreOK
<1>3. ApprovalsOK'
  BY DEF IInv, TypeOK, StoreOK, ApprovalsOK, Present, Parties
<1>4. StoreOK'
  BY <1>3 DEF IInv, StoreOK, RulesOK, InvsOK, AlertsOK, Present, ConfirmedFor
<1> QED BY <1>1, <1>2, <1>4, HandlerStep DEF IInv, TypeOK

\* A request gets a status other than APPROVED.
LEMMA SettleStep ==
  ASSUME IInv, NEW p \in Procs, NEW f \in Frame, Continue(p, f), FrameOK(f),
         NEW a \in Approvals, NEW st \in {"REJECTED", "FAILED", "EXPIRED"},
         approvals' = [approvals EXCEPT ![a].status = st],
         UNCHANGED <<rules, invs, alerts, faults, confirmed>>
  PROVE  IInv'
<1>1. PICK rec \in ApprovalRecord : rec = [approvals[a] EXCEPT !.status = st]
  BY DEF ApprovalRecord, IInv, TypeOK
<1>2. approvals' = [approvals EXCEPT ![a] = rec]
  BY <1>1 DEF IInv, TypeOK
<1>3. /\ approvals' \in [Approvals -> ApprovalRecord]
      /\ \A b \in Approvals \ {a} : approvals'[b] = approvals[b]
  BY <1>2 DEF IInv, TypeOK
<1>4. /\ approvals'[a].status = st /\ approvals'[a].action = approvals[a].action
      /\ approvals'[a].ip = approvals[a].ip /\ approvals'[a].alert = approvals[a].alert
      /\ approvals'[a].inv = approvals[a].inv
  BY <1>1, <1>2 DEF IInv, TypeOK, ApprovalRecord
<1> QED BY <1>3, <1>4, RequestStep

\* An investigation that has its alert is written, and keeps it.
LEMMA InvStep ==
  ASSUME IInv, NEW p \in Procs, NEW f \in Frame, Continue(p, f), FrameOK(f),
         NEW i \in Invs, invs' \in [Invs -> InvRecord],
         \A j \in Invs \ {i} : invs'[j] = invs[j],
         invs[i].alert \in Alerts, invs'[i].alert = invs[i].alert,
         UNCHANGED <<rules, approvals, alerts, faults, confirmed>>
  PROVE  IInv'
<1>1. Grows
  BY DEF Grows, Present
<1>2. FrameOK(f)'
  BY <1>1, FrameStable DEF IInv, StoreOK
<1>3. InvsOK'
  BY DEF IInv, StoreOK, InvsOK
<1>a. \A j \in Invs : invs[j].alert \in Alerts => invs'[j].alert = invs[j].alert
  OBVIOUS
<1>4. RulesOK'
  <2>1. \A r \in Rules : rules[r].inv # None => rules[r].inv \in Invs
    BY DEF IInv, TypeOK, RuleRecord
  <2> QED BY <1>a, <2>1 DEF IInv, StoreOK, RulesOK, Present, Parties
<1>6. ApprovalsOK'
  <2>1. \A a \in Approvals : approvals[a].inv # None => approvals[a].inv \in Invs
    BY DEF IInv, TypeOK, ApprovalRecord
  <2> QED BY <1>a, <2>1 DEF IInv, StoreOK, ApprovalsOK, Present, Parties
<1>5. StoreOK'
  BY <1>3, <1>4, <1>6 DEF IInv, StoreOK, AlertsOK, ConfirmedFor, Parties
<1> QED BY <1>1, <1>2, <1>5, HandlerStep DEF IInv, TypeOK

=============================================================================
