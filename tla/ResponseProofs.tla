---------------------------- MODULE ResponseProofs ----------------------------
(***************************************************************************)
(* Safety of Response for every instance: IInv of ResponseInvariant is      *)
(* inductive, and the safety properties follow from it.  An alert reads     *)
(* INVESTIGATING only while a run of this process works on it: RunInv is    *)
(* inductive relative to IInv.  What handlers guarantee only one after the  *)
(* other rests on SerialInv, also inductive relative to IInv.  With these   *)
(* and StatusInv each step is a step of Containment, or none of it.         *)
(***************************************************************************)
EXTENDS HandlerProofs

\* A request that ends with an error keeps IInv.
LEMMA HandlerFailStep == ASSUME IInv, NEW p \in Procs, HandlerFail(p) PROVE IInv'
<1>0. PICK f \in Frame : f = frames[p] /\ FrameOK(f) /\ f.op \notin RunOps
  BY HandlerFrame DEF HandlerFail
<1>1. PICK pc \in PCs : /\ pc = CASE f.pc = "rewrite" /\ f.yes -> "relink"
                                  [] f.pc = "relink" -> AfterReflect(f)
                                  [] OTHER -> "idle"
                        /\ \/ pc = "relink" /\ f.pc = "rewrite" /\ f.yes
                           \/ pc = "dec_inv" /\ f.pc = "relink" /\ pc = AfterReflect(f)
                           \/ pc = "idle"
  BY DEF PCs, AfterReflect
<1>2. Continue(p, [f EXCEPT !.pc = pc])
  BY <1>0, <1>1 DEF HandlerFail
<1>3. CASE pc = "idle"
  <2>1. Continue(p, IdleFrame)
    BY <1>2, <1>3, ReturnFrame
  <2> QED BY <2>1, IdleFrameOK, LocalStep DEF HandlerFail, IInv, TypeOK
<1>4. CASE pc # "idle"
  <2> DEFINE g == [f EXCEPT !.pc = pc]
  <2>1. g \in Frame
    BY DEF Frame
  <2>2. f.op = "decide"
    BY <1>0, <1>1, <1>4 DEF FrameOK, OpOK
  <2>3. FrameOK(g)
    BY <1>0, <1>1, <1>4, <2>2 DEF AfterReflect, Contained, FrameOK, OpOK, HeldOK, RunOK, DecideOK,
       OverrideOK, PullOK, RunOps, Frame
  <2> QED BY <1>2, <2>1, <2>3, LocalStep DEF HandlerFail, IInv, TypeOK
<1> QED BY <1>3, <1>4

\* A restart keeps IInv: the records say nothing of the handlers that are gone.
LEMMA CrashStep == ASSUME IInv, Crash PROVE IInv'
<1>1. /\ frames' = [p \in Procs |-> IdleFrame] /\ faults' = faults + 1
      /\ UNCHANGED <<rules, approvals, invs, alerts, confirmed>>
  BY DEF Crash
<1>2. TypeOK'
  BY <1>1, IdleFrameOK DEF IInv, TypeOK
<1>3. StoreOK'
  BY <1>1 DEF IInv, StoreOK, RulesOK, ApprovalsOK, InvsOK, AlertsOK, Present, ConfirmedFor
<1>4. \A p \in Procs : FrameOK(frames[p])'
  BY <1>1, IdleFrameOKNext
<1> QED BY <1>2, <1>3, <1>4 DEF IInv

-----------------------------------------------------------------------------
\* The empty store and idle handlers satisfy IInv.
LEMMA InitIInv == Init => IInv
<1> SUFFICES ASSUME Init PROVE IInv
  OBVIOUS
<1>1. /\ NoApproval \in ApprovalRecord /\ NoInv \in InvRecord /\ "NEW" \in AlertStatuses
      /\ NoApproval.inv = None /\ NoApproval.status = "absent"
      /\ NoInv.outcome = None /\ NoRule.inv = None /\ NoRule.state = "absent"
  BY DEF NoApproval, ApprovalRecord, Actions, NoInv, InvRecord, AlertStatuses, NoRule
<1>2. TypeOK
  BY <1>1, NoRuleOK, IdleFrameOK DEF Init, TypeOK
<1>3. StoreOK
  BY <1>1, NoRuleOK DEF Init, StoreOK, RulesOK, ApprovalsOK, InvsOK, AlertsOK, Present
<1>4. \A p \in Procs : FrameOK(frames[p])
  BY IdleFrameOK DEF Init
<1> QED BY <1>2, <1>3, <1>4 DEF IInv

\* Every step of every handler, of time and of the process keeps IInv.
LEMMA NextIInv == IInv /\ [Next]_vars => IInv'
<1> SUFFICES ASSUME IInv, [Next]_vars PROVE IInv'
  OBVIOUS
<1>1. ASSUME NEW p \in Procs, RuleStep(p) PROVE IInv'
  BY <1>1, ExecuteRefuseStep, ExecuteLookupStep, ExecuteInsertStep, VerifyListStep, VerifyCheckStep,
     ToggleClashStep, ToggleEnableStep, ToggleDisableStep, RecheckWriteStep, SweepRuleStep
  DEF RuleStep
<1>2. ASSUME NEW p \in Procs, ApprovalStep(p) PROVE IInv'
  BY <1>2, RequestLookupStep, RequestActiveStep, RequestInsertStep, ExpireOneStep, DecideRejectStep,
     DecideFailStep, DecideApproveStep, ReflectReadStep, ReflectWriteStep, ReflectLinkStep,
     DecideInvStep, DecideAlertStep, DecideContainStep
  DEF ApprovalStep
<1>3. ASSUME NEW p \in Procs, RunStep(p) PROVE IInv'
  BY <1>3, MarkInvestigatingStep, RunDecideStep, RunContainStep, RunVerifyStep, RunVerifiedStep,
     UnblockStep, FinishStep, FinishLinkStep, FinishCloseStep, FinishAuditStep
  DEF RunStep
<1>4. ASSUME NEW p \in Procs, LlmStep(p) PROVE IInv'
  BY <1>4, LlmContainStep, LlmVerifyStep, LlmUnblockStep, LlmVerdictStep, LlmEndStep,
     LlmFallbackStep
  DEF LlmStep
<1>5. ASSUME NEW p \in Procs, AnalystStep(p) PROVE IInv'
  BY <1>5, OverrideListStep, RollbackStep, OverrideWriteStep, OverrideRuleStep, OverrideAlertStep,
     SetStatusStep
  DEF AnalystStep
<1>6. ASSUME NEW p \in Procs, FeedStep(p) PROVE IInv'
  BY <1>6, PullListStep, PullMarkStep, PullOwnStep, PullInvStep, PullAlertStep, PullContainStep
  DEF FeedStep
<1>7. ASSUME NEW p \in Procs, Start(p) PROVE IInv'
  BY <1>7, StartAddStep, StartProbeStep, StartToggleStep, StartRecheckStep, StartSweepStep,
     StartProposeStep, StartExpireStep, StartDecideStep, StartRunStep, StartOverrideStep,
     StartStatusStep, StartPullStep
  DEF Start, RuleStart, ApprovalStart, AnalystStart
<1>8. CASE Next
  BY <1>1, <1>2, <1>3, <1>4, <1>5, <1>6, <1>7, <1>8, RunFailStep, HandlerFailStep, LapseStep,
     AgeStep,
     CrashStep
  DEF Next, Step
<1>9. CASE UNCHANGED vars
  <2>1. UNCHANGED <<rules, approvals, invs, alerts, frames, faults, confirmed>>
    BY <1>9 DEF vars
  <2>2. Grows
    BY <2>1 DEF Grows, Present
  <2>3. StoreOK'
    BY <2>1 DEF IInv, StoreOK, RulesOK, ApprovalsOK, InvsOK, AlertsOK, Present, ConfirmedFor
  <2> QED BY <2>1, <2>2, <2>3, EnvironmentStep DEF IInv, TypeOK
<1> QED BY <1>8, <1>9

-----------------------------------------------------------------------------
\* What the handlers hold and what the store holds fits together at every moment,
\* however the handlers of engine, console, feed and timers interleave, whatever
\* fails and whenever the process restarts.
THEOREM HandlersFitStore == Spec => []IInv
<1>1. Init => IInv
  BY InitIInv
<1>2. IInv /\ [Next]_vars => IInv'
  BY NextIInv
<1> QED BY <1>1, <1>2, PTL DEF Spec

\* Every record of the store and every handler stays within its type.
THEOREM TypeCorrect == Spec => []TypeOK
<1>1. IInv => TypeOK
  BY DEF IInv
<1> QED BY <1>1, HandlersFitStore, PTL

\* An alert is CONTAINED only if the enforcement backend confirmed a rule on one of
\* its addresses, in every enforcement mode and by whichever path it got there:
\* finish(), decide(), override() or a pull of the feed.
THEOREM ContainmentIsConfirmed == Spec => []ContainedWasConfirmed
<1>1. IInv => ContainedWasConfirmed
  BY DEF IInv, StoreOK, AlertsOK, ConfirmedFor, ContainedWasConfirmed
<1> QED BY <1>1, HandlersFitStore, PTL

\* Without a model, a rule is linked only to an investigation of an alert it acts
\* for, so that the rollback of an override cannot hit an unrelated rule.
THEOREM LinksAreRelevant == Spec => []LinkedRuleIsRelevant
<1>1. IInv => LinkedRuleIsRelevant
  BY DEF IInv, StoreOK, RulesOK, LinkedRuleIsRelevant
<1> QED BY <1>1, HandlersFitStore, PTL

\* A request reads APPROVED only with a stored rule that does what was approved.
THEOREM ApprovalsAreBacked == Spec => []ApprovedHasRule
<1>1. IInv => ApprovedHasRule
  BY DEF IInv, StoreOK, ApprovalsOK, Present, ApprovedHasRule
<1> QED BY <1>1, HandlersFitStore, PTL

\* No path stores a BLOCK rule for an internal address.
THEOREM InternalIsNeverBlocked == Spec => []NoInternalBlock
<1>1. IInv => NoInternalBlock
  BY DEF IInv, StoreOK, RulesOK, Present, NoInternalBlock
<1> QED BY <1>1, HandlersFitStore, PTL

-----------------------------------------------------------------------------
(* Runs.  Most steps leave a run where it is and no alert under             *)
(* investigation; FrameStep is what they have in common.                    *)

\* A run that is in flight has an alert of the store.
LEMMA RunHasAlert ==
  ASSUME IInv, NEW p \in Procs, frames[p].op \in RunOps \/ At(p, "audit")
  PROVE  frames[p].op \in RunOps /\ frames[p].alert \in Alerts
  BY DEF IInv, FrameOK, OpOK, RunOK, At

\* A step of handler p puts no alert under investigation and starts no run, and if
\* it ends one, the alert of that run is no longer under investigation.
LEMMA FrameStep ==
  ASSUME IInv, RunInv, NEW p \in Procs, NEW h, Continue(p, h),
         faults' = 0 => faults = 0,
         \A al \in Alerts : alerts'[al] = "INVESTIGATING" => alerts[al] = "INVESTIGATING",
         h.op \in RunOps => frames[p].op \in RunOps /\ h.alert = frames[p].alert,
         h.pc = "audit" => h.op \in RunOps /\ alerts'[h.alert] # "INVESTIGATING",
         faults' = 0 /\ frames[p].op \in RunOps /\ alerts'[frames[p].alert] = "INVESTIGATING"
           => h.op \in RunOps /\ h.pc # "idle"
  PROVE  RunInv'
<1>1. PICK g : /\ \A q \in Procs : frames'[q] = IF q = p THEN g ELSE frames[q]
               /\ g = IF h.pc = "idle" THEN IdleFrame ELSE h
  BY DEF Continue, IInv, TypeOK
<1>2. IdleFrame.pc = "idle" /\ IdleFrame.op = "idle" /\ "idle" \notin RunOps
  BY DEF IdleFrame, RunOps
<1>3. g.op \in RunOps => frames[p].op \in RunOps /\ g.alert = frames[p].alert
  BY <1>1, <1>2
<1>4. OneRun'
  BY <1>1, <1>3 DEF RunInv, OneRun
<1>5. AuditedIsClosed'
  BY <1>1, <1>2, RunHasAlert DEF RunInv, AuditedIsClosed, At
<1>6. IdleRunsNothing'
  BY <1>1, <1>2 DEF RunInv, IdleRunsNothing, Idle
<1>7. InvestigatingIsRunning'
  <2> SUFFICES ASSUME faults' = 0, NEW al \in Alerts, alerts'[al] = "INVESTIGATING"
               PROVE  Running(al)'
    BY DEF InvestigatingIsRunning
  <2>1. PICK q \in Procs : frames[q].op \in RunOps /\ frames[q].alert = al
    BY DEF RunInv, InvestigatingIsRunning, Running
  <2>2. frames'[q].op \in RunOps /\ frames'[q].alert = al
    BY <1>1, <1>3, <2>1
  <2> QED BY <2>2 DEF Running
<1> QED BY <1>4, <1>5, <1>6, <1>7 DEF RunInv

\* No run begins or ends.
RunsGoOn == RunInv' /\ UNCHANGED Worked

\* So it is when handler p runs what it ran.
LEMMA SameWork ==
  ASSUME IInv, NEW p \in Procs, NEW h, Continue(p, h),
         h.op \in RunOps <=> frames[p].op \in RunOps,
         h.op \in RunOps => h.alert = frames[p].alert /\ h.pc # "idle"
  PROVE  UNCHANGED Worked
<1>1. PICK g : /\ \A q \in Procs : frames'[q] = IF q = p THEN g ELSE frames[q]
               /\ g = IF h.pc = "idle" THEN IdleFrame ELSE h
  BY DEF Continue, IInv, TypeOK
<1>2. IdleFrame.op \notin RunOps
  BY DEF IdleFrame, RunOps
<1>3. /\ g.op \in RunOps <=> frames[p].op \in RunOps
      /\ g.op \in RunOps => g.alert = frames[p].alert
  BY <1>1, <1>2
<1>4. \A al : Running(al)' <=> Running(al)
  BY <1>1, <1>3 DEF Running
<1> QED BY <1>4 DEF Worked

\* A step that touches no alert and leaves a run of p, if there is one, in flight.
LEMMA QuietStep ==
  ASSUME IInv, RunInv, NEW p \in Procs, NEW h, Continue(p, h), UNCHANGED <<alerts, faults>>,
         h.op \in RunOps <=> frames[p].op \in RunOps,
         h.op \in RunOps => h.alert = frames[p].alert /\ h.pc # "idle",
         h.pc # "audit"
  PROVE  RunsGoOn
  BY FrameStep, SameWork DEF RunsGoOn

\* A handler of another kind than a run goes anywhere but to the end of one.
LEMMA OtherStep ==
  ASSUME IInv, RunInv, NEW p \in Procs, NEW f \in Frame, f = frames[p], f.op \notin RunOps,
         NEW h, Continue(p, h), faults' = faults,
         \A al \in Alerts : alerts'[al] = "INVESTIGATING" => alerts[al] = "INVESTIGATING",
         h.op = f.op, h.pc # "audit"
  PROVE  RunsGoOn
  BY FrameStep, SameWork DEF RunsGoOn

\* An idle handler takes up something else than a run.
LEMMA BeginStep ==
  ASSUME IInv, RunInv, NEW p \in Procs, Idle(p), NEW h, Continue(p, h),
         UNCHANGED <<alerts, faults>>, h.op \notin RunOps, h.pc # "audit"
  PROVE  RunsGoOn
<1>1. frames[p].op \notin RunOps
  BY DEF RunInv, IdleRunsNothing, RunOps
<1> QED BY <1>1, FrameStep, SameWork DEF RunsGoOn

-----------------------------------------------------------------------------
\* The tools and the rule endpoints.
LEMMA RuleKeepsRuns == ASSUME IInv, RunInv, NEW p \in Procs, RuleStep(p) PROVE RunsGoOn
<1>0. PICK f \in Frame : f = frames[p] /\ FrameOK(f)
  BY HandlerFrame
<1> USE <1>0 DEF At
<1>1. CASE ExecuteRefuse(p)
  BY <1>1, QuietStep DEF ExecuteRefuse, AfterRefusal, AfterExecute, RunOps, Frame
<1>2. CASE ExecuteLookup(p)
  <2>1. CASE Continue(p, [f EXCEPT !.pc = "insert"])
    BY <1>2, <2>1, QuietStep DEF ExecuteLookup, Frame
  <2>2. ASSUME NEW r \in Rules, Continue(p, WithRule(f, r, FALSE)) PROVE RunsGoOn
    BY <1>2, <2>2, QuietStep DEF ExecuteLookup, WithRule, AfterExecute, RunOps, Frame
  <2> QED BY <1>2, <2>1, <2>2 DEF ExecuteLookup, Clashes, ActiveFor
<1>3. CASE ExecuteInsert(p)
  <2>1. PICK r \in Rules : Continue(p, WithRule(f, r, TRUE))
    BY <1>3 DEF ExecuteInsert
  <2> QED BY <1>3, <2>1, QuietStep DEF ExecuteInsert, WithRule, AfterExecute, RunOps, Frame
<1>4. CASE VerifyList(p)
  BY <1>4, QuietStep DEF VerifyList, AfterVerify, RunOps, Frame
<1>5. CASE VerifyCheck(p)
  <2>1. PICK r \in f.todo : \E e \in VerifyAnswers(f.snap[r].action, f.snap[r].enf) :
          Continue(p, [f EXCEPT !.pc = IF f.todo = {r} THEN AfterVerify(f.op) ELSE "check",
                                !.todo = @ \ {r}, !.snap[r] = NoRule,
                                !.seen = @ \cup {e.status}])
    BY <1>5 DEF VerifyCheck
  <2>2. PICK e : Continue(p, [f EXCEPT !.pc = IF f.todo = {r} THEN AfterVerify(f.op) ELSE "check",
                                       !.todo = @ \ {r}, !.snap[r] = NoRule,
                                       !.seen = @ \cup {e.status}])
    BY <2>1
  <2> QED BY <1>5, <2>2, QuietStep DEF VerifyCheck, AfterVerify, RunOps, Frame
<1>6. CASE ToggleClash(p)
  BY <1>6, OtherStep DEF ToggleClash, FrameOK, OpOK, RunOps, Frame
<1>7. CASE ToggleEnable(p)
  BY <1>7, OtherStep DEF ToggleEnable, FrameOK, OpOK, RunOps, Frame
<1>8. CASE ToggleDisable(p)
  BY <1>8, OtherStep DEF ToggleDisable, FrameOK, OpOK, RunOps, Frame
<1>9. CASE RecheckWrite(p)
  BY <1>9, OtherStep DEF RecheckWrite, FrameOK, OpOK, RunOps, Frame
<1>10. CASE SweepRule(p)
  <2>1. PICK r \in f.todo :
          Continue(p, [f EXCEPT !.pc = IF f.todo = {r} THEN AfterSweep(f.op) ELSE "sweep",
                                !.todo = @ \ {r}, !.snap[r] = NoRule])
    BY <1>10 DEF SweepRule
  <2>2. f.op \notin RunOps
    BY <1>10 DEF SweepRule, FrameOK, OpOK, RunOps
  <2> QED BY <1>10, <2>1, <2>2, OtherStep DEF SweepRule, AfterSweep, Frame
<1> QED BY <1>1, <1>2, <1>3, <1>4, <1>5, <1>6, <1>7, <1>8, <1>9, <1>10 DEF RuleStep

\* The approval queue.
LEMMA ApprovalKeepsRuns == ASSUME IInv, RunInv, NEW p \in Procs, ApprovalStep(p) PROVE RunsGoOn
<1>0. PICK f \in Frame : f = frames[p] /\ FrameOK(f)
  BY HandlerFrame
<1> USE <1>0 DEF At
<1>a. ASSUME NEW a \in Approvals, Continue(p, Holding(f, a)), UNCHANGED <<alerts, faults>>,
             f.pc \in {"request", "propose"}
      PROVE  RunsGoOn
  BY <1>a, QuietStep DEF Holding, AfterRequest, RunOps, Frame
<1>1. CASE RequestLookup(p)
  <2>1. CASE Continue(p, [f EXCEPT !.pc = "active"])
    BY <1>1, <2>1, QuietStep DEF RequestLookup, Frame
  <2> QED BY <1>1, <1>a, <2>1 DEF RequestLookup, Open
<1>2. CASE RequestActive(p)
  BY <1>2, QuietStep DEF RequestActive, AfterRequest, RunOps, Frame
<1>3. CASE RequestInsert(p)
  BY <1>3, <1>a DEF RequestInsert
<1>4. CASE ExpireOne(p)
  <2>1. f.op \notin RunOps
    BY <1>4 DEF ExpireOne, FrameOK, OpOK, RunOps
  <2>2. PICK a \in f.held :
          Continue(p, [f EXCEPT !.pc = IF f.held = {a} THEN "idle" ELSE "lapse",
                                !.held = @ \ {a}])
    BY <1>4 DEF ExpireOne
  <2> QED BY <1>4, <2>1, <2>2, OtherStep DEF ExpireOne, Frame
<1>5. CASE DecideReject(p)
  BY <1>5, OtherStep DEF DecideReject, FrameOK, OpOK, RunOps, Frame
<1>6. CASE DecideFail(p)
  BY <1>6, OtherStep DEF DecideFail, FrameOK, OpOK, RunOps, Frame
<1>7. CASE DecideApprove(p)
  BY <1>7, OtherStep DEF DecideApprove, FrameOK, OpOK, RunOps, Frame
<1>8. CASE ReflectRead(p)
  BY <1>8, OtherStep DEF ReflectRead, AfterReflect, FrameOK, OpOK, RunOps, Frame
<1>9. CASE ReflectWrite(p)
  BY <1>9, OtherStep DEF ReflectWrite, FrameOK, OpOK, RunOps, Frame
<1>10. CASE ReflectLink(p)
  BY <1>10, OtherStep DEF ReflectLink, AfterReflect, FrameOK, OpOK, RunOps, Frame
<1>11. CASE DecideInv(p)
  BY <1>11, OtherStep DEF DecideInv, FrameOK, OpOK, RunOps, Frame
<1>12. CASE DecideAlert(p)
  BY <1>12, OtherStep DEF DecideAlert, FrameOK, OpOK, RunOps, Frame
<1>13. CASE DecideContain(p)
  <2>1. \A al \in Alerts : alerts'[al] = "INVESTIGATING" => alerts[al] = "INVESTIGATING"
    BY <1>13 DEF DecideContain, IInv, TypeOK
  <2> QED BY <1>13, <2>1, OtherStep DEF DecideContain, FrameOK, OpOK, RunOps, Frame
<1> QED BY <1>1, <1>2, <1>3, <1>4, <1>5, <1>6, <1>7, <1>8, <1>9, <1>10, <1>11, <1>12, <1>13
        DEF ApprovalStep

\* The statuses an outcome stands for are final.
LEMMA OutcomeIsFinal ==
  ASSUME NEW o \in Outcomes PROVE OUTCOME_STATUS[o] # "INVESTIGATING"
  BY DEF OUTCOME_STATUS, Outcomes

\* Writing a status other than INVESTIGATING puts no alert under investigation.
LEMMA StatusWrite ==
  ASSUME IInv, NEW al, NEW st, st # "INVESTIGATING", alerts' = [alerts EXCEPT ![al] = st]
  PROVE  /\ \A x \in Alerts : alerts'[x] = "INVESTIGATING" => alerts[x] = "INVESTIGATING"
         /\ al \in Alerts => alerts'[al] # "INVESTIGATING"
  BY DEF IInv, TypeOK

\* A run begins: it is the only one of its alert.
LEMMA StartRunKeepsRuns == ASSUME IInv, RunInv, NEW p \in Procs, StartRun(p) PROVE RunInv'
<1>1. PICK al \in Alerts, i \in Invs :
        /\ ~Running(al)
        /\ Continue(p, [IdleFrame EXCEPT !.op = "run", !.pc = "mark", !.alert = al, !.inv = i])
  BY DEF StartRun
<1>2. PICK g : /\ g.op = "run" /\ g.pc = "mark" /\ g.alert = al
               /\ \A q \in Procs : frames'[q] = IF q = p THEN g ELSE frames[q]
  <2> DEFINE h == [IdleFrame EXCEPT !.op = "run", !.pc = "mark", !.alert = al, !.inv = i]
  <2>1. h.op = "run" /\ h.pc = "mark" /\ h.alert = al
    BY IdleFrameOK DEF Frame
  <2>2. Continue(p, h)
    BY <1>1
  <2> HIDE DEF h
  <2> QED BY <2>1, <2>2 DEF Continue, IInv, TypeOK
<1>3. frames[p].op \notin RunOps
  BY DEF StartRun, RunInv, IdleRunsNothing, RunOps
<1>4. OneRun'
  BY <1>1, <1>2 DEF RunInv, OneRun, Running
<1>5. AuditedIsClosed'
  BY <1>2 DEF StartRun, RunInv, AuditedIsClosed, At
<1>6. IdleRunsNothing'
  BY <1>2 DEF RunInv, IdleRunsNothing, Idle
<1>7. InvestigatingIsRunning'
  BY <1>2, <1>3 DEF StartRun, RunInv, InvestigatingIsRunning, Running
<1> QED BY <1>4, <1>5, <1>6, <1>7 DEF RunInv

\* Only the run of an alert puts it under investigation.
LEMMA MarkKeepsRuns == ASSUME IInv, RunInv, NEW p \in Procs, MarkInvestigating(p) PROVE RunsGoOn
<1>0. PICK f \in Frame : f = frames[p] /\ FrameOK(f) /\ f.pc = "mark"
  BY HandlerFrame DEF MarkInvestigating, At
<1>1. f.op = "run" /\ f.alert \in Alerts
  BY <1>0 DEF FrameOK, OpOK, RunOK, RunOps
<1>2. PICK g : /\ g.op \in RunOps /\ g.pc \in {"llm", "decide"} /\ g.alert = f.alert
               /\ \A q \in Procs : frames'[q] = IF q = p THEN g ELSE frames[q]
  <2>1. ASSUME NEW h, Continue(p, h), h.op \in RunOps, h.pc \in {"llm", "decide"},
               h.alert = f.alert
        PROVE  \A q \in Procs : frames'[q] = IF q = p THEN h ELSE frames[q]
    BY <2>1 DEF Continue, IInv, TypeOK
  <2>2. PICK h : /\ Continue(p, h) /\ h.op \in RunOps /\ h.pc \in {"llm", "decide"}
                 /\ h.alert = f.alert
    <3>1. CASE Continue(p, [f EXCEPT !.op = "llm", !.pc = "llm"])
      <4> DEFINE h == [f EXCEPT !.op = "llm", !.pc = "llm"]
      <4>1. h.op \in RunOps /\ h.pc = "llm" /\ h.alert = f.alert
        BY DEF RunOps, Frame
      <4> QED BY <3>1, <4>1
    <3>2. CASE Continue(p, [f EXCEPT !.pc = "decide"])
      <4> DEFINE h == [f EXCEPT !.pc = "decide"]
      <4>1. h.op \in RunOps /\ h.pc = "decide" /\ h.alert = f.alert
        BY <1>1 DEF RunOps, Frame
      <4> QED BY <3>2, <4>1
    <3> QED BY <1>0, <3>1, <3>2 DEF MarkInvestigating
  <2> QED BY <2>1, <2>2
<1>3. f.op \in RunOps
  BY <1>1 DEF RunOps
<1>4. \A al \in Alerts \ {f.alert} : alerts'[al] = alerts[al]
  BY <1>0 DEF MarkInvestigating, IInv, TypeOK
<1>5. OneRun'
  BY <1>0, <1>2, <1>3 DEF RunInv, OneRun
<1>6. AuditedIsClosed'
  <2> SUFFICES ASSUME NEW q \in Procs, frames'[q].pc = "audit"
               PROVE  alerts'[frames'[q].alert] # "INVESTIGATING"
    BY DEF AuditedIsClosed, At
  <2>1. q # p /\ frames'[q] = frames[q] /\ At(q, "audit")
    BY <1>2 DEF At
  <2>2. frames[q].op \in RunOps /\ frames[q].alert \in Alerts
    BY <2>1, RunHasAlert
  <2>3. frames[q].alert # f.alert
    BY <2>1, <2>2, <1>0, <1>3 DEF RunInv, OneRun
  <2> QED BY <2>1, <2>2, <2>3, <1>4 DEF RunInv, AuditedIsClosed
<1>7. IdleRunsNothing'
  BY <1>2 DEF RunInv, IdleRunsNothing, Idle
<1>8. InvestigatingIsRunning'
  BY <1>0, <1>2, <1>4 DEF MarkInvestigating, RunInv, InvestigatingIsRunning, Running
<1>9. \A al : Running(al)' <=> Running(al)
  BY <1>0, <1>2, <1>3 DEF Running
<1> QED BY <1>5, <1>6, <1>7, <1>8, <1>9 DEF RunInv, RunsGoOn, Worked

\* The other steps of a run: it ends only once its alert is closed.
LEMMA RunKeepsRuns ==
  ASSUME IInv, RunInv, NEW p \in Procs, RunStep(p) PROVE RunInv' /\ (FinishAudit(p) \/ RunsGoOn)
<1>r. RunsGoOn => RunInv'
  BY DEF RunsGoOn
<1>0. PICK f \in Frame : f = frames[p] /\ FrameOK(f)
  BY HandlerFrame
<1> USE <1>r, <1>0 DEF At
<1>1. CASE RunDecide(p)
  <2>1. f.op \in RunOps
    BY <1>1 DEF RunDecide, FrameOK, OpOK
  <2>2. PICK o, yes, plan :
          Continue(p, [f EXCEPT !.op = "run", !.pc = "contain", !.outcome = o, !.plan = plan,
                                !.yes = yes, !.seen = {}])
    BY <1>1 DEF RunDecide
  <2> QED BY <1>1, <2>1, <2>2, QuietStep DEF RunDecide, RunOps, Frame
<1>2. CASE RunContain(p)
  BY <1>2, QuietStep DEF RunContain, Frame
<1>3. CASE RunVerify(p)
  BY <1>3, QuietStep DEF RunVerify, Frame
<1>4. CASE RunVerified(p)
  BY <1>4, QuietStep DEF RunVerified, Frame
<1>5. CASE Unblock(p)
  <2>1. PICK r \in f.todo : \E e \in RemoveAnswers(f.snap[r].enf) :
          Continue(p, [f EXCEPT !.pc = IF f.todo = {r} THEN "llm" ELSE "unblock",
                                !.todo = @ \ {r}, !.snap[r] = NoRule])
    BY <1>5 DEF Unblock
  <2> QED BY <1>5, <2>1, QuietStep DEF Unblock, Frame
<1>6. CASE Finish(p)
  BY <1>6, QuietStep DEF Finish, Frame
<1>7. CASE FinishLink(p)
  <2>1. PICK r \in f.todo : Continue(p, Linked(f, r))
    BY <1>7 DEF FinishLink
  <2> QED BY <1>7, <2>1, QuietStep DEF FinishLink, Linked, Frame
<1>8. CASE FinishClose(p)
  <2>1. f.op \in RunOps /\ f.alert \in Alerts /\ f.outcome \in Outcomes
    BY <1>8 DEF FinishClose, FrameOK, OpOK, RunOK, Frame
  <2>2. PICK st : st # "INVESTIGATING" /\ alerts' = [alerts EXCEPT ![f.alert] = st]
    BY <1>8, <2>1, OutcomeIsFinal DEF FinishClose
  <2>3. /\ \A x \in Alerts : alerts'[x] = "INVESTIGATING" => alerts[x] = "INVESTIGATING"
        /\ alerts'[f.alert] # "INVESTIGATING"
    BY <2>1, <2>2, StatusWrite
  <2>4. Continue(p, [f EXCEPT !.pc = "audit"])
    BY <1>8 DEF FinishClose
  <2>5. UNCHANGED Worked
    BY <2>1, <2>4, SameWork DEF Frame
  <2> QED BY <1>8, <2>1, <2>3, <2>4, <2>5, FrameStep DEF FinishClose, Frame, RunsGoOn
<1>9. CASE FinishAudit(p)
  <2>1. alerts[f.alert] # "INVESTIGATING"
    BY <1>9 DEF FinishAudit, RunInv, AuditedIsClosed
  <2> QED BY <1>9, <2>1, FrameStep DEF FinishAudit, Frame
<1> QED BY <1>1, <1>2, <1>3, <1>4, <1>5, <1>6, <1>7, <1>8, <1>9, MarkKeepsRuns DEF RunStep

\* What the model asks for.
LEMMA LlmKeepsRuns == ASSUME IInv, RunInv, NEW p \in Procs, LlmStep(p) PROVE RunsGoOn
<1>0. PICK f \in Frame : f = frames[p] /\ FrameOK(f)
  BY HandlerFrame
<1> USE <1>0 DEF At
<1>1. CASE LlmContain(p)
  <2>1. PICK action \in Actions, ip \in IPs, yes \in Executes(FALSE) :
          Continue(p, [f EXCEPT !.pc = IF yes THEN "exec" ELSE "request",
                                !.action = action, !.ip = ip])
    BY <1>1 DEF LlmContain
  <2> QED BY <1>1, <2>1, QuietStep DEF LlmContain, Frame
<1>2. CASE LlmVerify(p)
  BY <1>2, QuietStep DEF LlmVerify, Frame
<1>3. CASE LlmUnblock(p)
  BY <1>3, QuietStep DEF LlmUnblock, Frame
<1>4. CASE LlmVerdict(p)
  BY <1>4, QuietStep DEF LlmVerdict, Frame
<1>5. CASE LlmEnd(p)
  BY <1>5, QuietStep DEF LlmEnd, Frame
<1>6. CASE LlmFallback(p)
  BY <1>6, QuietStep DEF LlmFallback, Frame
<1> QED BY <1>1, <1>2, <1>3, <1>4, <1>5, <1>6 DEF LlmStep

\* Overrides and status changes.
LEMMA AnalystKeepsRuns == ASSUME IInv, RunInv, NEW p \in Procs, AnalystStep(p) PROVE RunsGoOn
<1>0. PICK f \in Frame : f = frames[p] /\ FrameOK(f)
  BY HandlerFrame
<1> USE <1>0 DEF At
<1>1. CASE OverrideList(p)
  <2>1. f.op \notin RunOps
    BY <1>1 DEF OverrideList, FrameOK, OpOK, RunOps
  <2>2. PICK R, ip :
          \/ Continue(p, [f EXCEPT !.pc = "rollback", !.todo = R, !.snap = Snapshot(R)])
          \/ Continue(p, [f EXCEPT !.pc = "exec", !.action = "BLOCK", !.ip = ip])
          \/ Continue(p, [f EXCEPT !.pc = "ovr_write"])
    BY <1>1 DEF OverrideList
  <2> QED BY <1>1, <2>1, <2>2, OtherStep DEF OverrideList, Frame
<1>2. CASE Rollback(p)
  <2>1. PICK r \in f.todo :
          Continue(p, [f EXCEPT !.pc = IF f.todo = {r} THEN "ovr_write" ELSE "rollback",
                                !.todo = @ \ {r}, !.snap[r] = NoRule])
    BY <1>2 DEF Rollback
  <2>2. f.op \notin RunOps
    BY <1>2 DEF Rollback, FrameOK, OpOK, RunOps
  <2> QED BY <1>2, <2>1, <2>2, OtherStep DEF Rollback, Frame
<1>3. CASE OverrideWrite(p)
  BY <1>3, OtherStep DEF OverrideWrite, FrameOK, OpOK, RunOps, Frame
<1>4. CASE OverrideRule(p)
  BY <1>4, OtherStep DEF OverrideRule, FrameOK, OpOK, RunOps, Frame
<1>5. CASE OverrideAlert(p)
  <2>1. f.op = "override" /\ f.outcome \in Outcomes
    BY <1>5 DEF OverrideAlert, FrameOK, OpOK, OverrideOK, Frame
  <2>2. PICK st : st # "INVESTIGATING" /\ alerts' = [alerts EXCEPT ![f.alert] = st]
    BY <1>5, <2>1, OutcomeIsFinal DEF OverrideAlert
  <2>3. \A x \in Alerts : alerts'[x] = "INVESTIGATING" => alerts[x] = "INVESTIGATING"
    BY <2>2, StatusWrite
  <2> QED BY <1>5, <2>1, <2>3, OtherStep DEF OverrideAlert, RunOps, Frame
<1>6. CASE SetStatus(p)
  <2>1. f.status # "INVESTIGATING"
    BY <1>6 DEF SetStatus, FrameOK, OpOK
  <2>2. \A x \in Alerts : alerts'[x] = "INVESTIGATING" => alerts[x] = "INVESTIGATING"
    BY <1>6, <2>1 DEF SetStatus
  <2> QED BY <1>6, <2>2, OtherStep DEF SetStatus, FrameOK, OpOK, RunOps, Frame
<1> QED BY <1>1, <1>2, <1>3, <1>4, <1>5, <1>6 DEF AnalystStep

\* A firewall's pull.
LEMMA FeedKeepsRuns == ASSUME IInv, RunInv, NEW p \in Procs, FeedStep(p) PROVE RunsGoOn
<1>0. PICK f \in Frame : f = frames[p] /\ FrameOK(f)
  BY HandlerFrame
<1>1. f.op = "pull"
  BY <1>0 DEF FeedStep, PullList, PullMark, PullOwn, PullInv, PullAlert, PullContain, At,
     FrameOK, OpOK
<1>2. f.op \notin RunOps
  BY <1>1 DEF RunOps
<1> USE <1>0, <1>2 DEF At
<1>3. CASE PullList(p)
  BY <1>3, OtherStep DEF PullList, Frame
<1>4. CASE PullMark(p)
  <2>1. PICK r \in f.todo :
          LET noted == f.invset \cup ({f.snap[r].inv} \ {None}) IN
          Continue(p, [f EXCEPT !.pc = CASE f.todo # {r} -> "pull_mark"
                                         [] f.todo = {r} /\ noted # {} -> "pull_own"
                                         [] OTHER -> "idle",
                                !.todo = @ \ {r}, !.snap[r] = NoRule, !.invset = noted])
    BY <1>4 DEF PullMark
  <2> DEFINE noted == f.invset \cup ({f.snap[r].inv} \ {None})
             pc == CASE f.todo # {r} -> "pull_mark"
                     [] f.todo = {r} /\ noted # {} -> "pull_own"
                     [] OTHER -> "idle"
             h == [f EXCEPT !.pc = pc, !.todo = @ \ {r}, !.snap[r] = NoRule, !.invset = noted]
  <2>2. Continue(p, h)
    BY <2>1
  <2>3. pc # "audit"
    OBVIOUS
  <2>4. h.op = f.op /\ h.pc # "audit"
    BY <2>3 DEF Frame
  <2>5. UNCHANGED <<alerts, faults>>
    BY <1>4 DEF PullMark
  <2> HIDE DEF h
  <2> QED BY <2>2, <2>4, <2>5, OtherStep
<1>5. CASE PullOwn(p)
  BY <1>5, OtherStep DEF PullOwn, Frame
<1>6. CASE PullInv(p)
  <2>1. PICK i \in f.invset :
          LET g == [f EXCEPT !.invset = @ \ {i}, !.inv = i, !.alert = invs[i].alert] IN
          Continue(p, [g EXCEPT !.pc =
            IF Recorded(i) /\ invs[i].outcome = "ATTACK_SUCCEEDED"
            THEN "pull_alert" ELSE NextInv(g)])
    BY <1>6 DEF PullInv
  <2> QED BY <1>6, <2>1, OtherStep DEF PullInv, NextInv, Frame
<1>7. CASE PullAlert(p)
  BY <1>7, OtherStep DEF PullAlert, NextInv, Frame
<1>8. CASE PullContain(p)
  <2>1. \A x \in Alerts : alerts'[x] = "INVESTIGATING" => alerts[x] = "INVESTIGATING"
    BY <1>8, StatusWrite DEF PullContain
  <2> QED BY <1>8, <2>1, OtherStep DEF PullContain, NextInv, Frame
<1> QED BY <1>3, <1>4, <1>5, <1>6, <1>7, <1>8 DEF FeedStep

\* A handler that takes up a request, a sweep or a pull.
LEMMA StartKeepsRuns ==
  ASSUME IInv, RunInv, NEW p \in Procs, Start(p) PROVE RunInv' /\ (StartRun(p) \/ RunsGoOn)
<1>r. RunsGoOn => RunInv'
  BY DEF RunsGoOn
<1>0. IdleFrame \in Frame
  BY IdleFrameOK
<1> USE <1>r
<1> DEFINE Begins(h) == Continue(p, h) /\ h.op \notin RunOps /\ h.pc # "audit"
<1>a. ASSUME Idle(p), NEW h, Begins(h), UNCHANGED <<alerts, faults>> PROVE RunsGoOn
  BY <1>a, BeginStep
<1> HIDE DEF Begins
<1>1. CASE StartAdd(p)
  <2>1. PICK op \in {"add", "contain"}, action \in Actions, ip \in IPs :
          Continue(p, [IdleFrame EXCEPT !.op = op, !.pc = "exec", !.action = action, !.ip = ip])
    BY <1>1 DEF StartAdd
  <2>2. Begins([IdleFrame EXCEPT !.op = op, !.pc = "exec", !.action = action, !.ip = ip])
    BY <1>0, <2>1 DEF Begins, RunOps, Frame
  <2> QED BY <1>1, <1>a, <2>2 DEF StartAdd
<1>2. CASE StartProbe(p)
  <2>1. PICK ip \in IPs :
          Continue(p, [IdleFrame EXCEPT !.op = "probe", !.pc = "verify", !.ip = ip])
    BY <1>2 DEF StartProbe
  <2>2. Begins([IdleFrame EXCEPT !.op = "probe", !.pc = "verify", !.ip = ip])
    BY <1>0, <2>1 DEF Begins, RunOps, Frame
  <2> QED BY <1>2, <1>a, <2>2 DEF StartProbe
<1>3. CASE StartToggle(p)
  <2>1. PICK r \in Rules :
          Continue(p, [IdleFrame EXCEPT !.op = "toggle", !.rule = r, !.snap = Snapshot({r}),
                                        !.pc = IF Active(r) THEN "disable" ELSE "clash"])
    BY <1>3 DEF StartToggle
  <2>2. Begins([IdleFrame EXCEPT !.op = "toggle", !.rule = r, !.snap = Snapshot({r}),
                                 !.pc = IF Active(r) THEN "disable" ELSE "clash"])
    BY <1>0, <2>1 DEF Begins, RunOps, Frame
  <2> QED BY <1>3, <1>a, <2>2 DEF StartToggle
<1>4. CASE StartRecheck(p)
  <2>1. PICK r \in Rules :
          Continue(p, [IdleFrame EXCEPT !.op = "recheck", !.pc = "recheck", !.rule = r,
                                        !.snap = Snapshot({r})])
    BY <1>4 DEF StartRecheck
  <2>2. Begins([IdleFrame EXCEPT !.op = "recheck", !.pc = "recheck", !.rule = r,
                                 !.snap = Snapshot({r})])
    BY <1>0, <2>1 DEF Begins, RunOps, Frame
  <2> QED BY <1>4, <1>a, <2>2 DEF StartRecheck
<1>b. ASSUME NEW op \in {"sweep", "pull"}, NEW action \in Actions, NEW R,
             NEW next \in {"idle", "pull_list"},
             Continue(p, Sweeping([IdleFrame EXCEPT !.op = op, !.action = action], R, next))
      PROVE  Begins(Sweeping([IdleFrame EXCEPT !.op = op, !.action = action], R, next))
  BY <1>0, <1>b DEF Begins, Sweeping, RunOps, Frame
<1>5. CASE StartSweep(p)
  <2>1. Begins(Sweeping([IdleFrame EXCEPT !.op = "sweep"], Due, "idle"))
    BY <1>0, <1>5 DEF StartSweep, Begins, Sweeping, RunOps, Frame
  <2> QED BY <1>5, <1>a, <2>1 DEF StartSweep
<1>6. ASSUME NEW action \in Actions, StartPull(p, action) PROVE RunsGoOn
  <2>1. PICK R :
          Continue(p, Sweeping([IdleFrame EXCEPT !.op = "pull", !.action = action], R,
                               "pull_list"))
    BY <1>6 DEF StartPull
  <2> QED BY <1>6, <1>a, <1>b, <2>1 DEF StartPull
<1>7. CASE StartPropose(p)
  <2>1. PICK action \in Actions, ip \in IPs, al \in Alerts \cup {None} :
          Continue(p, [IdleFrame EXCEPT !.op = "propose", !.pc = "request",
                                        !.action = action, !.ip = ip, !.alert = al])
    BY <1>7 DEF StartPropose
  <2>2. Begins([IdleFrame EXCEPT !.op = "propose", !.pc = "request",
                                 !.action = action, !.ip = ip, !.alert = al])
    BY <1>0, <2>1 DEF Begins, RunOps, Frame
  <2> QED BY <1>7, <1>a, <2>2 DEF StartPropose
<1>8. CASE StartExpire(p)
  <2>1. Begins([IdleFrame EXCEPT !.op = "lapse", !.pc = "lapse", !.held = Stale])
    BY <1>0, <1>8 DEF StartExpire, Begins, RunOps, Frame
  <2> QED BY <1>8, <1>a, <2>1 DEF StartExpire
<1>9. CASE StartDecide(p)
  <2>1. PICK a \in Approvals, way \in {"approve", "reject"} :
          Continue(p, [IdleFrame EXCEPT !.op = "decide", !.apr = a, !.inv = approvals[a].inv,
                         !.alert = approvals[a].alert, !.action = approvals[a].action,
                         !.ip = approvals[a].ip, !.yes = (way = "approve"),
                         !.pc = IF way = "approve" THEN "exec" ELSE "reject"])
    BY <1>9 DEF StartDecide
  <2>2. Begins([IdleFrame EXCEPT !.op = "decide", !.apr = a, !.inv = approvals[a].inv,
                         !.alert = approvals[a].alert, !.action = approvals[a].action,
                         !.ip = approvals[a].ip, !.yes = (way = "approve"),
                         !.pc = IF way = "approve" THEN "exec" ELSE "reject"])
    BY <1>0, <2>1 DEF Begins, RunOps, Frame
  <2> QED BY <1>9, <1>a, <2>2 DEF StartDecide
<1>10. CASE StartOverride(p)
  <2>1. PICK i \in Invs, o \in Outcomes :
          Continue(p, [IdleFrame EXCEPT !.op = "override", !.pc = "ovr_list", !.inv = i,
                                        !.alert = invs[i].alert, !.outcome = o])
    BY <1>10 DEF StartOverride
  <2>2. Begins([IdleFrame EXCEPT !.op = "override", !.pc = "ovr_list", !.inv = i,
                                 !.alert = invs[i].alert, !.outcome = o])
    BY <1>0, <2>1 DEF Begins, RunOps, Frame
  <2> QED BY <1>10, <1>a, <2>2 DEF StartOverride
<1>11. CASE StartStatus(p)
  <2>1. PICK T, st :
          Continue(p, [IdleFrame EXCEPT !.op = "status", !.pc = "set_status",
                                        !.targets = T, !.status = st])
    BY <1>11 DEF StartStatus
  <2>2. Begins([IdleFrame EXCEPT !.op = "status", !.pc = "set_status",
                                 !.targets = T, !.status = st])
    BY <1>0, <2>1 DEF Begins, RunOps, Frame
  <2> QED BY <1>11, <1>a, <2>2 DEF StartStatus
<1> QED BY <1>1, <1>2, <1>3, <1>4, <1>5, <1>6, <1>7, <1>8, <1>9, <1>10, <1>11, StartRunKeepsRuns
        DEF Start, RuleStart, ApprovalStart, AnalystStart

\* A run that fails reopens its alert, or the failure is counted.
LEMMA RunFailKeepsRuns ==
  ASSUME IInv, RunInv, NEW p \in Procs, RunFail(p) PROVE RunInv' /\ (frames'[p].op = "idle" \/ RunsGoOn)
<1>r. RunsGoOn => RunInv'
  BY DEF RunsGoOn
<1>0. PICK f \in Frame : f = frames[p] /\ FrameOK(f)
  BY HandlerFrame
<1>1. f.op \in RunOps /\ f.alert \in Alerts
  BY <1>0, RunHasAlert DEF RunFail
<1> USE <1>r, <1>0, <1>1
<1>a. ASSUME Continue(p, [f EXCEPT !.pc = "idle"]) PROVE frames'[p].op = "idle"
  <2>1. Continue(p, IdleFrame)
    BY <1>a, ReturnFrame
  <2> QED BY <2>1 DEF Continue, IInv, TypeOK, IdleFrame
<1>2. CASE /\ f.pc \in {"request", "active", "propose"}
           /\ Continue(p, [f EXCEPT !.pc = AfterRequest(f.op)])
           /\ UNCHANGED <<alerts, faults>>
  BY <1>2, QuietStep DEF AfterRequest, RunOps, Frame
<1>3. CASE /\ \E r \in f.todo : Continue(p, Linked(f, r))
           /\ UNCHANGED <<alerts, faults>>
  <2>1. PICK r \in f.todo : Continue(p, Linked(f, r))
    BY <1>3
  <2> QED BY <1>3, <2>1, QuietStep DEF Linked, Frame
<1>4. CASE /\ Continue(p, [f EXCEPT !.pc = "decide"])
           /\ UNCHANGED <<alerts, faults>>
  BY <1>4, QuietStep DEF Frame
<1>5. CASE /\ Continue(p, [f EXCEPT !.pc = "idle"])
           /\ Reopen(f.alert) /\ UNCHANGED faults
  <2>1. /\ \A x \in Alerts : alerts'[x] = "INVESTIGATING" => alerts[x] = "INVESTIGATING"
        /\ alerts'[f.alert] # "INVESTIGATING"
    BY <1>5, StatusWrite DEF Reopen
  <2> QED BY <1>5, <1>a, <2>1, FrameStep DEF Frame
<1>6. CASE /\ Continue(p, [f EXCEPT !.pc = "idle"])
           /\ faults' = faults + 1 /\ UNCHANGED alerts
  <2>1. faults' # 0
    BY <1>6 DEF IInv, TypeOK
  <2> QED BY <1>6, <1>a, <2>1, FrameStep DEF Frame
<1> QED BY <1>2, <1>3, <1>4, <1>5, <1>6 DEF RunFail

\* A request that ends with an error ends no run.
LEMMA HandlerFailKeepsRuns == ASSUME IInv, RunInv, NEW p \in Procs, HandlerFail(p) PROVE RunsGoOn
<1>0. PICK f \in Frame : f = frames[p] /\ FrameOK(f)
  BY HandlerFrame
<1>1. PICK pc \in {"relink", "dec_inv", "idle"} : Continue(p, [f EXCEPT !.pc = pc])
  BY <1>0 DEF HandlerFail, AfterReflect
<1>2. f.op \notin RunOps
  BY <1>0 DEF HandlerFail
<1> QED BY <1>0, <1>1, <1>2, OtherStep DEF HandlerFail, Frame

\* Nobody is at work after a restart, which is a fault.
LEMMA CrashKeepsRuns == ASSUME IInv, RunInv, Crash PROVE RunInv'
<1>1. IdleFrame.op = "idle" /\ IdleFrame.pc = "idle" /\ "idle" \notin RunOps
  BY DEF IdleFrame, RunOps
<1>2. \A p \in Procs : frames'[p] = IdleFrame
  BY DEF Crash
<1>3. faults' # 0
  BY DEF Crash, IInv, TypeOK
<1>4. OneRun' /\ AuditedIsClosed' /\ IdleRunsNothing'
  BY <1>1, <1>2 DEF OneRun, AuditedIsClosed, IdleRunsNothing, At, Idle
<1>5. InvestigatingIsRunning'
  BY <1>3 DEF InvestigatingIsRunning
<1> QED BY <1>4, <1>5 DEF RunInv

\* A step that moves neither handlers nor alerts.
LEMMA StillKeepsRuns ==
  ASSUME RunInv, UNCHANGED <<frames, alerts, faults>> PROVE RunInv'
  BY DEF RunInv, OneRun, AuditedIsClosed, IdleRunsNothing, InvestigatingIsRunning, Running,
     At, Idle

\* No handler is at work in the beginning.
LEMMA InitRunInv == Init => RunInv
<1> SUFFICES ASSUME Init PROVE RunInv
  OBVIOUS
<1>1. IdleFrame.op = "idle" /\ IdleFrame.pc = "idle" /\ "idle" \notin RunOps
  BY DEF IdleFrame, RunOps
<1>2. \A p \in Procs : frames[p] = IdleFrame
  BY DEF Init
<1>3. \A al \in Alerts : alerts[al] # "INVESTIGATING"
  BY DEF Init
<1> QED BY <1>1, <1>2, <1>3 DEF RunInv, OneRun, AuditedIsClosed, IdleRunsNothing,
        InvestigatingIsRunning, At, Idle

\* Every step keeps the runs and their alerts together.
LEMMA NextRunInv == IInv /\ RunInv /\ [Next]_vars => RunInv'
<1> SUFFICES ASSUME IInv, RunInv, [Next]_vars PROVE RunInv'
  OBVIOUS
<1>0. RunsGoOn => RunInv'
  BY DEF RunsGoOn
<1>1. ASSUME NEW p \in Procs, Step(p) PROVE RunInv'
  BY <1>0, <1>1, RuleKeepsRuns, ApprovalKeepsRuns, RunKeepsRuns, AnalystKeepsRuns, FeedKeepsRuns
  DEF Step
<1>2. CASE \E r \in Rules : Lapse(r)
  BY <1>2, StillKeepsRuns DEF Lapse
<1>3. CASE \E a \in Approvals : Age(a)
  BY <1>3, StillKeepsRuns DEF Age
<1>4. CASE UNCHANGED vars
  BY <1>4, StillKeepsRuns DEF vars
<1> QED BY <1>0, <1>1, <1>2, <1>3, <1>4, LlmKeepsRuns, StartKeepsRuns, RunFailKeepsRuns,
        HandlerFailKeepsRuns, CrashKeepsRuns
        DEF Next

-----------------------------------------------------------------------------
\* As long as the process has not restarted and no clean-up has failed, an alert reads
\* INVESTIGATING only while a run works on it, whatever else fails and however the
\* handlers interleave: run() leaves no alert behind.
THEOREM InvestigationsAreRunning == Spec => []InvestigatingIsRunning
<1>1. Init => IInv /\ RunInv
  BY InitIInv, InitRunInv
<1>2. IInv /\ RunInv /\ [Next]_vars => IInv' /\ RunInv'
  BY NextIInv, NextRunInv
<1>3. RunInv => InvestigatingIsRunning
  BY DEF RunInv
<1> QED BY <1>1, <1>2, <1>3, PTL DEF Spec

-----------------------------------------------------------------------------
(* One handler at a time.                                                   *)

\* The rules list the same rules, whatever is known of their enforcement.
SameRules ==
  \A r \in Rules : /\ rules'[r].state = rules[r].state /\ rules'[r].action = rules[r].action
                   /\ rules'[r].ip = rules[r].ip /\ rules'[r].inv = rules[r].inv

\* A handler that returned knows nothing that could be wrong.
LEMMA IdleKnows == Knows(IdleFrame) /\ Knows(IdleFrame)'
<1>1. /\ IdleFrame.pc = "idle" /\ IdleFrame.op = "idle"
  BY DEF IdleFrame
<1> QED BY <1>1 DEF Knows, WriterOK, ReaderOK, DeciderOK, ManualOK, Benign, Undecided

\* Steps at which a handler knows something of rules, or of requests.
ToRules == {"insert", "clash", "enable", "active", "propose", "check", "pull_mark", "recheck"}

\* Elsewhere it knows nothing that could be wrong.
LEMMA Carefree ==
  ASSUME NEW h, h.op \notin {"decide", "override"}, h.pc \notin ToRules \cup {"exec", "lapse"},
         h.op = "run" /\ h.pc \in {"contain", "request"} => (Manual => ~h.yes)
  PROVE  Knows(h) /\ Knows(h)'
  BY DEF Knows, WriterOK, ReaderOK, DeciderOK, ManualOK, Benign, ToRules

\* What is known of the rules is about what SameRules keeps.
LEMMA KnowsLasts ==
  ASSUME NEW h \in Frame, Knows(h), UNCHANGED approvals,
         SameRules \/ (h.pc \notin ToRules /\ ~Benign(h)), HeldOK(h), OpOK(h)
  PROVE  Knows(h)'
<1>1. WriterOK(h)'
  <2>1. CASE SameRules
    <3>1. \A a, ip : Clashes(a, ip)' = Clashes(a, ip)
      BY <2>1 DEF SameRules, Clashes, ActiveFor, Active
    <3>2. \A a, ip : Open(a, ip)' = Open(a, ip)
      BY DEF Open
    <3>3. \A i : LinkedTo(i)' = LinkedTo(i)
      BY <2>1 DEF SameRules, LinkedTo, Active
    <3>4. h.pc \in {"clash", "enable"} => h.rule \in Rules
      BY DEF OpOK, HeldOK, Frame
    <3> QED BY <2>1, <3>1, <3>2, <3>3, <3>4 DEF SameRules, Knows, WriterOK, Benign
  <2>2. CASE h.pc \notin ToRules /\ ~Benign(h)
    BY <2>2 DEF WriterOK, ToRules, Benign
  <2> QED BY <2>1, <2>2
<1>2. ReaderOK(h)'
  <2>1. CASE SameRules
    BY <2>1 DEF SameRules, Knows, ReaderOK, Active, OpOK, HeldOK, Frame
  <2>2. CASE h.pc \notin ToRules
    BY <2>2 DEF ReaderOK, ToRules
  <2> QED BY <2>1, <2>2
<1>3. DeciderOK(h)'
  BY DEF Knows, DeciderOK
<1>4. ManualOK(h)'
  BY DEF Knows, ManualOK, Manual, Refused
<1> QED BY <1>1, <1>2, <1>3, <1>4 DEF Knows

\* A step that leaves rules and requests alone.
LEMMA KnowsStill ==
  ASSUME NEW h, UNCHANGED <<rules, approvals>>, Knows(h) PROVE Knows(h)'
  BY DEF Knows, WriterOK, ReaderOK, DeciderOK, ManualOK, Manual, Refused, Benign, Clashes,
     ActiveFor, Active, Open, LinkedTo

\* What a handler knows after its own step.
LEMMA OwnStep ==
  ASSUME IInv, NEW p \in Procs, NEW h, Continue(p, h), h.pc # "idle" => Knows(h)'
  PROVE  Knows(frames[p])'
<1>1. PICK g : g = frames'[p] /\ g = IF h.pc = "idle" THEN IdleFrame ELSE h
  BY DEF Continue, IInv, TypeOK
<1>2. Knows(g)'
  BY <1>1, IdleKnows
<1> QED BY <1>1, <1>2

\* The same, for a step that leaves rules and requests alone.
LEMMA OwnQuiet ==
  ASSUME IInv, NEW p \in Procs, NEW h, Continue(p, h), UNCHANGED <<rules, approvals>>,
         h.pc # "idle" => Knows(h)
  PROVE  Knows(frames[p])'
  BY OwnStep, KnowsStill

\* A handler that goes where nothing is known of rules or requests.
LEMMA OwnCarefree ==
  ASSUME IInv, NEW p \in Procs, NEW h, Continue(p, h), h.op \notin {"decide", "override"},
         h.pc \notin ToRules \cup {"exec", "lapse"},
         h.op = "run" /\ h.pc \in {"contain", "request"} => (Manual => ~h.yes)
  PROVE  Knows(frames[p])'
  BY OwnStep, Carefree

\* A decision that goes on with the same request and the same intent.
LEMMA OwnDecide ==
  ASSUME IInv, NEW p \in Procs, NEW f, NEW h, Continue(p, h), f = frames[p], Knows(f),
         h.op = "decide", f.op = "decide", h.apr = f.apr, h.yes = f.yes,
         h.action = f.action, h.ip = f.ip,
         h.pc \notin ToRules \cup {"lapse"},
         UNCHANGED approvals,
         h.pc \in Undecided => f.pc \in Undecided /\ (h.pc = "fail" => Refused(f)),
         h.pc \notin Undecided /\ h.pc # "idle" => f.pc \notin Undecided \/ ~h.yes
  PROVE  Knows(frames[p])'
<1>1. ASSUME h.pc # "idle" PROVE Knows(h)'
  <2>1. WriterOK(h)' /\ ReaderOK(h)'
    BY DEF WriterOK, ReaderOK, ToRules, Benign
  <2>2. DeciderOK(h)'
    BY DEF Knows, DeciderOK
  <2>3. ManualOK(h)'
    BY <1>1 DEF Knows, ManualOK, Manual, Refused, ToRules
  <2> QED BY <2>1, <2>2, <2>3 DEF Knows
<1> QED BY <1>1, OwnStep

\* What a handler that was handed a rule keeps.
LEMMA WithRuleFields ==
  ASSUME NEW f \in Frame, NEW r \in Rules, NEW b \in BOOLEAN
  PROVE  \E h \in Frame :
           /\ h = WithRule(f, r, b)
           /\ h.op = f.op /\ h.apr = f.apr /\ h.yes = f.yes /\ h.action = f.action
           /\ h.ip = f.ip /\ h.pc = AfterExecute(f.op) /\ h.outcome = f.outcome
<1>1. PICK pc \in PCs : pc = AfterExecute(f.op)
  BY AfterInPCs DEF Frame
<1>2. PICK mine \in SUBSET Rules : mine = IF b THEN f.mine \cup {r} ELSE f.mine
  BY DEF Frame
<1>3. PICK first \in IPs \cup {None} : first = IF f.first = None THEN f.ip ELSE f.first
  BY DEF Frame
<1> DEFINE h == [f EXCEPT !.pc = pc, !.rule = r, !.mine = mine, !.first = first]
<1>4. h \in Frame
  BY DEF Frame
<1>5. WithRule(f, r, b) = h
  BY <1>1, <1>2, <1>3, <1>4 DEF WithRule
<1>6. /\ h.op = f.op /\ h.apr = f.apr /\ h.yes = f.yes /\ h.action = f.action /\ h.ip = f.ip
      /\ h.pc = pc /\ h.outcome = f.outcome
  BY <1>4 DEF Frame
<1> QED BY <1>1, <1>4, <1>5, <1>6

-----------------------------------------------------------------------------
\* The tools and the rule endpoints.
LEMMA RuleKnows ==
  ASSUME IInv, NEW p \in Procs, RuleStep(p), Knows(frames[p]) PROVE Knows(frames[p])'
<1>0. PICK f \in Frame : f = frames[p] /\ FrameOK(f) /\ Knows(f)
  BY HandlerFrame
<1> USE <1>0 DEF At
<1>1. CASE ExecuteRefuse(p)
  <2> DEFINE h == [f EXCEPT !.pc = AfterRefusal(f.op)]
  <2>1. /\ Continue(p, h) /\ f.pc = "exec" /\ Refused(f) /\ UNCHANGED <<rules, approvals>>
    BY <1>1 DEF ExecuteRefuse
  <2>2. /\ h.op = f.op /\ h.apr = f.apr /\ h.yes = f.yes /\ h.action = f.action /\ h.ip = f.ip
        /\ h.pc = AfterRefusal(f.op) /\ h.outcome = f.outcome
    BY DEF Frame
  <2>3. f.op \in RunOps \cup {"add", "contain", "decide", "override"}
    BY <2>1 DEF FrameOK, OpOK
  <2>4. Manual => f.op = "decide"
    BY <2>1 DEF Knows, ManualOK
  <2>5. ~Benign(f)
    BY <2>1 DEF Knows, WriterOK
  <2> HIDE DEF h
  <2>6. CASE f.op = "decide"
    BY <2>1, <2>2, <2>6, OwnDecide DEF AfterRefusal, ToRules, Undecided
  <2>7. CASE f.op = "override"
    <3>1. Knows(h)
      BY <2>2, <2>4, <2>5, <2>7 DEF AfterRefusal, AfterExecute, Knows, WriterOK, ReaderOK,
         DeciderOK, ManualOK, Benign
    <3> QED BY <2>1, <3>1, OwnQuiet
  <2>8. CASE f.op \in RunOps \cup {"add", "contain"}
    BY <2>1, <2>2, <2>4, <2>8, OwnCarefree DEF AfterRefusal, AfterExecute, ToRules, RunOps
  <2> QED BY <2>3, <2>6, <2>7, <2>8
<1>a. ASSUME NEW r \in Rules, NEW b \in BOOLEAN, Continue(p, WithRule(f, r, b)),
             f.pc \in {"exec", "insert"}, UNCHANGED approvals
      PROVE  Knows(frames[p])'
  <2>1. PICK h : /\ Continue(p, h)
               /\ h.op = f.op /\ h.apr = f.apr /\ h.yes = f.yes /\ h.action = f.action /\ h.ip = f.ip
               /\ h.pc = AfterExecute(f.op) /\ h.outcome = f.outcome
    BY <1>a, WithRuleFields
  <2>2. f.op \in RunOps \cup {"add", "contain", "decide", "override"}
    BY <1>a DEF FrameOK, OpOK
  <2>3. Manual => f.op = "decide"
    BY <1>a DEF Knows, ManualOK
  <2>4. ~Benign(f)
    BY <1>a DEF Knows, WriterOK
  <2>5. CASE f.op = "decide"
    BY <1>a, <2>1, <2>5, OwnDecide DEF AfterExecute, ToRules, Undecided
  <2>6. CASE f.op = "override"
    <3>1. Knows(h)'
      BY <2>1, <2>3, <2>4, <2>6 DEF AfterExecute, Knows, WriterOK, ReaderOK, DeciderOK,
         ManualOK, Benign, Manual
    <3> QED BY <2>1, <3>1, OwnStep
  <2>7. CASE f.op \in RunOps \cup {"add", "contain"}
    BY <2>1, <2>3, <2>7, OwnCarefree DEF AfterExecute, ToRules, RunOps
  <2> QED BY <2>2, <2>5, <2>6, <2>7
<1>2. CASE ExecuteLookup(p)
  <2>1. CASE Clashes(f.action, f.ip) = {} /\ Continue(p, [f EXCEPT !.pc = "insert"])
    <3> DEFINE h == [f EXCEPT !.pc = "insert"]
    <3>1. /\ h.op = f.op /\ h.apr = f.apr /\ h.yes = f.yes /\ h.action = f.action /\ h.ip = f.ip
          /\ h.pc = "insert" /\ h.outcome = f.outcome
      BY DEF Frame
    <3>2. f.pc = "exec" /\ UNCHANGED <<rules, approvals>>
      BY <1>2 DEF ExecuteLookup
    <3> HIDE DEF h
    <3>3. Knows(h)
      BY <2>1, <3>1, <3>2 DEF Knows, WriterOK, ReaderOK, DeciderOK, ManualOK, Benign, Undecided
    <3> QED BY <2>1, <3>2, <3>3, OwnQuiet DEF h
  <2>2. ASSUME NEW r \in Rules, Continue(p, WithRule(f, r, FALSE)) PROVE Knows(frames[p])'
    BY <1>2, <1>a, <2>2 DEF ExecuteLookup
  <2> QED BY <1>2, <2>1, <2>2 DEF ExecuteLookup, Clashes, ActiveFor
<1>3. CASE ExecuteInsert(p)
  <2>1. PICK r \in Rules : Continue(p, WithRule(f, r, TRUE))
    BY <1>3 DEF ExecuteInsert
  <2> QED BY <1>3, <1>a, <2>1 DEF ExecuteInsert
<1>4. CASE VerifyList(p)
  <2>1. PICK R : /\ R = ActiveFor(f.ip)
                 /\ Continue(p, [f EXCEPT !.pc = IF R = {} THEN AfterVerify(f.op) ELSE "check",
                                          !.todo = R, !.snap = Snapshot(R), !.seen = {}])
    BY <1>4 DEF VerifyList
  <2>2. PICK h : /\ Continue(p, h)
                 /\ h.op = f.op /\ h.apr = f.apr /\ h.yes = f.yes /\ h.action = f.action
                 /\ h.ip = f.ip /\ h.outcome = f.outcome /\ h.todo = R
                 /\ h.pc = IF R = {} THEN AfterVerify(f.op) ELSE "check"
    <3>1. PICK pc, snap : pc = (IF R = {} THEN AfterVerify(f.op) ELSE "check") /\ snap = Snapshot(R)
      OBVIOUS
    <3>2. Continue(p, [f EXCEPT !.pc = pc, !.todo = R, !.snap = snap, !.seen = {}])
      BY <2>1, <3>1
    <3> DEFINE h == [f EXCEPT !.pc = pc, !.todo = R, !.snap = snap, !.seen = {}]
    <3>3. /\ h.op = f.op /\ h.apr = f.apr /\ h.yes = f.yes /\ h.action = f.action
          /\ h.ip = f.ip /\ h.outcome = f.outcome /\ h.todo = R /\ h.pc = pc
      BY DEF Frame
    <3> QED BY <3>1, <3>2, <3>3
  <2>3. f.pc = "verify" /\ UNCHANGED <<rules, approvals>>
    BY <1>4 DEF VerifyList
  <2>4. f.op \in RunOps \cup {"contain", "probe", "decide", "override"} /\ ~Benign(f)
    BY <2>3 DEF FrameOK, OpOK, Knows, WriterOK
  <2>5. Knows(h)
    BY <2>1, <2>2, <2>3, <2>4 DEF AfterVerify, Knows, WriterOK, ReaderOK, DeciderOK, ManualOK, Benign,
       Undecided, RunOps, ActiveFor
  <2> QED BY <2>2, <2>3, <2>5, OwnQuiet
<1>5. CASE VerifyCheck(p)
  <2>1. f.pc = "check" /\ UNCHANGED approvals
    BY <1>5 DEF VerifyCheck
  <2>2. f.op \in RunOps \cup {"contain", "probe", "decide", "override"} /\ ~Benign(f)
    BY <2>1 DEF FrameOK, OpOK, Knows, WriterOK
  <2>3. PICK r \in f.todo : \E e :
          /\ UNCHANGED rules \/ rules' = [rules EXCEPT ![r].enf = e]
          /\ Continue(p, [f EXCEPT !.pc = IF f.todo = {r} THEN AfterVerify(f.op) ELSE "check",
                                   !.todo = @ \ {r}, !.snap[r] = NoRule,
                                   !.seen = @ \cup {e.status}])
    BY <1>5 DEF VerifyCheck
  <2>6. PICK e :
          /\ UNCHANGED rules \/ rules' = [rules EXCEPT ![r].enf = e]
          /\ Continue(p, [f EXCEPT !.pc = IF f.todo = {r} THEN AfterVerify(f.op) ELSE "check",
                                   !.todo = @ \ {r}, !.snap[r] = NoRule,
                                   !.seen = @ \cup {e.status}])
    BY <2>3
  <2>4. PICK h : /\ Continue(p, h)
                 /\ h.op = f.op /\ h.apr = f.apr /\ h.yes = f.yes /\ h.action = f.action
                 /\ h.ip = f.ip /\ h.outcome = f.outcome /\ h.todo \subseteq f.todo
                 /\ h.pc \in {AfterVerify(f.op), "check"}
    <3> DEFINE h == [f EXCEPT !.pc = IF f.todo = {r} THEN AfterVerify(f.op) ELSE "check",
                              !.todo = @ \ {r}, !.snap[r] = NoRule,
                              !.seen = @ \cup {e.status}]
    <3>1. /\ h.op = f.op /\ h.apr = f.apr /\ h.yes = f.yes /\ h.action = f.action
          /\ h.ip = f.ip /\ h.outcome = f.outcome /\ h.todo \subseteq f.todo
          /\ h.pc \in {AfterVerify(f.op), "check"}
      BY DEF Frame
    <3> QED BY <2>6, <3>1
  <2>5. \A x \in Rules : Active(x) => Active(x)'
    BY <2>6 DEF Active, IInv, TypeOK, RuleRecord
  <2>7. Knows(h)'
    BY <2>1, <2>2, <2>4, <2>5 DEF AfterVerify, Knows, WriterOK, ReaderOK, DeciderOK, ManualOK, Benign,
       Undecided, RunOps, Manual, Frame
  <2> QED BY <2>4, <2>7, OwnStep
<1>6. CASE ToggleClash(p)
  <2> DEFINE h == [f EXCEPT !.pc = IF Clashes(f.snap[f.rule].action, f.snap[f.rule].ip) # {}
                                   THEN "idle" ELSE "enable"]
  <2>1. /\ h.op = f.op /\ h.snap = f.snap /\ h.rule = f.rule
        /\ h.pc = IF Clashes(f.snap[f.rule].action, f.snap[f.rule].ip) # {}
                  THEN "idle" ELSE "enable"
    BY DEF Frame
  <2>2. /\ Continue(p, h) /\ f.pc = "clash" /\ UNCHANGED <<rules, approvals>>
    BY <1>6 DEF ToggleClash
  <2>3. f.op = "toggle"
    BY <2>2 DEF FrameOK, OpOK
  <2> HIDE DEF h
  <2>4. h.pc # "idle" => Knows(h)
    BY <2>1, <2>2, <2>3 DEF Knows, WriterOK, ReaderOK, DeciderOK, ManualOK, Benign
  <2> QED BY <2>2, <2>4, OwnQuiet
<1>b. ASSUME Continue(p, [f EXCEPT !.pc = "idle"]) PROVE Knows(frames[p])'
  BY <1>b, OwnStep DEF Frame
<1>7. CASE ToggleEnable(p) \/ ToggleDisable(p) \/ RecheckWrite(p)
  BY <1>7, <1>b DEF ToggleEnable, ToggleDisable, RecheckWrite
<1>8. CASE SweepRule(p)
  <2>1. PICK r \in f.todo :
          Continue(p, [f EXCEPT !.pc = IF f.todo = {r} THEN AfterSweep(f.op) ELSE "sweep",
                                !.todo = @ \ {r}, !.snap[r] = NoRule])
    BY <1>8 DEF SweepRule
  <2>2. f.op \in {"sweep", "pull"}
    BY <1>8 DEF SweepRule, FrameOK, OpOK
  <2> QED BY <2>1, <2>2, OwnCarefree DEF AfterSweep, ToRules, Frame
<1> QED BY <1>1, <1>2, <1>3, <1>4, <1>5, <1>6, <1>7, <1>8 DEF RuleStep

\* The approval queue.
LEMMA ApprovalKnows ==
  ASSUME IInv, NEW p \in Procs, ApprovalStep(p), Knows(frames[p]) PROVE Knows(frames[p])'
<1>0. PICK f \in Frame : f = frames[p] /\ FrameOK(f) /\ Knows(f)
  BY HandlerFrame
<1> USE <1>0 DEF At
<1>a. ASSUME NEW a \in Approvals, Continue(p, Holding(f, a)), f.pc \in {"request", "propose"}
      PROVE  Knows(frames[p])'
  <2>1. f.op \in RunOps \cup {"propose"} /\ (Manual /\ f.op = "run" => ~f.yes)
    BY <1>a DEF FrameOK, OpOK, Knows, ManualOK
  <2> DEFINE h == Holding(f, a)
  <2>2. h.op = f.op /\ h.yes = f.yes /\ h.pc = AfterRequest(f.op)
    BY DEF Holding, Frame
  <2> HIDE DEF h
  <2> QED BY <1>a, <2>1, <2>2, OwnCarefree DEF h, AfterRequest, ToRules, RunOps
<1>b. ASSUME Continue(p, [f EXCEPT !.pc = "idle"]) PROVE Knows(frames[p])'
  BY <1>b, OwnStep DEF Frame
<1>c. ASSUME f.op = "decide", f.pc \notin Undecided, UNCHANGED approvals,
             NEW pc \in {"reflect", "rewrite", "dec_inv", "dec_alert", "dec_contain", "relink", "idle"},
             Continue(p, [f EXCEPT !.pc = pc])
      PROVE  Knows(frames[p])'
  <2> DEFINE h == [f EXCEPT !.pc = pc]
  <2>1. /\ h.op = f.op /\ h.apr = f.apr /\ h.yes = f.yes /\ h.action = f.action /\ h.ip = f.ip
        /\ h.pc = pc
    BY DEF Frame
  <2>2. Continue(p, h)
    BY <1>c
  <2> HIDE DEF h
  <2> QED BY <1>c, <2>1, <2>2, OwnDecide DEF ToRules, Undecided
<1>1. CASE RequestLookup(p)
  <2>1. CASE Open(f.action, f.ip) = {} /\ Continue(p, [f EXCEPT !.pc = "active"])
    <3> DEFINE h == [f EXCEPT !.pc = "active"]
    <3>1. /\ h.op = f.op /\ h.yes = f.yes /\ h.action = f.action /\ h.ip = f.ip /\ h.pc = "active"
      BY DEF Frame
    <3>2. f.pc = "request" /\ UNCHANGED <<rules, approvals>>
      BY <1>1 DEF RequestLookup
    <3>3. f.op \in RunOps \cup {"propose"}
      BY <3>2 DEF FrameOK, OpOK
    <3> HIDE DEF h
    <3>4. Knows(h)
      BY <2>1, <3>1, <3>2, <3>3 DEF Knows, WriterOK, ReaderOK, DeciderOK, ManualOK, Benign, RunOps
    <3> QED BY <2>1, <3>2, <3>4, OwnQuiet DEF h
  <2> QED BY <1>1, <1>a, <2>1 DEF RequestLookup, Open
<1>2. CASE RequestActive(p)
  <2>1. f.pc = "active" /\ UNCHANGED <<rules, approvals>>
    BY <1>2 DEF RequestActive
  <2>2. PICK pc \in {AfterRequest(f.op), "propose"} : Continue(p, [f EXCEPT !.pc = pc])
    BY <1>2 DEF RequestActive
  <2>3. f.op \in RunOps \cup {"propose"}
    BY <2>1 DEF FrameOK, OpOK
  <2> DEFINE h == [f EXCEPT !.pc = pc]
  <2>4. /\ h.op = f.op /\ h.yes = f.yes /\ h.action = f.action /\ h.ip = f.ip /\ h.pc = pc
    BY DEF Frame
  <2>5. Continue(p, h)
    BY <2>2
  <2> HIDE DEF h
  <2>6. Knows(h)
    BY <2>1, <2>3, <2>4 DEF Knows, WriterOK, ReaderOK, DeciderOK, ManualOK, Benign, RunOps, AfterRequest
  <2> QED BY <2>1, <2>5, <2>6, OwnQuiet
<1>3. CASE RequestInsert(p)
  BY <1>3, <1>a DEF RequestInsert
<1>4. CASE ExpireOne(p)
  <2>1. f.pc = "lapse" /\ f.op = "lapse"
    BY <1>4 DEF ExpireOne, FrameOK, OpOK
  <2>2. PICK a \in f.held :
          /\ approvals' = [approvals EXCEPT ![a].status = "EXPIRED"]
          /\ Continue(p, [f EXCEPT !.pc = IF f.held = {a} THEN "idle" ELSE "lapse",
                                   !.held = @ \ {a}])
    BY <1>4 DEF ExpireOne
  <2>3. PICK h : /\ Continue(p, h)
                 /\ h.op = "lapse" /\ h.held = f.held \ {a} /\ h.pc \in {"idle", "lapse"}
    <3> DEFINE h == [f EXCEPT !.pc = IF f.held = {a} THEN "idle" ELSE "lapse", !.held = @ \ {a}]
    <3>1. h.op = "lapse" /\ h.held = f.held \ {a} /\ h.pc \in {"idle", "lapse"}
      BY <2>1 DEF Frame
    <3> QED BY <2>2, <3>1
  <2>4. \A b \in Approvals \ {a} : approvals'[b] = approvals[b]
    BY <2>2 DEF IInv, TypeOK
  <2>5. f.held \subseteq Approvals
    BY DEF Frame
  <2>6. Knows(h)'
    BY <2>1, <2>3, <2>4, <2>5 DEF Knows, WriterOK, ReaderOK, DeciderOK, ManualOK, Benign, Manual
  <2> QED BY <2>3, <2>6, OwnStep
<1>d. ASSUME f.pc \in {"reject", "approve"}, Continue(p, [f EXCEPT !.pc = "reflect"]),
             f.yes => approvals'[f.apr].status = "APPROVED"
      PROVE  Knows(frames[p])'
  <2> DEFINE h == [f EXCEPT !.pc = "reflect"]
  <2>1. h.op = f.op /\ h.apr = f.apr /\ h.yes = f.yes /\ h.pc = "reflect"
    BY DEF Frame
  <2>2. f.op = "decide" /\ Continue(p, h)
    BY <1>d DEF FrameOK, OpOK
  <2> HIDE DEF h
  <2>3. Knows(h)'
    BY <1>d, <2>1, <2>2 DEF Knows, WriterOK, ReaderOK, DeciderOK, ManualOK, Benign, Undecided, Manual
  <2> QED BY <2>2, <2>3, OwnStep
<1>5. CASE DecideReject(p)
  <2>1. ~f.yes
    BY <1>5 DEF DecideReject, FrameOK, OpOK, DecideOK
  <2> QED BY <1>5, <1>d, <2>1 DEF DecideReject
<1>6. CASE DecideFail(p)
  BY <1>6, <1>b DEF DecideFail
<1>7. CASE DecideApprove(p)
  <2>1. f.apr \in Approvals
    BY <1>7 DEF DecideApprove, FrameOK, OpOK, DecideOK, Frame
  <2>2. approvals'[f.apr].status = "APPROVED"
    BY <1>7, <2>1 DEF DecideApprove, IInv, TypeOK, ApprovalRecord
  <2> QED BY <1>7, <1>d, <2>2 DEF DecideApprove
<1>e. f.pc \in {"reflect", "rewrite", "relink", "dec_inv", "dec_alert", "dec_contain"}
        => f.op = "decide" /\ f.pc \notin Undecided
  BY DEF FrameOK, OpOK, Undecided
<1>8. CASE ReflectRead(p)
  <2>1. CASE Continue(p, [f EXCEPT !.pc = AfterReflect(f)])
    BY <1>8, <1>c, <1>e, <2>1 DEF ReflectRead, AfterReflect
  <2>2. CASE Continue(p, [f EXCEPT !.pc = "rewrite", !.held = invs[f.inv].waiting])
    <3> DEFINE h == [f EXCEPT !.pc = "rewrite", !.held = invs[f.inv].waiting]
    <3>1. /\ h.op = f.op /\ h.apr = f.apr /\ h.yes = f.yes /\ h.action = f.action /\ h.ip = f.ip
          /\ h.pc = "rewrite"
      BY DEF Frame
    <3>2. Continue(p, h) /\ f.pc = "reflect" /\ UNCHANGED approvals
      BY <1>8, <2>2 DEF ReflectRead
    <3> HIDE DEF h
    <3> QED BY <1>e, <3>1, <3>2, OwnDecide DEF ToRules, Undecided
  <2> QED BY <1>8, <2>1, <2>2 DEF ReflectRead
<1>9. CASE ReflectWrite(p)
  BY <1>9, <1>c, <1>e DEF ReflectWrite
<1>10. CASE ReflectLink(p)
  BY <1>10, <1>c, <1>e DEF ReflectLink, AfterReflect
<1>11. CASE DecideInv(p)
  BY <1>11, <1>c, <1>e DEF DecideInv
<1>12. CASE DecideAlert(p)
  BY <1>12, <1>c, <1>e DEF DecideAlert
<1>13. CASE DecideContain(p)
  BY <1>13, <1>b DEF DecideContain
<1> QED BY <1>1, <1>2, <1>3, <1>4, <1>5, <1>6, <1>7, <1>8, <1>9, <1>10, <1>11, <1>12, <1>13
        DEF ApprovalStep

\* The steps of a run.
LEMMA RunKnows ==
  ASSUME IInv, NEW p \in Procs, RunStep(p), Knows(frames[p]) PROVE Knows(frames[p])'
<1>0. PICK f \in Frame : f = frames[p] /\ FrameOK(f) /\ Knows(f)
  BY HandlerFrame
<1> USE <1>0 DEF At
<1>a. ASSUME NEW h, Continue(p, h), h.op \in RunOps,
             h.pc \in {"llm", "unblock", "decide", "verify", "verified", "finish", "link", "close",
                       "audit", "idle"}
      PROVE  Knows(frames[p])'
  BY <1>a, OwnCarefree DEF RunOps, ToRules
<1>b. f.pc \in {"mark", "llm", "unblock", "decide", "contain", "verified", "finish", "link", "close",
                "audit"} => f.op \in RunOps
  BY DEF FrameOK, OpOK, RunOps
<1>1. CASE MarkInvestigating(p)
  BY <1>1, <1>a, <1>b DEF MarkInvestigating, RunOps, Frame
<1>2. CASE RunDecide(p)
  <2>1. PICK o, yes, plan :
          /\ yes \in Executes(TRUE)
          /\ Continue(p, [f EXCEPT !.op = "run", !.pc = "contain", !.outcome = o, !.plan = plan,
                                   !.yes = yes, !.seen = {}])
    BY <1>2 DEF RunDecide
  <2> DEFINE h == [f EXCEPT !.op = "run", !.pc = "contain", !.outcome = o, !.plan = plan,
                            !.yes = yes, !.seen = {}]
  <2>2. h.op = "run" /\ h.pc = "contain" /\ h.yes = yes
    BY DEF Frame
  <2>3. Manual => yes = FALSE
    BY <2>1 DEF Manual, Executes
  <2>4. Continue(p, h)
    BY <2>1
  <2> HIDE DEF h
  <2> QED BY <2>2, <2>3, <2>4, OwnCarefree DEF ToRules
<1>3. CASE RunContain(p)
  <2>1. f.pc = "contain" /\ UNCHANGED <<rules, approvals>>
    BY <1>3 DEF RunContain
  <2>2. f.op = "run" /\ (Manual => ~f.yes)
    BY <2>1 DEF FrameOK, OpOK, Knows, ManualOK
  <2>3. PICK a, ip : Continue(p, [f EXCEPT !.pc = IF f.yes THEN "exec" ELSE "request",
                                           !.plan = @ \ {a}, !.action = a, !.ip = ip])
    BY <1>3 DEF RunContain
  <2> DEFINE h == [f EXCEPT !.pc = IF f.yes THEN "exec" ELSE "request",
                            !.plan = @ \ {a}, !.action = a, !.ip = ip]
  <2>4. h.op = f.op /\ h.yes = f.yes /\ h.pc = IF f.yes THEN "exec" ELSE "request"
    BY DEF Frame
  <2>5. Continue(p, h)
    BY <2>3
  <2> HIDE DEF h
  <2>6. Knows(h)
    BY <2>2, <2>4 DEF Knows, WriterOK, ReaderOK, DeciderOK, ManualOK, Benign
  <2> QED BY <2>1, <2>5, <2>6, OwnQuiet
<1>4. CASE RunVerify(p)
  BY <1>4, <1>a, <1>b DEF RunVerify, Frame
<1>5. CASE RunVerified(p)
  BY <1>5, <1>a, <1>b DEF RunVerified, Frame
<1>6. CASE Unblock(p)
  <2>1. PICK r \in f.todo : \E e \in RemoveAnswers(f.snap[r].enf) :
          Continue(p, [f EXCEPT !.pc = IF f.todo = {r} THEN "llm" ELSE "unblock",
                                !.todo = @ \ {r}, !.snap[r] = NoRule])
    BY <1>6 DEF Unblock
  <2> QED BY <1>6, <1>a, <1>b, <2>1 DEF Unblock, Frame
<1>7. CASE Finish(p)
  BY <1>7, <1>a, <1>b DEF Finish, Frame
<1>8. CASE FinishLink(p)
  <2>1. PICK r \in f.todo : Continue(p, Linked(f, r))
    BY <1>8 DEF FinishLink
  <2> QED BY <1>8, <1>a, <1>b, <2>1 DEF FinishLink, Linked, Frame
<1>9. CASE FinishClose(p)
  BY <1>9, <1>a, <1>b DEF FinishClose, Frame
<1>10. CASE FinishAudit(p)
  BY <1>10, <1>a, <1>b DEF FinishAudit, Frame
<1> QED BY <1>1, <1>2, <1>3, <1>4, <1>5, <1>6, <1>7, <1>8, <1>9, <1>10 DEF RunStep

\* What a model asks for.
LEMMA LlmKnows ==
  ASSUME IInv, NEW p \in Procs, LlmStep(p), Knows(frames[p]) PROVE Knows(frames[p])'
<1>0. PICK f \in Frame : f = frames[p] /\ FrameOK(f) /\ Knows(f)
  BY HandlerFrame
<1> USE <1>0 DEF At
<1>a. f.pc = "llm" /\ f.op = "llm"
  BY DEF LlmStep, LlmContain, LlmVerify, LlmUnblock, LlmVerdict, LlmEnd, LlmFallback, FrameOK, OpOK
<1>b. ASSUME NEW h, Continue(p, h), h.op = "llm",
             h.pc \in {"llm", "unblock", "decide", "verify", "finish", "request"}
      PROVE  Knows(frames[p])'
  BY <1>b, OwnCarefree DEF ToRules
<1>1. CASE LlmContain(p)
  <2>1. PICK action \in Actions, ip \in IPs, yes \in Executes(FALSE) :
          Continue(p, [f EXCEPT !.pc = IF yes THEN "exec" ELSE "request",
                                !.action = action, !.ip = ip])
    BY <1>1 DEF LlmContain
  <2> DEFINE h == [f EXCEPT !.pc = IF yes THEN "exec" ELSE "request",
                            !.action = action, !.ip = ip]
  <2>2. h.op = f.op /\ h.pc = IF yes THEN "exec" ELSE "request"
    BY DEF Frame
  <2>3. Manual => yes = FALSE
    BY DEF Manual, Executes
  <2>4. Continue(p, h) /\ UNCHANGED <<rules, approvals>>
    BY <1>1, <2>1 DEF LlmContain
  <2> HIDE DEF h
  <2>5. Knows(h)
    BY <1>a, <2>2, <2>3 DEF Knows, WriterOK, ReaderOK, DeciderOK, ManualOK, Benign
  <2> QED BY <2>4, <2>5, OwnQuiet
<1>2. CASE LlmVerify(p)
  BY <1>2, <1>a, <1>b DEF LlmVerify, Frame
<1>3. CASE LlmUnblock(p)
  BY <1>3, <1>a, <1>b DEF LlmUnblock, Frame
<1>4. CASE LlmVerdict(p)
  BY <1>4, <1>a, <1>b DEF LlmVerdict, Frame
<1>5. CASE LlmEnd(p)
  BY <1>5, <1>a, <1>b DEF LlmEnd, Frame
<1>6. CASE LlmFallback(p)
  BY <1>6, <1>a, <1>b DEF LlmFallback, Frame
<1> QED BY <1>1, <1>2, <1>3, <1>4, <1>5, <1>6 DEF LlmStep

\* Overrides and status changes.
LEMMA AnalystKnows ==
  ASSUME IInv, NEW p \in Procs, AnalystStep(p), Knows(frames[p]) PROVE Knows(frames[p])'
<1>0. PICK f \in Frame : f = frames[p] /\ FrameOK(f) /\ Knows(f)
  BY HandlerFrame
<1> USE <1>0 DEF At
<1>a. f.pc \in {"ovr_list", "rollback", "ovr_write", "ovr_rule", "ovr_alert"} => f.op = "override"
  BY DEF FrameOK, OpOK
<1>b. ASSUME Continue(p, [f EXCEPT !.pc = "idle"]) PROVE Knows(frames[p])'
  BY <1>b, OwnStep DEF Frame
<1>1. CASE OverrideList(p)
  <2>1. f.pc = "ovr_list" /\ f.op = "override" /\ UNCHANGED <<rules, approvals>>
    BY <1>1, <1>a DEF OverrideList
  <2>2. PICK R : R = LinkedTo(f.inv)
    OBVIOUS
  <2>3. \/ Continue(p, [f EXCEPT !.pc = "rollback", !.todo = R, !.snap = Snapshot(R)])
        \/ /\ ~Benign(f)
           /\ Continue(p, [f EXCEPT !.pc = "exec", !.action = "BLOCK", !.ip = Attacker[f.alert]])
        \/ /\ Benign(f) => R = {}
           /\ Continue(p, [f EXCEPT !.pc = "ovr_write"])
    BY <1>1, <2>2 DEF OverrideList, Benign
  <2>4. CASE Continue(p, [f EXCEPT !.pc = "rollback", !.todo = R, !.snap = Snapshot(R)])
    <3> DEFINE h == [f EXCEPT !.pc = "rollback", !.todo = R, !.snap = Snapshot(R)]
    <3>1. h.op = f.op /\ h.pc = "rollback" /\ h.todo = R /\ h.inv = f.inv
      BY DEF Frame
    <3>2. Continue(p, h)
      BY <2>4
    <3> HIDE DEF h
    <3>3. Knows(h)
      BY <2>1, <2>2, <3>1 DEF Knows, WriterOK, ReaderOK, DeciderOK, ManualOK, Benign
    <3> QED BY <2>1, <3>2, <3>3, OwnQuiet
  <2>5. CASE /\ ~Benign(f)
             /\ Continue(p, [f EXCEPT !.pc = "exec", !.action = "BLOCK", !.ip = Attacker[f.alert]])
    <3> DEFINE h == [f EXCEPT !.pc = "exec", !.action = "BLOCK", !.ip = Attacker[f.alert]]
    <3>1. h.op = f.op /\ h.pc = "exec" /\ h.outcome = f.outcome
      BY DEF Frame
    <3>2. Continue(p, h)
      BY <2>5
    <3>3. ~Manual
      BY <2>1 DEF Knows, ManualOK
    <3> HIDE DEF h
    <3>4. Knows(h)
      BY <2>1, <2>5, <3>1, <3>3 DEF Knows, WriterOK, ReaderOK, DeciderOK, ManualOK, Benign
    <3> QED BY <2>1, <3>2, <3>4, OwnQuiet
  <2>6. CASE /\ Benign(f) => R = {}
             /\ Continue(p, [f EXCEPT !.pc = "ovr_write"])
    <3> DEFINE h == [f EXCEPT !.pc = "ovr_write"]
    <3>1. h.op = f.op /\ h.pc = "ovr_write" /\ h.inv = f.inv /\ h.outcome = f.outcome
      BY DEF Frame
    <3>2. Continue(p, h)
      BY <2>6
    <3> HIDE DEF h
    <3>3. Knows(h)
      BY <2>1, <2>2, <2>6, <3>1 DEF Knows, WriterOK, ReaderOK, DeciderOK, ManualOK, Benign
    <3> QED BY <2>1, <3>2, <3>3, OwnQuiet
  <2> QED BY <2>3, <2>4, <2>5, <2>6
<1>2. CASE Rollback(p)
  <2>1. f.pc = "rollback" /\ f.op = "override" /\ UNCHANGED approvals
    BY <1>2, <1>a DEF Rollback
  <2>2. PICK r \in f.todo : \E e :
          /\ rules' = [rules EXCEPT ![r].state = "disabled", ![r].enf = e]
          /\ Continue(p, [f EXCEPT !.pc = IF f.todo = {r} THEN "ovr_write" ELSE "rollback",
                                   !.todo = @ \ {r}, !.snap[r] = NoRule])
    BY <1>2 DEF Rollback
  <2>3. LinkedTo(f.inv)' \subseteq LinkedTo(f.inv) \ {r}
    BY <2>2 DEF LinkedTo, Active, IInv, TypeOK, RuleRecord, Frame
  <2>4. PICK h : /\ Continue(p, h)
                 /\ h.op = f.op /\ h.inv = f.inv /\ h.outcome = f.outcome /\ h.todo = f.todo \ {r}
                 /\ h.pc = IF f.todo = {r} THEN "ovr_write" ELSE "rollback"
    <3> DEFINE h == [f EXCEPT !.pc = IF f.todo = {r} THEN "ovr_write" ELSE "rollback",
                              !.todo = @ \ {r}, !.snap[r] = NoRule]
    <3>1. /\ h.op = f.op /\ h.inv = f.inv /\ h.outcome = f.outcome /\ h.todo = f.todo \ {r}
          /\ h.pc = IF f.todo = {r} THEN "ovr_write" ELSE "rollback"
      BY DEF Frame
    <3> QED BY <2>2, <3>1
  <2>5. OneOf(Engine \cup Console) /\ Benign(f) => LinkedTo(f.inv) \subseteq f.todo
    BY <2>1 DEF Knows, WriterOK
  <2>6. Knows(h)'
    BY <2>1, <2>3, <2>4, <2>5 DEF Knows, WriterOK, ReaderOK, DeciderOK, ManualOK, Benign, Manual
  <2> QED BY <2>4, <2>6, OwnStep
<1>c. ASSUME f.pc \in {"ovr_write", "ovr_rule"}, UNCHANGED <<rules, approvals>>,
             NEW h, Continue(p, h), h.op = f.op, h.inv = f.inv, h.outcome = f.outcome,
             h.pc \in {"ovr_rule", "ovr_alert"}
      PROVE  Knows(frames[p])'
  <2>1. Knows(h)
    BY <1>c, <1>a DEF Knows, WriterOK, ReaderOK, DeciderOK, ManualOK, Benign
  <2> QED BY <1>c, <2>1, OwnQuiet
<1>3. CASE OverrideWrite(p)
  BY <1>3, <1>c DEF OverrideWrite, Frame
<1>4. CASE OverrideRule(p)
  BY <1>4, <1>c DEF OverrideRule, Frame
<1>5. CASE OverrideAlert(p) \/ SetStatus(p)
  BY <1>5, <1>b DEF OverrideAlert, SetStatus
<1> QED BY <1>1, <1>2, <1>3, <1>4, <1>5 DEF AnalystStep

\* A firewall's pull.
LEMMA FeedKnows ==
  ASSUME IInv, NEW p \in Procs, FeedStep(p), Knows(frames[p]) PROVE Knows(frames[p])'
<1>0. PICK f \in Frame : f = frames[p] /\ FrameOK(f) /\ Knows(f)
  BY HandlerFrame
<1>1. f.op = "pull"
  BY <1>0 DEF FeedStep, PullList, PullMark, PullOwn, PullInv, PullAlert, PullContain, At,
     FrameOK, OpOK
<1> USE <1>0, <1>1 DEF At
<1>a. ASSUME NEW h, Continue(p, h), h.op = "pull",
             h.pc \in {"idle", "pull_own", "pull_inv", "pull_alert", "pull_contain"}
      PROVE  Knows(frames[p])'
  BY <1>a, OwnCarefree DEF ToRules
<1>3. CASE PullList(p)
  <2>1. PICK R : /\ R \subseteq Served(f.action)
                 /\ Continue(p, [f EXCEPT !.pc = IF R = {} THEN "idle" ELSE "pull_mark",
                                          !.todo = R, !.snap = Snapshot(R)])
    BY <1>3 DEF PullList
  <2> DEFINE h == [f EXCEPT !.pc = IF R = {} THEN "idle" ELSE "pull_mark",
                            !.todo = R, !.snap = Snapshot(R)]
  <2>2. h.op = f.op /\ h.todo = R /\ h.pc \in {"idle", "pull_mark"}
    BY DEF Frame
  <2>3. Continue(p, h) /\ UNCHANGED <<rules, approvals>>
    BY <1>3, <2>1 DEF PullList
  <2> HIDE DEF h
  <2>4. Knows(h)
    BY <2>1, <2>2 DEF Knows, WriterOK, ReaderOK, DeciderOK, ManualOK, Benign, Served
  <2> QED BY <2>3, <2>4, OwnQuiet
<1>4. CASE PullMark(p)
  <2>1. PICK r \in f.todo :
          LET noted == f.invset \cup ({f.snap[r].inv} \ {None}) IN
          /\ rules' = [rules EXCEPT ![r].enf = Answer("ENFORCED", FALSE)]
          /\ Continue(p, [f EXCEPT !.pc = CASE f.todo # {r} -> "pull_mark"
                                            [] f.todo = {r} /\ noted # {} -> "pull_own"
                                            [] OTHER -> "idle",
                                   !.todo = @ \ {r}, !.snap[r] = NoRule, !.invset = noted])
    BY <1>4 DEF PullMark
  <2> DEFINE noted == f.invset \cup ({f.snap[r].inv} \ {None})
             pc == CASE f.todo # {r} -> "pull_mark"
                     [] f.todo = {r} /\ noted # {} -> "pull_own"
                     [] OTHER -> "idle"
             h == [f EXCEPT !.pc = pc, !.todo = @ \ {r}, !.snap[r] = NoRule, !.invset = noted]
  <2>2. Continue(p, h)
    BY <2>1
  <2>3. pc \in {"pull_mark", "pull_own", "idle"}
    OBVIOUS
  <2>4. h.op = f.op /\ h.pc \in {"pull_mark", "pull_own", "idle"} /\ h.todo \subseteq f.todo
    BY <2>3 DEF Frame
  <2>5. f.pc = "pull_mark" /\ UNCHANGED approvals
    BY <1>4 DEF PullMark
  <2>6. \A x \in Rules : Active(x) => Active(x)'
    BY <2>1 DEF Active, IInv, TypeOK, RuleRecord
  <2> HIDE DEF h
  <2>7. Knows(h)'
    BY <2>4, <2>5, <2>6 DEF Knows, WriterOK, ReaderOK, DeciderOK, ManualOK, Benign, Manual, Frame
  <2> QED BY <2>2, <2>7, OwnStep
<1>5. CASE PullOwn(p)
  BY <1>5, <1>a DEF PullOwn, Frame
<1>6. CASE PullInv(p)
  <2>1. PICK i \in f.invset :
          LET g == [f EXCEPT !.invset = @ \ {i}, !.inv = i, !.alert = invs[i].alert] IN
          Continue(p, [g EXCEPT !.pc =
            IF Recorded(i) /\ invs[i].outcome = "ATTACK_SUCCEEDED"
            THEN "pull_alert" ELSE NextInv(g)])
    BY <1>6 DEF PullInv
  <2> QED BY <1>6, <1>a, <2>1 DEF PullInv, NextInv, Frame
<1>7. CASE PullAlert(p)
  BY <1>7, <1>a DEF PullAlert, NextInv, Frame
<1>8. CASE PullContain(p)
  BY <1>8, <1>a DEF PullContain, NextInv, Frame
<1> QED BY <1>3, <1>4, <1>5, <1>6, <1>7, <1>8 DEF FeedStep

\* What a handler starts from.
LEMMA StartKnows ==
  ASSUME IInv, NEW p \in Procs, Start(p) PROVE Knows(frames[p])'
<1>0. IdleFrame \in Frame /\ IdleFrame.op = "idle" /\ IdleFrame.pc = "idle"
  BY IdleFrameOK DEF IdleFrame
<1> USE <1>0
<1>1. CASE StartAdd(p)
  <2>1. PICK op, action, ip :
          /\ op \in {"add", "contain"} \cap ConsoleOps
          /\ op = "contain" => ApprovalMode # "manual"
          /\ Continue(p, [IdleFrame EXCEPT !.op = op, !.pc = "exec", !.action = action, !.ip = ip])
    BY <1>1 DEF StartAdd
  <2> DEFINE h == [IdleFrame EXCEPT !.op = op, !.pc = "exec", !.action = action, !.ip = ip]
  <2>2. h.op = op /\ h.pc = "exec"
    BY DEF Frame
  <2>3. ~Manual
    BY <2>1 DEF Manual
  <2>4. Continue(p, h) /\ UNCHANGED <<rules, approvals>>
    BY <1>1, <2>1 DEF StartAdd
  <2> HIDE DEF h
  <2>5. Knows(h)
    BY <2>1, <2>2, <2>3 DEF Knows, WriterOK, ReaderOK, DeciderOK, ManualOK, Benign
  <2> QED BY <2>4, <2>5, OwnQuiet
<1>2. CASE StartProbe(p)
  <2>1. PICK ip : Continue(p, [IdleFrame EXCEPT !.op = "probe", !.pc = "verify", !.ip = ip])
    BY <1>2 DEF StartProbe
  <2> QED BY <2>1, OwnCarefree DEF ToRules, Frame
<1>3. CASE StartToggle(p)
  <2>1. PICK r \in Rules :
          Continue(p, [IdleFrame EXCEPT !.op = "toggle", !.rule = r, !.snap = Snapshot({r}),
                                        !.pc = IF Active(r) THEN "disable" ELSE "clash"])
    BY <1>3 DEF StartToggle
  <2> DEFINE h == [IdleFrame EXCEPT !.op = "toggle", !.rule = r, !.snap = Snapshot({r}),
                                    !.pc = IF Active(r) THEN "disable" ELSE "clash"]
  <2>2. h.op = "toggle" /\ h.pc \in {"disable", "clash"} /\ h.rule = r /\ h.snap = Snapshot({r})
    BY DEF Frame
  <2>3. Snapshot({r})[r] = rules[r]
    BY DEF Snapshot
  <2>4. Continue(p, h) /\ UNCHANGED <<rules, approvals>>
    BY <1>3, <2>1 DEF StartToggle
  <2> HIDE DEF h
  <2>5. Knows(h)
    BY <2>2, <2>3 DEF Knows, WriterOK, ReaderOK, DeciderOK, ManualOK, Benign
  <2> QED BY <2>4, <2>5, OwnQuiet
<1>4. CASE StartRecheck(p)
  <2>1. PICK r \in Rules :
          /\ Active(r)
          /\ Continue(p, [IdleFrame EXCEPT !.op = "recheck", !.pc = "recheck", !.rule = r,
                                           !.snap = Snapshot({r})])
    BY <1>4 DEF StartRecheck
  <2> DEFINE h == [IdleFrame EXCEPT !.op = "recheck", !.pc = "recheck", !.rule = r,
                                    !.snap = Snapshot({r})]
  <2>2. h.op = "recheck" /\ h.pc = "recheck" /\ h.rule = r
    BY DEF Frame
  <2>4. Continue(p, h) /\ UNCHANGED <<rules, approvals>>
    BY <1>4, <2>1 DEF StartRecheck
  <2> HIDE DEF h
  <2>5. Knows(h)
    BY <2>1, <2>2 DEF Knows, WriterOK, ReaderOK, DeciderOK, ManualOK, Benign
  <2> QED BY <2>4, <2>5, OwnQuiet
<1>a. ASSUME NEW op \in {"sweep", "pull"}, NEW action, NEW R,
             NEW next \in {"idle", "pull_list"},
             Continue(p, Sweeping([IdleFrame EXCEPT !.op = op, !.action = action], R, next))
      PROVE  Knows(frames[p])'
  <2> DEFINE h == Sweeping([IdleFrame EXCEPT !.op = op, !.action = action], R, next)
  <2>1. h.op = op /\ h.pc \in {"sweep", "idle", "pull_list"}
    BY DEF Sweeping, Frame
  <2>2. Continue(p, h)
    BY <1>a
  <2> HIDE DEF h
  <2> QED BY <2>1, <2>2, OwnCarefree DEF ToRules
<1>5. CASE StartSweep(p)
  <2> DEFINE h == Sweeping([IdleFrame EXCEPT !.op = "sweep"], Due, "idle")
  <2>1. h.op = "sweep" /\ h.pc \in {"sweep", "idle"}
    BY DEF Sweeping, Frame
  <2>2. Continue(p, h)
    BY <1>5 DEF StartSweep
  <2> HIDE DEF h
  <2> QED BY <2>1, <2>2, OwnCarefree DEF ToRules
<1>6. ASSUME NEW action \in Actions, StartPull(p, action) PROVE Knows(frames[p])'
  BY <1>6, <1>a DEF StartPull
<1>7. CASE StartPropose(p)
  <2>1. PICK action, ip, al :
          Continue(p, [IdleFrame EXCEPT !.op = "propose", !.pc = "request",
                                        !.action = action, !.ip = ip, !.alert = al])
    BY <1>7 DEF StartPropose
  <2> QED BY <2>1, OwnCarefree DEF ToRules, Frame
<1>8. CASE StartExpire(p)
  <2> DEFINE h == [IdleFrame EXCEPT !.op = "lapse", !.pc = "lapse", !.held = Stale]
  <2>1. h.op = "lapse" /\ h.pc = "lapse" /\ h.held = Stale
    BY DEF Frame
  <2>2. Continue(p, h) /\ UNCHANGED <<rules, approvals>>
    BY <1>8 DEF StartExpire
  <2> HIDE DEF h
  <2>3. Knows(h)
    BY <2>1 DEF Knows, WriterOK, ReaderOK, DeciderOK, ManualOK, Benign, Stale
  <2> QED BY <2>2, <2>3, OwnQuiet
<1>9. CASE StartDecide(p)
  <2>1. PICK a \in Approvals, way \in {"approve", "reject"} :
          /\ approvals[a].status = "PENDING"
          /\ Continue(p, [IdleFrame EXCEPT !.op = "decide", !.apr = a, !.inv = approvals[a].inv,
                            !.alert = approvals[a].alert, !.action = approvals[a].action,
                            !.ip = approvals[a].ip, !.yes = (way = "approve"),
                            !.pc = IF way = "approve" THEN "exec" ELSE "reject"])
    BY <1>9 DEF StartDecide
  <2> DEFINE h == [IdleFrame EXCEPT !.op = "decide", !.apr = a, !.inv = approvals[a].inv,
                     !.alert = approvals[a].alert, !.action = approvals[a].action,
                     !.ip = approvals[a].ip, !.yes = (way = "approve"),
                     !.pc = IF way = "approve" THEN "exec" ELSE "reject"]
  <2>2. h.op = "decide" /\ h.apr = a /\ h.pc \in {"exec", "reject"}
    BY DEF Frame
  <2>3. Continue(p, h) /\ UNCHANGED <<rules, approvals>>
    BY <1>9, <2>1 DEF StartDecide
  <2> HIDE DEF h
  <2>4. Knows(h)
    BY <2>1, <2>2 DEF Knows, WriterOK, ReaderOK, DeciderOK, ManualOK, Benign, Undecided
  <2> QED BY <2>3, <2>4, OwnQuiet
<1>10. CASE StartOverride(p)
  <2>1. PICK i, al, o :
          Continue(p, [IdleFrame EXCEPT !.op = "override", !.pc = "ovr_list", !.inv = i,
                                        !.alert = al, !.outcome = o])
    BY <1>10 DEF StartOverride
  <2> DEFINE h == [IdleFrame EXCEPT !.op = "override", !.pc = "ovr_list", !.inv = i,
                                    !.alert = al, !.outcome = o]
  <2>2. h.op = "override" /\ h.pc = "ovr_list"
    BY DEF Frame
  <2>3. Continue(p, h) /\ UNCHANGED <<rules, approvals>>
    BY <1>10, <2>1 DEF StartOverride
  <2> HIDE DEF h
  <2>4. ~Manual
    BY <1>10 DEF StartOverride, Manual
  <2>5. Knows(h)
    BY <2>2, <2>4 DEF Knows, WriterOK, ReaderOK, DeciderOK, ManualOK, Benign
  <2> QED BY <2>3, <2>5, OwnQuiet
<1>11. CASE StartStatus(p)
  <2>1. PICK T, st :
          Continue(p, [IdleFrame EXCEPT !.op = "status", !.pc = "set_status",
                                        !.targets = T, !.status = st])
    BY <1>11 DEF StartStatus
  <2> QED BY <2>1, OwnCarefree DEF ToRules, Frame
<1>12. CASE StartRun(p)
  <2>1. PICK al, i :
          Continue(p, [IdleFrame EXCEPT !.op = "run", !.pc = "mark", !.alert = al, !.inv = i])
    BY <1>12 DEF StartRun
  <2> QED BY <2>1, OwnCarefree DEF ToRules, Frame
<1> QED BY <1>1, <1>2, <1>3, <1>4, <1>5, <1>6, <1>7, <1>8, <1>9, <1>10, <1>11, <1>12
        DEF Start, RuleStart, ApprovalStart, AnalystStart

\* A run that fails, and a request that ends with an error.
LEMMA FailKnows ==
  ASSUME IInv, NEW p \in Procs, RunFail(p) \/ HandlerFail(p), Knows(frames[p])
  PROVE  Knows(frames[p])'
<1>0. PICK f \in Frame : f = frames[p] /\ FrameOK(f) /\ Knows(f)
  BY HandlerFrame
<1>1. ~Manual
  BY DEF RunFail, HandlerFail, Manual
<1> USE <1>0, <1>1 DEF At
<1>2. CASE RunFail(p)
  <2>1. f.op \in RunOps
    BY <1>2 DEF RunFail
  <2>2. ASSUME NEW pc \in {"contain", "llm", "decide", "idle"}, Continue(p, [f EXCEPT !.pc = pc])
        PROVE  Knows(frames[p])'
    BY <2>1, <2>2, OwnCarefree DEF RunOps, ToRules, Frame
  <2>3. ASSUME NEW r, Continue(p, Linked(f, r)) PROVE Knows(frames[p])'
    BY <2>1, <2>3, OwnCarefree DEF RunOps, ToRules, Linked, Frame
  <2> QED BY <1>2, <2>1, <2>2, <2>3 DEF RunFail, AfterRequest, RunOps
<1>3. CASE HandlerFail(p)
  <2>1. PICK pc : /\ Continue(p, [f EXCEPT !.pc = pc]) /\ UNCHANGED approvals
                  /\ \/ pc = "idle"
                     \/ pc \in {"relink", "dec_inv"} /\ f.pc \in {"rewrite", "relink"}
    BY <1>3 DEF HandlerFail, AfterReflect
  <2> DEFINE h == [f EXCEPT !.pc = pc]
  <2>2. /\ h.op = f.op /\ h.apr = f.apr /\ h.yes = f.yes /\ h.action = f.action /\ h.ip = f.ip
        /\ h.pc = pc
    BY DEF Frame
  <2>3. Continue(p, h)
    BY <2>1
  <2>4. pc # "idle" => f.op = "decide"
    BY <2>1 DEF FrameOK, OpOK
  <2> HIDE DEF h
  <2>5. CASE pc = "idle"
    BY <2>2, <2>3, <2>5, OwnStep
  <2>6. CASE pc # "idle"
    BY <2>1, <2>2, <2>3, <2>4, <2>6, OwnDecide DEF ToRules, Undecided
  <2> QED BY <2>5, <2>6
<1> QED BY <1>2, <1>3

-----------------------------------------------------------------------------
(* Who serves what, and who writes what.                                    *)

\* A handler goes on with what it serves, or returns; the others stay.
Stays(p) ==
  /\ \A q \in Procs \ {p} : frames'[q] = frames[q]
  /\ frames'[p].op \in {"idle", frames[p].op}
  /\ frames[p].op = "decide" /\ frames'[p].op = "decide" =>
       frames'[p].apr = frames[p].apr /\ frames'[p].yes = frames[p].yes

\* How a step that continues the same operation stays with it.
LEMMA StayStep ==
  ASSUME IInv, NEW p \in Procs, NEW f, f = frames[p], NEW h, Continue(p, h), h.op = f.op,
         f.op = "decide" => h.apr = f.apr /\ h.yes = f.yes
  PROVE  Stays(p)
<1>1. IdleFrame.op = "idle"
  BY DEF IdleFrame
<1> QED BY <1>1 DEF Stays, Continue, IInv, TypeOK

\* The tools and the rule endpoints.
LEMMA RuleStays == ASSUME IInv, NEW p \in Procs, RuleStep(p) PROVE Stays(p)
<1>0. PICK f \in Frame : f = frames[p]
  BY HandlerFrame
<1> USE <1>0
<1>a. ASSUME NEW r \in Rules, NEW b \in BOOLEAN, Continue(p, WithRule(f, r, b)) PROVE Stays(p)
  <2>1. PICK h : Continue(p, h) /\ h.op = f.op /\ h.apr = f.apr /\ h.yes = f.yes
    BY <1>a, WithRuleFields
  <2> QED BY <2>1, StayStep
<1>1. CASE ExecuteRefuse(p)
  BY <1>1, StayStep DEF ExecuteRefuse, Frame
<1>2. CASE ExecuteLookup(p)
  <2>1. CASE Continue(p, [f EXCEPT !.pc = "insert"])
    BY <2>1, StayStep DEF Frame
  <2> QED BY <1>2, <1>a, <2>1 DEF ExecuteLookup, Clashes, ActiveFor
<1>3. CASE ExecuteInsert(p)
  <2>1. PICK r \in Rules : Continue(p, WithRule(f, r, TRUE))
    BY <1>3 DEF ExecuteInsert
  <2> QED BY <1>a, <2>1
<1>4. CASE VerifyList(p)
  BY <1>4, StayStep DEF VerifyList, Frame
<1>5. CASE VerifyCheck(p)
  <2>1. PICK r \in f.todo : \E e :
          Continue(p, [f EXCEPT !.pc = IF f.todo = {r} THEN AfterVerify(f.op) ELSE "check",
                                !.todo = @ \ {r}, !.snap[r] = NoRule,
                                !.seen = @ \cup {e.status}])
    BY <1>5 DEF VerifyCheck
  <2>2. PICK e :
          Continue(p, [f EXCEPT !.pc = IF f.todo = {r} THEN AfterVerify(f.op) ELSE "check",
                                !.todo = @ \ {r}, !.snap[r] = NoRule,
                                !.seen = @ \cup {e.status}])
    BY <2>1
  <2> QED BY <2>2, StayStep DEF Frame
<1>6. CASE ToggleClash(p)
  BY <1>6, StayStep DEF ToggleClash, Frame
<1>7. CASE ToggleEnable(p) \/ ToggleDisable(p) \/ RecheckWrite(p)
  BY <1>7, StayStep DEF ToggleEnable, ToggleDisable, RecheckWrite, Frame
<1>8. CASE SweepRule(p)
  <2>1. PICK r \in f.todo :
          Continue(p, [f EXCEPT !.pc = IF f.todo = {r} THEN AfterSweep(f.op) ELSE "sweep",
                                !.todo = @ \ {r}, !.snap[r] = NoRule])
    BY <1>8 DEF SweepRule
  <2> QED BY <2>1, StayStep DEF Frame
<1> QED BY <1>1, <1>2, <1>3, <1>4, <1>5, <1>6, <1>7, <1>8 DEF RuleStep

\* The approval queue.
LEMMA ApprovalStays == ASSUME IInv, NEW p \in Procs, ApprovalStep(p) PROVE Stays(p)
<1>0. PICK f \in Frame : f = frames[p]
  BY HandlerFrame
<1> USE <1>0
<1>a. ASSUME NEW pc, Continue(p, [f EXCEPT !.pc = pc]) PROVE Stays(p)
  BY <1>a, StayStep DEF Frame
<1>b. ASSUME NEW a \in Approvals, Continue(p, Holding(f, a)) PROVE Stays(p)
  BY <1>b, StayStep DEF Holding, Frame
<1>1. CASE RequestLookup(p)
  BY <1>1, <1>a, <1>b DEF RequestLookup, Open
<1>2. CASE RequestInsert(p)
  BY <1>2, <1>b DEF RequestInsert
<1>3. CASE ExpireOne(p)
  <2>1. PICK a \in f.held :
          Continue(p, [f EXCEPT !.pc = IF f.held = {a} THEN "idle" ELSE "lapse",
                                !.held = @ \ {a}])
    BY <1>3 DEF ExpireOne
  <2> QED BY <2>1, StayStep DEF Frame
<1>4. CASE ReflectRead(p)
  <2>1. CASE Continue(p, [f EXCEPT !.pc = "rewrite", !.held = invs[f.inv].waiting])
    BY <2>1, StayStep DEF Frame
  <2> QED BY <1>4, <1>a, <2>1 DEF ReflectRead
<1>5. CASE \/ RequestActive(p) \/ DecideReject(p) \/ DecideFail(p) \/ DecideApprove(p)
           \/ ReflectWrite(p) \/ ReflectLink(p) \/ DecideInv(p) \/ DecideAlert(p)
           \/ DecideContain(p)
  BY <1>5, <1>a DEF RequestActive, DecideReject, DecideFail, DecideApprove, ReflectWrite,
     ReflectLink, DecideInv, DecideAlert, DecideContain
<1> QED BY <1>1, <1>2, <1>3, <1>4, <1>5 DEF ApprovalStep

\* The analysts.
LEMMA AnalystStays == ASSUME IInv, NEW p \in Procs, AnalystStep(p) PROVE Stays(p)
<1>0. PICK f \in Frame : f = frames[p] /\ FrameOK(f)
  BY HandlerFrame
<1> USE <1>0
<1>1. CASE OverrideList(p)
  <2>1. PICK R, ip :
          \/ Continue(p, [f EXCEPT !.pc = "rollback", !.todo = R, !.snap = Snapshot(R)])
          \/ Continue(p, [f EXCEPT !.pc = "exec", !.action = "BLOCK", !.ip = ip])
          \/ Continue(p, [f EXCEPT !.pc = "ovr_write"])
    BY <1>1 DEF OverrideList
  <2> QED BY <2>1, StayStep DEF Frame
<1>2. CASE Rollback(p)
  <2>1. PICK r \in f.todo :
          Continue(p, [f EXCEPT !.pc = IF f.todo = {r} THEN "ovr_write" ELSE "rollback",
                                !.todo = @ \ {r}, !.snap[r] = NoRule])
    BY <1>2 DEF Rollback
  <2> QED BY <2>1, StayStep DEF Frame
<1>3. CASE OverrideWrite(p) \/ OverrideAlert(p) \/ SetStatus(p)
  BY <1>3, StayStep DEF OverrideWrite, OverrideAlert, SetStatus, Frame
<1>4. CASE OverrideRule(p)
  <2>1. PICK yes : Continue(p, [f EXCEPT !.pc = "ovr_alert", !.yes = yes])
    BY <1>4 DEF OverrideRule
  <2>2. f.op = "override"
    BY <1>4 DEF OverrideRule, At, FrameOK, OpOK
  <2> QED BY <2>1, <2>2, StayStep DEF Frame
<1> QED BY <1>1, <1>2, <1>3, <1>4 DEF AnalystStep

\* A firewall's pull.
LEMMA FeedStays == ASSUME IInv, NEW p \in Procs, FeedStep(p) PROVE Stays(p)
<1>0. PICK f \in Frame : f = frames[p]
  BY HandlerFrame
<1> USE <1>0
<1>1. CASE PullList(p)
  BY <1>1, StayStep DEF PullList, Frame
<1>2. CASE PullMark(p)
  <2>1. PICK r \in f.todo :
          LET noted == f.invset \cup ({f.snap[r].inv} \ {None}) IN
          Continue(p, [f EXCEPT !.pc = CASE f.todo # {r} -> "pull_mark"
                                         [] f.todo = {r} /\ noted # {} -> "pull_own"
                                         [] OTHER -> "idle",
                                !.todo = @ \ {r}, !.snap[r] = NoRule, !.invset = noted])
    BY <1>2 DEF PullMark
  <2> DEFINE noted == f.invset \cup ({f.snap[r].inv} \ {None})
             pc == CASE f.todo # {r} -> "pull_mark"
                     [] f.todo = {r} /\ noted # {} -> "pull_own"
                     [] OTHER -> "idle"
             h == [f EXCEPT !.pc = pc, !.todo = @ \ {r}, !.snap[r] = NoRule, !.invset = noted]
  <2>2. Continue(p, h)
    BY <2>1
  <2>3. h.op = f.op /\ h.apr = f.apr /\ h.yes = f.yes
    BY DEF Frame
  <2> HIDE DEF h
  <2> QED BY <2>2, <2>3, StayStep
<1>3. CASE PullOwn(p)
  BY <1>3, StayStep DEF PullOwn, Frame
<1>4. CASE PullInv(p)
  <2>1. PICK i \in f.invset :
          LET g == [f EXCEPT !.invset = @ \ {i}, !.inv = i, !.alert = invs[i].alert] IN
          Continue(p, [g EXCEPT !.pc =
            IF Recorded(i) /\ invs[i].outcome = "ATTACK_SUCCEEDED"
            THEN "pull_alert" ELSE NextInv(g)])
    BY <1>4 DEF PullInv
  <2> QED BY <2>1, StayStep DEF Frame
<1>5. CASE PullAlert(p) \/ PullContain(p)
  BY <1>5, StayStep DEF PullAlert, PullContain, Frame
<1> QED BY <1>1, <1>2, <1>3, <1>4, <1>5 DEF FeedStep

\* A run goes on as a run, or returns.
StaysRun(p) ==
  /\ \A q \in Procs \ {p} : frames'[q] = frames[q]
  /\ frames[p].op \in RunOps /\ frames'[p].op \in RunOps \cup {"idle"}

\* The same for a run.
LEMMA StayRunStep ==
  ASSUME IInv, NEW p \in Procs, NEW f, f = frames[p], f.op \in RunOps, NEW h, Continue(p, h),
         h.op \in RunOps
  PROVE  StaysRun(p)
<1>1. IdleFrame.op = "idle"
  BY DEF IdleFrame
<1> QED BY <1>1 DEF StaysRun, Continue, IInv, TypeOK

\* The steps of a run, of the model, and of a run that fails.
LEMMA RunStays == ASSUME IInv, NEW p \in Procs, RunStep(p) \/ LlmStep(p) \/ RunFail(p) PROVE StaysRun(p)
<1>0. PICK f \in Frame : f = frames[p] /\ FrameOK(f)
  BY HandlerFrame
<1>a. f.op \in RunOps
  BY <1>0 DEF RunStep, LlmStep, RunFail, MarkInvestigating, RunDecide, RunContain, RunVerify,
     RunVerified, Unblock, Finish, FinishLink, FinishClose, FinishAudit, LlmContain, LlmVerify,
     LlmUnblock, LlmVerdict, LlmEnd, LlmFallback, At, FrameOK, OpOK, RunOps
<1> USE <1>0, <1>a
<1>b. ASSUME NEW pc, Continue(p, [f EXCEPT !.pc = pc]) PROVE StaysRun(p)
  BY <1>b, StayRunStep DEF Frame
<1>c. ASSUME NEW r, Continue(p, Linked(f, r)) PROVE StaysRun(p)
  BY <1>c, StayRunStep DEF Linked, Frame
<1>1. CASE MarkInvestigating(p)
  BY <1>1, <1>b, StayRunStep DEF MarkInvestigating, RunOps, Frame
<1>2. CASE RunDecide(p)
  <2>1. PICK o, yes, plan :
          Continue(p, [f EXCEPT !.op = "run", !.pc = "contain", !.outcome = o, !.plan = plan,
                                !.yes = yes, !.seen = {}])
    BY <1>2 DEF RunDecide
  <2> QED BY <2>1, StayRunStep DEF RunOps, Frame
<1>3. CASE RunContain(p)
  <2>1. PICK a, ip : Continue(p, [f EXCEPT !.pc = IF f.yes THEN "exec" ELSE "request",
                                           !.plan = @ \ {a}, !.action = a, !.ip = ip])
    BY <1>3 DEF RunContain
  <2> QED BY <2>1, StayRunStep DEF Frame
<1>4. CASE RunVerify(p)
  <2>1. CASE Continue(p, [f EXCEPT !.pc = "verify", !.ip = f.first, !.yes = TRUE])
    BY <2>1, StayRunStep DEF Frame
  <2> QED BY <1>4, <1>b, <2>1 DEF RunVerify
<1>5. CASE RunVerified(p)
  <2>1. CASE Continue(p, [f EXCEPT !.pc = "verify", !.yes = FALSE])
    BY <2>1, StayRunStep DEF Frame
  <2> QED BY <1>5, <1>b, <2>1 DEF RunVerified
<1>6. CASE Unblock(p)
  <2>1. PICK r \in f.todo :
          Continue(p, [f EXCEPT !.pc = IF f.todo = {r} THEN "llm" ELSE "unblock",
                                !.todo = @ \ {r}, !.snap[r] = NoRule])
    BY <1>6 DEF Unblock
  <2> QED BY <2>1, StayRunStep DEF Frame
<1>7. CASE Finish(p)
  BY <1>7, StayRunStep DEF Finish, Frame
<1>8. CASE FinishLink(p)
  BY <1>8, <1>c DEF FinishLink
<1>9. CASE FinishClose(p) \/ FinishAudit(p) \/ LlmEnd(p) \/ LlmFallback(p)
  BY <1>9, <1>b DEF FinishClose, FinishAudit, LlmEnd, LlmFallback
<1>10. CASE LlmContain(p) \/ LlmVerify(p) \/ LlmUnblock(p) \/ LlmVerdict(p)
  BY <1>10, StayRunStep DEF LlmContain, LlmVerify, LlmUnblock, LlmVerdict, Frame
<1>11. CASE RunFail(p)
  BY <1>11, <1>b, <1>c DEF RunFail
<1> QED BY <1>1, <1>2, <1>3, <1>4, <1>5, <1>6, <1>7, <1>8, <1>9, <1>10, <1>11 DEF RunStep, LlmStep

\* A request that ends with an error.
LEMMA FailStays == ASSUME IInv, NEW p \in Procs, HandlerFail(p) PROVE Stays(p)
<1>0. PICK f \in Frame : f = frames[p]
  BY HandlerFrame
<1>1. PICK pc : Continue(p, [f EXCEPT !.pc = pc])
  BY <1>0 DEF HandlerFail
<1> QED BY <1>0, <1>1, StayStep DEF Frame

\* An idle handler takes up what it may serve.
LEMMA BeginServes ==
  ASSUME IInv, NEW p \in Procs, NEW h, Continue(p, h), Serves(p, h.op)
  PROVE  /\ \A q \in Procs \ {p} : frames'[q] = frames[q]
         /\ Serves(p, frames'[p].op)
<1>1. Serves(p, IdleFrame.op)
  BY DEF Serves, IdleFrame, RunOps
<1> QED BY <1>1 DEF Continue, IInv, TypeOK

\* The request, run, sweep or pull that starts is one its handler may serve.
LEMMA StartServes ==
  ASSUME IInv, NEW p \in Procs, Start(p)
  PROVE  /\ \A q \in Procs \ {p} : frames'[q] = frames[q]
         /\ Serves(p, frames'[p].op)
<1> DEFINE Good == /\ \A q \in Procs \ {p} : frames'[q] = frames[q]
                   /\ Serves(p, frames'[p].op)
<1>0. IdleFrame \in Frame
  BY IdleFrameOK
<1>a. ASSUME NEW h, Continue(p, h), p \in Console,
             h.op \in {"add", "contain", "toggle", "recheck", "probe", "propose", "decide",
                       "override", "status"}
      PROVE  Good
  <2>1. Serves(p, h.op)
    BY <1>a DEF Serves, RunOps
  <2> QED BY <1>a, <2>1, BeginServes
<1>b. ASSUME NEW h, Continue(p, h), p \in Timer, h.op \in {"lapse", "sweep"} PROVE Good
  <2>1. Serves(p, h.op)
    BY <1>b DEF Serves, RunOps
  <2> QED BY <1>b, <2>1, BeginServes
<1> SUFFICES Good
  OBVIOUS
<1> HIDE DEF Good
<1>1. CASE StartAdd(p)
  <2>1. PICK op \in {"add", "contain"} : \E action, ip :
             Continue(p, [IdleFrame EXCEPT !.op = op, !.pc = "exec", !.action = action, !.ip = ip])
    BY <1>1 DEF StartAdd
  <2>2. PICK action, ip : Continue(p, [IdleFrame EXCEPT !.op = op, !.pc = "exec",
                                                        !.action = action, !.ip = ip])
    BY <2>1
  <2>3. p \in Console
    BY <1>1 DEF StartAdd
  <2> QED BY <1>0, <1>a, <2>2, <2>3 DEF Frame
<1>2. CASE StartProbe(p)
  BY <1>0, <1>2, <1>a DEF StartProbe, Frame
<1>3. CASE StartToggle(p)
  <2>1. PICK r, snap, pc :
          Continue(p, [IdleFrame EXCEPT !.op = "toggle", !.rule = r, !.snap = snap, !.pc = pc])
    BY <1>3 DEF StartToggle
  <2> QED BY <1>0, <1>3, <1>a, <2>1 DEF StartToggle, Frame
<1>4. CASE StartRecheck(p)
  <2>1. PICK r, snap :
          Continue(p, [IdleFrame EXCEPT !.op = "recheck", !.pc = "recheck", !.rule = r,
                                        !.snap = snap])
    BY <1>4 DEF StartRecheck
  <2> QED BY <1>0, <1>4, <1>a, <2>1 DEF StartRecheck, Frame
<1>5. CASE StartSweep(p)
  <2> DEFINE h == Sweeping([IdleFrame EXCEPT !.op = "sweep"], Due, "idle")
  <2>1. h.op = "sweep"
    BY <1>0 DEF Sweeping, Frame
  <2>2. Continue(p, h) /\ p \in Timer
    BY <1>5 DEF StartSweep
  <2> HIDE DEF h
  <2> QED BY <1>b, <2>1, <2>2
<1>6. CASE StartPropose(p)
  <2>1. PICK action, ip, al :
          Continue(p, [IdleFrame EXCEPT !.op = "propose", !.pc = "request",
                         !.action = action, !.ip = ip, !.alert = al])
    BY <1>6 DEF StartPropose
  <2> QED BY <1>0, <1>6, <1>a, <2>1 DEF StartPropose, Frame
<1>7. CASE StartExpire(p)
  BY <1>0, <1>7, <1>b DEF StartExpire, Frame
<1>8. CASE StartDecide(p)
  <2>1. PICK a \in Approvals : \E way \in {"approve", "reject"} :
          Continue(p, [IdleFrame EXCEPT !.op = "decide", !.apr = a, !.inv = approvals[a].inv,
                         !.alert = approvals[a].alert, !.action = approvals[a].action,
                         !.ip = approvals[a].ip, !.yes = (way = "approve"),
                         !.pc = IF way = "approve" THEN "exec" ELSE "reject"])
    BY <1>8 DEF StartDecide
  <2>2. PICK way : 
          Continue(p, [IdleFrame EXCEPT !.op = "decide", !.apr = a, !.inv = approvals[a].inv,
                         !.alert = approvals[a].alert, !.action = approvals[a].action,
                         !.ip = approvals[a].ip, !.yes = (way = "approve"),
                         !.pc = IF way = "approve" THEN "exec" ELSE "reject"])
    BY <2>1
  <2>3. p \in Console
    BY <1>8 DEF StartDecide
  <2> QED BY <1>0, <1>a, <2>2, <2>3 DEF Frame
<1>9. CASE StartOverride(p)
  <2>1. PICK i, al, o :
          Continue(p, [IdleFrame EXCEPT !.op = "override", !.pc = "ovr_list", !.inv = i,
                         !.alert = al, !.outcome = o])
    BY <1>9 DEF StartOverride
  <2> QED BY <1>0, <1>9, <1>a, <2>1 DEF StartOverride, Frame
<1>10. CASE StartStatus(p)
  <2>1. PICK T, st :
          Continue(p, [IdleFrame EXCEPT !.op = "status", !.pc = "set_status",
                                        !.targets = T, !.status = st])
    BY <1>10 DEF StartStatus
  <2> QED BY <1>0, <1>10, <1>a, <2>1 DEF StartStatus, Frame
<1>11. CASE StartRun(p)
  <2>1. PICK al, i :
          Continue(p, [IdleFrame EXCEPT !.op = "run", !.pc = "mark", !.alert = al, !.inv = i])
    BY <1>11 DEF StartRun
  <2> DEFINE h == [IdleFrame EXCEPT !.op = "run", !.pc = "mark", !.alert = al, !.inv = i]
  <2>2. h.op = "run"
    BY <1>0 DEF Frame
  <2>3. p \in Engine
    BY <1>11 DEF StartRun
  <2>4. Serves(p, h.op)
    BY <2>2, <2>3 DEF Serves
  <2>5. Continue(p, h)
    BY <2>1
  <2> HIDE DEF h
  <2> QED BY <2>4, <2>5, BeginServes DEF Good
<1>12. CASE \E action \in Actions : StartPull(p, action)
  <2>1. PICK action, R :
          Continue(p, Sweeping([IdleFrame EXCEPT !.op = "pull", !.action = action], R, "pull_list"))
    BY <1>12 DEF StartPull
  <2> DEFINE h == Sweeping([IdleFrame EXCEPT !.op = "pull", !.action = action], R, "pull_list")
  <2>2. h.op = "pull"
    BY <1>0 DEF Sweeping, Frame
  <2>3. p \in Firewall
    BY <1>12 DEF StartPull
  <2>4. Serves(p, h.op)
    BY <2>2, <2>3 DEF Serves, RunOps
  <2>5. Continue(p, h)
    BY <2>1
  <2> HIDE DEF h
  <2> QED BY <2>4, <2>5, BeginServes DEF Good
<1> QED BY <1>1, <1>2, <1>3, <1>4, <1>5, <1>6, <1>7, <1>8, <1>9, <1>10, <1>11, <1>12
        DEF Start, RuleStart, ApprovalStart, AnalystStart, Good

\* A step of handler p.
Moves(p) == Step(p) \/ LlmStep(p) \/ Start(p) \/ RunFail(p) \/ HandlerFail(p)

\* It leaves the other handlers alone, and p serves what it may.
LEMMA MoveServes ==
  ASSUME IInv, ServesOK, NEW p \in Procs, Moves(p)
  PROVE  ServesOK' /\ \A q \in Procs \ {p} : frames'[q] = frames[q]
<1>1. CASE Start(p)
  BY <1>1, StartServes DEF ServesOK
<1>2. CASE Stays(p)
  <2>1. Serves(p, "idle")
    BY DEF Serves, RunOps
  <2> QED BY <1>2, <2>1 DEF Stays, ServesOK
<1>3. CASE StaysRun(p)
  <2>1. p \in Engine
    BY <1>3 DEF StaysRun, ServesOK, Serves
  <2>2. Serves(p, frames'[p].op)
    BY <1>3, <2>1 DEF StaysRun, Serves, RunOps
  <2> QED BY <1>3, <2>2 DEF StaysRun, ServesOK
<1> QED BY <1>1, <1>2, <1>3, RuleStays, ApprovalStays, AnalystStays, FeedStays, RunStays, FailStays
        DEF Moves, Step

\* What it knew and what it does next fit.
LEMMA MoveKnows ==
  ASSUME IInv, NEW p \in Procs, Moves(p), Knows(frames[p]) PROVE Knows(frames[p])'
  BY RuleKnows, ApprovalKnows, RunKnows, LlmKnows, AnalystKnows, FeedKnows, StartKnows, FailKnows
  DEF Moves, Step

\* Rule r is written, and its action and address stay.
Alike(r) == rules'[r].action = rules[r].action /\ rules'[r].ip = rules[r].ip

\* The backend may have reported rule r in force.
Reported(r) == confirmed' \in {confirmed, confirmed \cup {r}}

\* What a step of handler p does to rule r, if it writes that one.
WritesRule(p, r) ==
  LET f == frames[p] IN
  \/ /\ f.pc = "insert" /\ rules[r].state = "absent"
     /\ rules'[r].action = f.action /\ rules'[r].ip = f.ip
     /\ rules'[r].state = "active" /\ Reported(r)
  \/ /\ f.pc = "enable" /\ r = f.rule
     /\ Alike(r) /\ rules'[r].state = "active" /\ Reported(r)
  \/ /\ \/ f.pc = "disable" /\ r = f.rule
        \/ f.pc \in {"sweep", "unblock", "rollback"} /\ r \in f.todo
     /\ Alike(r) /\ rules'[r].inv = rules[r].inv
     /\ rules'[r].state = "disabled" /\ rules'[r].enf.status # "ENFORCED"
     /\ UNCHANGED confirmed
  \/ /\ \/ f.pc \in {"check", "pull_mark"} /\ r \in f.todo
        \/ f.pc = "recheck" /\ r = f.rule
     /\ Alike(r) /\ rules'[r].inv = rules[r].inv /\ rules'[r].state = rules[r].state
     /\ Reported(r)
  \/ /\ f.pc \in {"link", "relink"}
     /\ Alike(r) /\ rules'[r].state = rules[r].state /\ rules'[r].enf = rules[r].enf
     /\ UNCHANGED confirmed

\* A step writes one rule at most.
OneRule(p) ==
  \/ UNCHANGED <<rules, confirmed>>
  \/ \E r \in Rules : WritesRule(p, r) /\ \A s \in Rules \ {r} : rules'[s] = rules[s]

\* What a backend answers to a removal.
LEMMA RemovedIsNotEnforced == ASSUME NEW e, NEW x \in RemoveAnswers(e) PROVE x.status # "ENFORCED"
  BY ModeAssumption DEF RemoveAnswers, Answer

\* Every step of a handler writes one rule at most, as its pc says.
LEMMA RuleWrites == ASSUME IInv, NEW p \in Procs, Moves(p) PROVE OneRule(p)
<1>0. PICK f \in Frame : f = frames[p] /\ FrameOK(f)
  BY HandlerFrame
<1> USE <1>0
<1>a. ASSUME NEW r \in Rules, NEW n, rules' = [rules EXCEPT ![r] = n]
      PROVE  rules'[r] = n /\ \A s \in Rules \ {r} : rules'[s] = rules[s]
  BY <1>a DEF IInv, TypeOK
<1>b. ASSUME NEW r \in Rules, NEW e, e.status # "ENFORCED",
             rules' = [rules EXCEPT ![r].state = "disabled", ![r].enf = e],
             UNCHANGED confirmed,
             (f.pc = "disable" /\ r = f.rule) \/ (f.pc \in {"sweep", "unblock", "rollback"} /\ r \in f.todo)
      PROVE  OneRule(p)
  BY <1>b DEF IInv, TypeOK, RuleRecord, OneRule, WritesRule, Alike
<1>c. ASSUME NEW r \in Rules, NEW e, rules' = [rules EXCEPT ![r].enf = e], Reported(r),
             (f.pc \in {"check", "pull_mark"} /\ r \in f.todo) \/ (f.pc = "recheck" /\ r = f.rule)
      PROVE  OneRule(p)
  BY <1>c DEF IInv, TypeOK, RuleRecord, OneRule, WritesRule, Alike
<1>d. ASSUME NEW r \in Rules, NEW i, rules' = [rules EXCEPT ![r].inv = i], UNCHANGED confirmed,
             f.pc \in {"link", "relink"}
      PROVE  OneRule(p)
  BY <1>d DEF IInv, TypeOK, RuleRecord, OneRule, WritesRule, Alike
<1>f. ASSUME NEW r \in Rules, NEW e, Confirm(r, e) PROVE Reported(r)
  BY <1>f DEF Confirm, Reported
<1>e. f.op = "toggle" \/ f.op = "recheck" => f.rule \in Rules
  BY DEF FrameOK, HeldOK, Frame
<1>1. CASE ExecuteInsert(p)
  <2>1. PICK r \in Rules, e \in ApplyAnswers(f.action),
              ttl \in {"none"} \cup (IF TimeBoxed THEN {"running"} ELSE {}) :
          /\ rules[r].state = "absent"
          /\ rules' = [rules EXCEPT ![r] = [state |-> "active", action |-> f.action, ip |-> f.ip,
                                            enf |-> e, inv |-> LinkOf(f), ttl |-> ttl]]
          /\ Confirm(r, e)
    BY <1>1 DEF ExecuteInsert
  <2>3. /\ rules'[r] = [state |-> "active", action |-> f.action, ip |-> f.ip,
                        enf |-> e, inv |-> LinkOf(f), ttl |-> ttl]
        /\ \A s \in Rules \ {r} : rules'[s] = rules[s]
    BY <2>1, <1>a
  <2>4. f.pc = "insert"
    BY <1>1 DEF ExecuteInsert, At
  <2>5. WritesRule(p, r)
    BY <1>f, <2>1, <2>3, <2>4 DEF WritesRule
  <2> QED BY <2>3, <2>5 DEF OneRule
<1>2. CASE VerifyCheck(p)
  <2>1. f.pc = "check"
    BY <1>2 DEF VerifyCheck, At
  <2>2. PICK r \in f.todo :
          \/ UNCHANGED <<rules, confirmed>>
          \/ \E e : rules' = [rules EXCEPT ![r].enf = e] /\ Confirm(r, e)
    BY <1>2 DEF VerifyCheck
  <2>3. r \in Rules
    BY DEF Frame
  <2> QED BY <1>c, <1>f, <2>1, <2>2, <2>3 DEF OneRule
<1>3. CASE ToggleEnable(p)
  <2>1. f.pc = "enable"
    BY <1>3 DEF ToggleEnable, At
  <2>2. f.rule \in Rules
    BY <1>e, <2>1 DEF FrameOK, OpOK
  <2>3. PICK r, e, ttl : /\ r = f.rule
                         /\ rules' = [rules EXCEPT ![r].state = "active", ![r].enf = e, ![r].ttl = ttl]
                         /\ Confirm(r, e)
    BY <1>3 DEF ToggleEnable
  <2>4. Reported(f.rule)
    BY <1>f, <2>2, <2>3
  <2> QED BY <2>4, <2>1, <2>2, <2>3 DEF IInv, TypeOK, RuleRecord, OneRule, WritesRule, Alike
<1>4. CASE ToggleDisable(p)
  <2>1. f.pc = "disable"
    BY <1>4 DEF ToggleDisable, At
  <2>2. PICK r \in Rules : r = f.rule
    BY <1>e, <2>1 DEF FrameOK, OpOK
  <2>3. PICK e \in RemoveAnswers(f.snap[r].enf) :
          rules' = [rules EXCEPT ![r].state = "disabled", ![r].enf = e]
    BY <1>4, <2>2 DEF ToggleDisable
  <2>4. e.status # "ENFORCED" /\ UNCHANGED confirmed
    BY <1>4, <2>3, RemovedIsNotEnforced DEF ToggleDisable
  <2> QED BY <2>1, <2>2, <2>3, <2>4 DEF IInv, TypeOK, RuleRecord, OneRule, WritesRule, Alike
<1>5. CASE RecheckWrite(p)
  <2>1. f.pc = "recheck"
    BY <1>5 DEF RecheckWrite, At
  <2>2. f.rule \in Rules
    BY <1>e, <2>1 DEF FrameOK, OpOK
  <2>3. PICK e : rules' = [rules EXCEPT ![f.rule].enf = e] /\ Confirm(f.rule, e)
    BY <1>5 DEF RecheckWrite
  <2> QED BY <1>c, <1>f, <2>1, <2>2, <2>3
<1>6. CASE SweepRule(p) \/ Unblock(p) \/ Rollback(p)
  <2>1. f.pc \in {"sweep", "unblock", "rollback"}
    BY <1>6 DEF SweepRule, Unblock, Rollback, At
  <2>2. PICK r \in f.todo : \E e \in RemoveAnswers(f.snap[r].enf) :
          rules' = [rules EXCEPT ![r].state = "disabled", ![r].enf = e]
    BY <1>6 DEF SweepRule, Unblock, Rollback
  <2>3. PICK e \in RemoveAnswers(f.snap[r].enf) :
          rules' = [rules EXCEPT ![r].state = "disabled", ![r].enf = e]
    BY <2>2
  <2>4. e.status # "ENFORCED"
    BY <2>3, RemovedIsNotEnforced
  <2>5. r \in Rules /\ UNCHANGED confirmed
    BY <1>6 DEF Frame, SweepRule, Unblock, Rollback
  <2> QED BY <1>b, <2>1, <2>3, <2>4, <2>5
<1>7. CASE FinishLink(p)
  <2>1. f.pc = "link"
    BY <1>7 DEF FinishLink, At
  <2>2. PICK r \in f.todo : rules' = [rules EXCEPT ![r].inv = f.inv]
    BY <1>7 DEF FinishLink
  <2>3. r \in Rules /\ UNCHANGED confirmed
    BY <1>7 DEF Frame, FinishLink
  <2> QED BY <1>d, <2>1, <2>2, <2>3
<1>8. CASE ReflectLink(p)
  <2>1. f.pc = "relink" /\ rules' = [rules EXCEPT ![f.rule].inv = f.inv] /\ UNCHANGED confirmed
    BY <1>8 DEF ReflectLink, At
  <2>2. f.rule \in Rules
    BY <2>1 DEF FrameOK, OpOK, DecideOK, Frame
  <2> QED BY <1>d, <2>1, <2>2
<1>9. CASE PullMark(p)
  <2>1. f.pc = "pull_mark"
    BY <1>9 DEF PullMark, At
  <2>2. PICK r \in f.todo : /\ rules' = [rules EXCEPT ![r].enf = Answer("ENFORCED", FALSE)]
                            /\ Confirm(r, Answer("ENFORCED", FALSE))
    BY <1>9 DEF PullMark
  <2>3. r \in Rules
    BY DEF Frame
  <2> QED BY <1>c, <1>f, <2>1, <2>2, <2>3
<1>10. CASE UNCHANGED <<rules, confirmed>>
  BY <1>10 DEF OneRule
<1>11. ASSUME RuleStep(p) PROVE OneRule(p)
  BY <1>1, <1>2, <1>3, <1>4, <1>5, <1>6, <1>10, <1>11
  DEF RuleStep, ExecuteRefuse, ExecuteLookup, VerifyList, ToggleClash
<1>12. ASSUME ApprovalStep(p) PROVE OneRule(p)
  BY <1>8, <1>10, <1>12
  DEF ApprovalStep, RequestLookup, RequestActive, RequestInsert, ExpireOne, DecideReject,
      DecideFail, DecideApprove, ReflectRead, ReflectWrite, DecideInv, DecideAlert, DecideContain
<1>13. ASSUME RunStep(p) \/ LlmStep(p) \/ RunFail(p) PROVE OneRule(p)
  BY <1>6, <1>7, <1>10, <1>13
  DEF RunStep, LlmStep, RunFail, MarkInvestigating, RunDecide, RunContain, RunVerify, RunVerified,
      Finish, FinishClose, FinishAudit, LlmContain, LlmVerify, LlmUnblock, LlmVerdict, LlmEnd,
      LlmFallback
<1>14. ASSUME AnalystStep(p) PROVE OneRule(p)
  BY <1>6, <1>10, <1>14 DEF AnalystStep, OverrideList, OverrideWrite, OverrideRule, OverrideAlert, SetStatus
<1>15. ASSUME FeedStep(p) PROVE OneRule(p)
  BY <1>9, <1>10, <1>15 DEF FeedStep, PullList, PullOwn, PullInv, PullAlert, PullContain
<1>16. ASSUME Start(p) \/ HandlerFail(p) PROVE OneRule(p)
  BY <1>10, <1>16 DEF Start, RuleStart, ApprovalStart, AnalystStart, StartAdd, StartProbe, StartToggle,
     StartRecheck, StartSweep, StartPropose, StartExpire, StartDecide, StartRun, StartOverride,
     StartStatus, StartPull, HandlerFail
<1> QED BY <1>11, <1>12, <1>13, <1>14, <1>15, <1>16 DEF Moves, Step

\* What a step of handler p does to request a, if it writes that one.
WritesRequest(p, a) ==
  LET f == frames[p] IN
  \/ /\ f.pc = "propose" /\ approvals[a].status = "absent"
     /\ approvals'[a].status = "PENDING"
     /\ approvals'[a].action = f.action /\ approvals'[a].ip = f.ip
  \/ /\ \/ f.pc = "lapse" /\ a \in f.held /\ approvals'[a].status = "EXPIRED"
        \/ f.pc = "reject" /\ a = f.apr /\ approvals'[a].status = "REJECTED"
        \/ f.pc = "fail" /\ a = f.apr /\ approvals'[a].status = "FAILED"
        \/ f.pc = "approve" /\ a = f.apr /\ approvals'[a].status = "APPROVED"
     /\ approvals'[a].action = approvals[a].action /\ approvals'[a].ip = approvals[a].ip

OneRequest(p) ==
  \/ UNCHANGED approvals
  \/ \E a \in Approvals :
       WritesRequest(p, a) /\ \A b \in Approvals \ {a} : approvals'[b] = approvals[b]

\* Every step of a handler writes one request at most, as its pc says.
LEMMA RequestWrites == ASSUME IInv, NEW p \in Procs, Moves(p) PROVE OneRequest(p)
<1>0. PICK f \in Frame : f = frames[p] /\ FrameOK(f)
  BY HandlerFrame
<1> USE <1>0
<1>1. CASE RequestInsert(p)
  <2>1. f.pc = "propose"
    BY <1>1 DEF RequestInsert, At
  <2>2. PICK a \in Approvals :
          /\ approvals[a].status = "absent"
          /\ approvals' = [approvals EXCEPT ![a] =
               [NoApproval EXCEPT !.status = "PENDING", !.action = f.action, !.ip = f.ip,
                                  !.alert = f.alert, !.inv = f.inv]]
    BY <1>1 DEF RequestInsert
  <2>3. PICK n : n = [NoApproval EXCEPT !.status = "PENDING", !.action = f.action, !.ip = f.ip,
                                        !.alert = f.alert, !.inv = f.inv]
    OBVIOUS
  <2>4. n.status = "PENDING" /\ n.action = f.action /\ n.ip = f.ip
    BY <2>3 DEF NoApproval
  <2>5. approvals'[a] = n /\ \A b \in Approvals \ {a} : approvals'[b] = approvals[b]
    BY <2>2, <2>3 DEF IInv, TypeOK
  <2> QED BY <2>1, <2>2, <2>4, <2>5 DEF OneRequest, WritesRequest
<1>2. CASE ExpireOne(p)
  <2>1. f.pc = "lapse"
    BY <1>2 DEF ExpireOne, At
  <2>2. PICK a \in f.held : approvals' = [approvals EXCEPT ![a].status = "EXPIRED"]
    BY <1>2 DEF ExpireOne
  <2>3. a \in Approvals
    BY DEF Frame
  <2> QED BY <2>1, <2>2, <2>3 DEF IInv, TypeOK, ApprovalRecord, OneRequest, WritesRequest
<1>a. f.op = "decide" => f.apr \in Approvals
  BY DEF FrameOK, DecideOK, Frame
<1>3. CASE DecideReject(p)
  <2>1. f.pc = "reject" /\ approvals' = [approvals EXCEPT ![f.apr].status = "REJECTED"]
    BY <1>3 DEF DecideReject, At
  <2>2. f.apr \in Approvals
    BY <1>a, <2>1 DEF FrameOK, OpOK
  <2> QED BY <2>1, <2>2 DEF IInv, TypeOK, ApprovalRecord, OneRequest, WritesRequest
<1>4. CASE DecideFail(p)
  <2>1. f.pc = "fail" /\ approvals' = [approvals EXCEPT ![f.apr].status = "FAILED"]
    BY <1>4 DEF DecideFail, At
  <2>2. f.apr \in Approvals
    BY <1>a, <2>1 DEF FrameOK, OpOK
  <2> QED BY <2>1, <2>2 DEF IInv, TypeOK, ApprovalRecord, OneRequest, WritesRequest
<1>5. CASE DecideApprove(p)
  <2>1. /\ f.pc = "approve"
        /\ approvals' = [approvals EXCEPT ![f.apr].status = "APPROVED", ![f.apr].rule = f.rule]
    BY <1>5 DEF DecideApprove, At
  <2>2. f.apr \in Approvals
    BY <1>a, <2>1 DEF FrameOK, OpOK
  <2> QED BY <2>1, <2>2 DEF IInv, TypeOK, ApprovalRecord, OneRequest, WritesRequest
<1>6. CASE UNCHANGED approvals
  BY <1>6 DEF OneRequest
<1>11. ASSUME RuleStep(p) PROVE OneRequest(p)
  BY <1>6, <1>11
  DEF RuleStep, ExecuteRefuse, ExecuteLookup, ExecuteInsert, VerifyList, VerifyCheck, ToggleClash,
      ToggleEnable, ToggleDisable, RecheckWrite, SweepRule
<1>12. ASSUME ApprovalStep(p) PROVE OneRequest(p)
  BY <1>1, <1>2, <1>3, <1>4, <1>5, <1>6, <1>12
  DEF ApprovalStep, RequestLookup, RequestActive, ReflectRead, ReflectWrite, ReflectLink, DecideInv,
      DecideAlert, DecideContain
<1>13. ASSUME RunStep(p) \/ LlmStep(p) \/ RunFail(p) PROVE OneRequest(p)
  BY <1>6, <1>13
  DEF RunStep, LlmStep, RunFail, MarkInvestigating, RunDecide, RunContain, RunVerify, RunVerified,
      Unblock, Finish, FinishLink, FinishClose, FinishAudit, LlmContain, LlmVerify, LlmUnblock,
      LlmVerdict, LlmEnd, LlmFallback
<1>14. ASSUME AnalystStep(p) PROVE OneRequest(p)
  BY <1>6, <1>14 DEF AnalystStep, OverrideList, Rollback, OverrideWrite, OverrideRule,
     OverrideAlert, SetStatus
<1>15. ASSUME FeedStep(p) PROVE OneRequest(p)
  BY <1>6, <1>15 DEF FeedStep, PullList, PullMark, PullOwn, PullInv, PullAlert, PullContain
<1>16. ASSUME Start(p) \/ HandlerFail(p) PROVE OneRequest(p)
  BY <1>6, <1>16 DEF Start, RuleStart, ApprovalStart, AnalystStart, StartAdd, StartProbe, StartToggle,
     StartRecheck, StartSweep, StartPropose, StartExpire, StartDecide, StartRun, StartOverride,
     StartStatus, StartPull, HandlerFail
<1> QED BY <1>11, <1>12, <1>13, <1>14, <1>15, <1>16 DEF Moves, Step

\* A request that is settled stays as it is, except its age.
SettledStay ==
  \A a \in Approvals : approvals[a].status \notin {"absent", "PENDING"} =>
    approvals'[a].status = approvals[a].status

\* What a request asks for stays.
RequestsStay ==
  \A a \in Approvals : approvals[a].status # "absent" =>
    approvals'[a].action = approvals[a].action /\ approvals'[a].ip = approvals[a].ip

\* Rules are only switched off, requests only settled.
Shrinks ==
  /\ \A r \in Rules : /\ Alike(r) /\ rules'[r].inv = rules[r].inv
                      /\ rules'[r].state = "active" => rules[r].state = "active"
  /\ \A a \in Approvals : approvals'[a].status = "PENDING" =>
       /\ approvals[a].status = "PENDING"
       /\ approvals'[a].action = approvals[a].action /\ approvals'[a].ip = approvals[a].ip

\* That leaves what the one writer knows true.
LEMMA WriterLasts ==
  ASSUME Shrinks, NEW h \in Frame, HeldOK(h), OpOK(h), WriterOK(h) PROVE WriterOK(h)'
<1>1. \A action, ip : Clashes(action, ip)' \subseteq Clashes(action, ip)
  BY DEF Shrinks, Clashes, ActiveFor, Active, Alike
<1>2. \A action, ip : Open(action, ip)' \subseteq Open(action, ip)
  BY DEF Shrinks, Open
<1>3. \A i : LinkedTo(i)' \subseteq LinkedTo(i)
  BY DEF Shrinks, LinkedTo, Active, Alike
<1>4. h.pc \in {"clash", "enable"} => h.rule \in Rules /\ Alike(h.rule)
  BY DEF OpOK, HeldOK, Frame, Shrinks
<1>5. (h.pc = "insert" => Clashes(h.action, h.ip) = {})
        => (h.pc = "insert" => Clashes(h.action, h.ip)' = {})
  BY <1>1
<1> QED BY <1>1, <1>2, <1>3, <1>4 DEF WriterOK, Benign, OneOf, Alike

\* A handler that is neither of engine nor of console only shrinks what the others add to.
LEMMA OutsiderShrinks ==
  ASSUME IInv, ServesOK, NEW p \in Procs, Moves(p), p \notin Engine \cup Console PROVE Shrinks
<1>0. PICK f \in Frame : f = frames[p] /\ FrameOK(f)
  BY HandlerFrame
<1>1. f.op \in {"idle", "lapse", "sweep", "pull"}
  BY <1>0 DEF ServesOK, Serves, RunOps, Frame, Ops
<1>2. f.pc \notin {"insert", "enable", "disable", "unblock", "rollback", "check", "recheck",
                   "link", "relink", "propose"}
  BY <1>0, <1>1 DEF FrameOK, OpOK, RunOps
<1>3. \A r \in Rules : /\ Alike(r) /\ rules'[r].inv = rules[r].inv
                       /\ rules'[r].state = "active" => rules[r].state = "active"
  <2>1. CASE UNCHANGED rules
    BY <2>1 DEF Alike
  <2>2. CASE \E r \in Rules : WritesRule(p, r) /\ \A s \in Rules \ {r} : rules'[s] = rules[s]
    BY <1>0, <1>2, <2>2 DEF WritesRule, Alike
  <2> QED BY <2>1, <2>2, RuleWrites DEF OneRule
<1>4. \A a \in Approvals : approvals'[a].status = "PENDING" =>
        /\ approvals[a].status = "PENDING"
        /\ approvals'[a].action = approvals[a].action /\ approvals'[a].ip = approvals[a].ip
  <2>1. CASE UNCHANGED approvals
    BY <2>1
  <2>2. CASE \E a \in Approvals :
               WritesRequest(p, a) /\ \A b \in Approvals \ {a} : approvals'[b] = approvals[b]
    BY <1>0, <1>2, <2>2 DEF WritesRequest
  <2> QED BY <2>1, <2>2, RequestWrites DEF OneRequest
<1> QED BY <1>3, <1>4 DEF Shrinks

\* Whoever is neither of console nor of the timer settles nothing.
LEMMA OutsiderSettlesNothing ==
  ASSUME IInv, ServesOK, NEW p \in Procs, Moves(p), p \notin Console \cup Timer,
         NEW a \in Approvals, approvals[a].status # "absent"
  PROVE  approvals'[a] = approvals[a]
<1>0. PICK f \in Frame : f = frames[p] /\ FrameOK(f)
  BY HandlerFrame
<1>1. f.op \notin {"decide", "lapse"}
  BY <1>0 DEF ServesOK, Serves
<1>2. f.pc \notin {"lapse", "reject", "fail", "approve"}
  BY <1>0, <1>1 DEF FrameOK, OpOK
<1> QED BY <1>0, <1>2, RequestWrites DEF OneRequest, WritesRequest

\* Requests are never taken back or changed, whoever works on them.
LEMMA MoveKeepsRequests ==
  ASSUME IInv, NEW p \in Procs, Moves(p)
  PROVE  /\ RequestsStay
         /\ \A a \in Approvals : approvals[a].status # "absent" => approvals'[a].status # "absent"
  BY RequestWrites DEF OneRequest, WritesRequest, RequestsStay

\* The only one who settles requests settles open ones.
LEMMA MoveKeepsSettled ==
  ASSUME IInv, OneOf(Console \cup Timer), NEW p \in Procs, Moves(p), DeciderOK(frames[p])
  PROVE  SettledStay
<1>0. PICK f \in Frame : f = frames[p] /\ FrameOK(f)
  BY HandlerFrame
<1>1. f.pc \in {"reject", "fail", "approve"} => approvals[f.apr].status = "PENDING"
  BY <1>0 DEF DeciderOK, FrameOK, OpOK, Undecided
<1>2. f.pc = "lapse" => \A a \in f.held : approvals[a].status = "PENDING"
  BY <1>0 DEF DeciderOK
<1> QED BY <1>0, <1>1, <1>2, RequestWrites DEF OneRequest, WritesRequest, SettledStay

\* The others keep what they know.
LEMMA OthersKnow ==
  ASSUME IInv, SerialInv, NEW p \in Procs, Moves(p), NEW q \in Procs \ {p} PROVE Knows(frames[q])'
<1>0. PICK h \in Frame : h = frames[q] /\ FrameOK(h) /\ Knows(h)
  BY HandlerFrame DEF SerialInv
<1>1. ServesOK /\ frames'[q] = h
  BY <1>0, MoveServes DEF SerialInv
<1>2. WriterOK(h)'
  <2>1. CASE OneOf(Engine \cup Console) /\ q \in Engine \cup Console
    <3>1. p \notin Engine \cup Console
      BY <2>1 DEF OneOf
    <3>2. Shrinks
      BY <1>1, <3>1, OutsiderShrinks
    <3> QED BY <1>0, <3>2, WriterLasts DEF Knows, FrameOK
  <2>2. CASE q \notin Engine \cup Console
    <3>1. h.op \in {"idle", "lapse", "sweep", "pull"}
      BY <1>0, <1>1, <2>2 DEF ServesOK, Serves, RunOps, Frame, Ops
    <3>2. h.pc \notin {"insert", "clash", "enable", "active", "propose"}
      BY <1>0, <3>1 DEF FrameOK, OpOK, RunOps
    <3> QED BY <3>1, <3>2 DEF WriterOK, Benign
  <2>3. CASE ~OneOf(Engine \cup Console)
    BY <1>0, <2>3 DEF Knows, WriterOK, Benign, OneOf
  <2> QED BY <2>1, <2>2, <2>3
<1>3. ReaderOK(h)'
  BY DEF ReaderOK, OneOf
<1>4. DeciderOK(h)'
  <2>1. CASE h.op = "decide" \/ h.pc = "lapse"
    <3>1. q \in Console \cup Timer
      BY <1>0, <1>1, <2>1 DEF FrameOK, OpOK, ServesOK, Serves
    <3>2. OneOf(Console \cup Timer) => p \notin Console \cup Timer
      BY <3>1 DEF OneOf
    <3>3. OneOf(Console \cup Timer) =>
            \A a \in Approvals : approvals[a].status = "PENDING" => approvals'[a] = approvals[a]
      BY <1>1, <3>2, OutsiderSettlesNothing
    <3>4. h.op = "decide" => h.apr \in Approvals
      BY <1>0 DEF FrameOK, DecideOK, Frame
    <3> QED BY <1>0, <3>3, <3>4 DEF Knows, DeciderOK, OneOf, Frame
  <2>2. CASE ~(h.op = "decide" \/ h.pc = "lapse")
    BY <2>2 DEF DeciderOK
  <2> QED BY <2>1, <2>2
<1>5. ManualOK(h)'
  <2>1. Manual => SettledStay
    BY MoveKeepsSettled DEF Manual, SerialInv, Knows
  <2>2. h.op = "decide" => h.apr \in Approvals
    BY <1>0 DEF FrameOK, DecideOK, Frame
  <2>3. Refused(h)' = Refused(h)
    BY DEF Refused
  <2> QED BY <1>0, <2>1, <2>2, <2>3 DEF Knows, ManualOK, Manual, SettledStay, OneOf
<1>6. Knows(h)'
  BY <1>2, <1>3, <1>4, <1>5 DEF Knows
<1> QED BY <1>1, <1>6

\* A handler that is alone with what it reads keeps rules and requests single.
LEMMA MoveKeepsSingle ==
  ASSUME IInv, OneOf(Engine \cup Console), NEW p \in Procs, Moves(p), WriterOK(frames[p]),
         OneActiveRule, OneOpenRequest
  PROVE  OneActiveRule' /\ OneOpenRequest'
<1>0. PICK f \in Frame : f = frames[p] /\ FrameOK(f) /\ WriterOK(f)
  BY HandlerFrame
<1>1. OneActiveRule'
  <2>1. CASE UNCHANGED rules
    BY <2>1 DEF OneActiveRule, Active
  <2>2. ASSUME NEW r \in Rules, WritesRule(p, r), \A s \in Rules \ {r} : rules'[s] = rules[s]
        PROVE  OneActiveRule'
    <3>1. CASE f.pc = "insert" /\ rules'[r].action = f.action /\ rules'[r].ip = f.ip
      <4>1. \A s \in Rules : ~(Active(s) /\ rules[s].action = f.action /\ rules[s].ip = f.ip)
        BY <1>0, <3>1 DEF WriterOK, Clashes, ActiveFor
      <4> QED BY <2>2, <3>1, <4>1 DEF OneActiveRule, Active
    <3>2. CASE f.pc = "enable" /\ r = f.rule /\ Alike(r)
      <4>1. \A s \in Rules : ~(Active(s) /\ rules[s].action = rules[r].action /\ rules[s].ip = rules[r].ip)
        BY <1>0, <3>2 DEF WriterOK, Clashes, ActiveFor
      <4> QED BY <2>2, <3>2, <4>1 DEF OneActiveRule, Active, Alike
    <3>3. CASE Alike(r) /\ (rules'[r].state = "active" => rules[r].state = "active")
      BY <2>2, <3>3 DEF OneActiveRule, Active, Alike
    <3> QED BY <1>0, <2>2, <3>1, <3>2, <3>3 DEF WritesRule
  <2> QED BY <2>1, <2>2, RuleWrites DEF OneRule
<1>2. OneOpenRequest'
  <2>1. CASE UNCHANGED approvals
    BY <2>1 DEF OneOpenRequest
  <2>2. ASSUME NEW a \in Approvals, WritesRequest(p, a),
               \A b \in Approvals \ {a} : approvals'[b] = approvals[b]
        PROVE  OneOpenRequest'
    <3>1. CASE f.pc = "propose" /\ approvals'[a].action = f.action /\ approvals'[a].ip = f.ip
      <4>1. \A b \in Approvals :
              ~(approvals[b].status = "PENDING" /\ approvals[b].action = f.action
                                                /\ approvals[b].ip = f.ip)
        BY <1>0, <3>1 DEF WriterOK, Open
      <4> QED BY <2>2, <3>1, <4>1 DEF OneOpenRequest
    <3>2. CASE approvals'[a].status # "PENDING"
      BY <2>2, <3>2 DEF OneOpenRequest
    <3> QED BY <1>0, <2>2, <3>1, <3>2 DEF WritesRequest
  <2> QED BY <2>1, <2>2, RequestWrites DEF OneRequest
<1> QED BY <1>1, <1>2

\* A handler that is alone writes what it is told only to rules that are on.
LEMMA MoveKeepsEnforced ==
  ASSUME IInv, OneOf(Procs), NEW p \in Procs, Moves(p), ReaderOK(frames[p]), DisabledIsNotEnforced
  PROVE  DisabledIsNotEnforced'
<1>0. PICK f \in Frame : f = frames[p] /\ FrameOK(f) /\ ReaderOK(f)
  BY HandlerFrame
<1>1. CASE UNCHANGED rules
  BY <1>1 DEF DisabledIsNotEnforced
<1>2. ASSUME NEW r \in Rules, WritesRule(p, r), \A s \in Rules \ {r} : rules'[s] = rules[s]
      PROVE  DisabledIsNotEnforced'
  <2>1. CASE \/ f.pc \in {"check", "pull_mark"} /\ r \in f.todo
             \/ f.pc = "recheck" /\ r = f.rule
    BY <1>0, <1>2, <2>1 DEF ReaderOK, Active, DisabledIsNotEnforced, WritesRule
  <2>2. CASE rules'[r].state = "active" \/ rules'[r].enf.status # "ENFORCED"
    BY <1>2, <2>2 DEF DisabledIsNotEnforced
  <2>3. CASE rules'[r].state = rules[r].state /\ rules'[r].enf = rules[r].enf
    BY <1>2, <2>3 DEF DisabledIsNotEnforced
  <2> QED BY <1>0, <1>2, <2>1, <2>2, <2>3 DEF WritesRule
<1> QED BY <1>1, <1>2, RuleWrites DEF OneRule

\* A decision under way returns only once it is on record, or refused.
LEMMA DecisionGoesOn ==
  ASSUME IInv, Manual, NEW p \in Procs, Moves(p), frames[p].op = "decide", frames[p].yes,
         frames[p].pc \in Undecided \ {"fail"}
  PROVE  \/ frames'[p].op = "decide" /\ frames'[p].apr = frames[p].apr /\ frames'[p].yes
         \/ approvals'[frames[p].apr].status = "APPROVED"
<1>0. PICK f \in Frame : f = frames[p] /\ FrameOK(f)
  BY HandlerFrame
<1> DEFINE Goes == \/ frames'[p].op = "decide" /\ frames'[p].apr = f.apr /\ frames'[p].yes
                   \/ approvals'[f.apr].status = "APPROVED"
<1>a. ASSUME NEW h, Continue(p, h), h.op = f.op, h.apr = f.apr, h.yes = f.yes, h.pc # "idle" PROVE Goes
  BY <1>0, <1>a DEF Continue, IInv, TypeOK
<1> SUFFICES Goes
  BY <1>0
<1>b. ASSUME NEW r \in Rules, NEW b \in BOOLEAN, Continue(p, WithRule(f, r, b)) PROVE Goes
  <2>1. PICK h : /\ Continue(p, h)
                 /\ h.op = f.op /\ h.apr = f.apr /\ h.yes = f.yes /\ h.pc = AfterExecute(f.op)
    BY <1>b, WithRuleFields
  <2> QED BY <1>0, <1>a, <2>1 DEF AfterExecute
<1>c. f.pc # "reject" /\ f.pc # "idle" /\ f.op \notin RunOps
  BY <1>0 DEF FrameOK, DecideOK, Undecided, RunOps
<1> HIDE DEF Goes
<1>1. CASE ExecuteRefuse(p)
  BY <1>0, <1>1, <1>a DEF ExecuteRefuse, AfterRefusal, Frame
<1>2. CASE ExecuteLookup(p)
  <2>1. CASE Continue(p, [f EXCEPT !.pc = "insert"])
    BY <1>a, <2>1 DEF Frame
  <2> QED BY <1>0, <1>2, <1>b, <2>1 DEF ExecuteLookup, Clashes, ActiveFor
<1>3. CASE ExecuteInsert(p)
  <2>1. PICK r \in Rules : Continue(p, WithRule(f, r, TRUE))
    BY <1>0, <1>3 DEF ExecuteInsert
  <2> QED BY <1>b, <2>1
<1>4. CASE VerifyList(p)
  <2>1. PICK R, snap, pc : /\ pc \in {"approve", "check"}
                           /\ Continue(p, [f EXCEPT !.pc = pc, !.todo = R, !.snap = snap, !.seen = {}])
    BY <1>0, <1>4 DEF VerifyList, AfterVerify
  <2> QED BY <1>a, <2>1 DEF Frame
<1>5. CASE VerifyCheck(p)
  <2>1. PICK r \in f.todo : \E e :
          Continue(p, [f EXCEPT !.pc = IF f.todo = {r} THEN AfterVerify(f.op) ELSE "check",
                                !.todo = @ \ {r}, !.snap[r] = NoRule,
                                !.seen = @ \cup {e.status}])
    BY <1>0, <1>5 DEF VerifyCheck
  <2>2. PICK e :
          Continue(p, [f EXCEPT !.pc = IF f.todo = {r} THEN AfterVerify(f.op) ELSE "check",
                                !.todo = @ \ {r}, !.snap[r] = NoRule,
                                !.seen = @ \cup {e.status}])
    BY <2>1
  <2> QED BY <1>0, <1>a, <2>2 DEF AfterVerify, Frame
<1>6. CASE DecideApprove(p)
  <2>1. approvals' = [approvals EXCEPT ![f.apr].status = "APPROVED", ![f.apr].rule = f.rule]
    BY <1>0, <1>6 DEF DecideApprove
  <2>2. f.apr \in Approvals
    BY <1>0 DEF FrameOK, DecideOK, Frame
  <2> QED BY <2>1, <2>2 DEF Goes, IInv, TypeOK, ApprovalRecord
<1>7. CASE RuleStep(p)
  BY <1>0, <1>1, <1>2, <1>3, <1>4, <1>5, <1>7
  DEF RuleStep, ToggleClash, ToggleEnable, ToggleDisable, RecheckWrite, SweepRule, At, Undecided
<1>8. CASE ApprovalStep(p)
  BY <1>0, <1>c, <1>6, <1>8
  DEF ApprovalStep, RequestLookup, RequestActive, RequestInsert, ExpireOne, DecideReject, DecideFail,
      ReflectRead, ReflectWrite, ReflectLink, DecideInv, DecideAlert, DecideContain, At, Undecided
<1>9. ~(RunStep(p) \/ LlmStep(p) \/ RunFail(p))
  BY <1>0, <1>c, RunStays DEF StaysRun
<1>10. ~AnalystStep(p)
  BY <1>0 DEF AnalystStep, OverrideList, Rollback, OverrideWrite, OverrideRule, OverrideAlert,
     SetStatus, At, Undecided
<1>11. ~FeedStep(p)
  BY <1>0 DEF FeedStep, PullList, PullMark, PullOwn, PullInv, PullAlert, PullContain, At, Undecided
<1>12. ~Start(p)
  BY <1>0, <1>c DEF Start, RuleStart, ApprovalStart, AnalystStart, StartAdd, StartProbe, StartToggle,
     StartRecheck, StartSweep, StartPropose, StartExpire, StartDecide, StartRun, StartOverride,
     StartStatus, StartPull, Idle
<1>13. ~HandlerFail(p)
  BY DEF HandlerFail, Manual
<1> QED BY <1>7, <1>8, <1>9, <1>10, <1>11, <1>12, <1>13 DEF Moves, Step

\* Under "manual", whatever is in the store was approved or is being approved.
LEMMA MoveKeepsApproved ==
  ASSUME IInv, SerialInv, Manual, NEW p \in Procs, Moves(p) PROVE RuleNeedsApproval'
<1>0. PICK f \in Frame : f = frames[p] /\ FrameOK(f) /\ Knows(f)
  BY HandlerFrame DEF SerialInv
<1>1. RequestsStay /\ SettledStay
  BY MoveKeepsRequests, MoveKeepsSettled DEF Manual, SerialInv, Knows
<1>2. \A q \in Procs \ {p} : frames'[q] = frames[q]
  BY MoveServes DEF SerialInv
<1>3. \A q \in Procs : frames[q].op = "decide" =>
        frames[q].apr \in Approvals /\ approvals[frames[q].apr].status # "absent"
  BY DEF IInv, TypeOK, Frame, FrameOK, DecideOK
\* A request that answered for a rule still does.
<1>4. ASSUME NEW action, NEW ip, NEW a \in Approvals,
             approvals[a].action = action, approvals[a].ip = ip,
             \/ approvals[a].status = "APPROVED"
             \/ \E q \in Procs : frames[q].op = "decide" /\ frames[q].apr = a /\ frames[q].yes,
             ~(action = "BLOCK" /\ ip \in Internal)
      PROVE  /\ approvals'[a].action = action /\ approvals'[a].ip = ip
             /\ \/ approvals'[a].status = "APPROVED"
                \/ \E q \in Procs : frames'[q].op = "decide" /\ frames'[q].apr = a /\ frames'[q].yes
  <2>1. approvals[a].status # "absent"
    BY <1>3, <1>4
  <2>2. approvals'[a].action = action /\ approvals'[a].ip = ip
    BY <1>1, <1>4, <2>1 DEF RequestsStay
  <2>3. CASE approvals[a].status = "APPROVED"
    BY <1>1, <2>2, <2>3 DEF SettledStay
  <2>4. ASSUME NEW q \in Procs \ {p}, frames[q].op = "decide", frames[q].apr = a, frames[q].yes
        PROVE  \E x \in Procs : frames'[x].op = "decide" /\ frames'[x].apr = a /\ frames'[x].yes
    BY <1>2, <2>4
  <2>5. CASE f.op = "decide" /\ f.apr = a /\ f.yes /\ approvals[a].status # "APPROVED"
    <3>1. f.pc \in Undecided /\ (f.pc = "fail" => Refused(f))
      BY <1>0, <2>5 DEF Knows, ManualOK
    <3>2. f.action = action /\ f.ip = ip
      BY <1>0, <1>4, <2>5 DEF FrameOK, DecideOK
    <3>3. f.pc # "fail"
      BY <1>4, <3>1, <3>2 DEF Refused
    <3>4. \/ frames'[p].op = "decide" /\ frames'[p].apr = a /\ frames'[p].yes
          \/ approvals'[a].status = "APPROVED"
      BY <1>0, <2>5, <3>1, <3>3, DecisionGoesOn
    <3> QED BY <2>2, <3>4
  <2> QED BY <1>0, <1>4, <2>2, <2>3, <2>4, <2>5
\* A new rule answers to the decision that executes.
<1>5. ASSUME NEW r \in Rules, rules'[r].state # "absent"
      PROVE  /\ ~(rules'[r].action = "BLOCK" /\ rules'[r].ip \in Internal)
             /\ \E a \in Approvals :
                  /\ approvals[a].action = rules'[r].action /\ approvals[a].ip = rules'[r].ip
                  /\ \/ approvals[a].status = "APPROVED"
                     \/ \E q \in Procs : frames[q].op = "decide" /\ frames[q].apr = a /\ frames[q].yes
  <2>1. CASE rules[r].state # "absent" /\ Alike(r)
    BY <2>1 DEF Alike, IInv, StoreOK, RulesOK, Present, SerialInv, RuleNeedsApproval
  <2>2. CASE f.pc = "insert" /\ rules'[r].action = f.action /\ rules'[r].ip = f.ip
    <3>1. f.op = "decide" /\ f.yes /\ ~Refused(f)
      BY <1>0, <2>2 DEF Knows, ManualOK, FrameOK, DecideOK, HeldOK
    <3>2. f.apr \in Approvals /\ approvals[f.apr].action = f.action /\ approvals[f.apr].ip = f.ip
      BY <1>0, <3>1 DEF FrameOK, DecideOK, Frame
    <3> QED BY <1>0, <2>2, <3>1, <3>2 DEF Refused
  <2>3. r = f.rule \/ r \in f.todo => Present(r)
    BY <1>0, ResponseAssumption DEF FrameOK, HeldOK, Frame
  <2> QED BY <1>0, <1>5, <2>1, <2>2, <2>3, RuleWrites DEF OneRule, WritesRule, Alike, Present
<1> QED BY <1>4, <1>5 DEF RuleNeedsApproval

\* When an override to a benign verdict is about to return, its rules are gone.
LEMMA OverrideReturns ==
  ASSUME IInv, SerialInv, OneOf(Engine \cup Console), NEW p \in Procs, At(p, "ovr_alert"),
         frames[p].outcome \in {"FALSE_POSITIVE", "RECON_ONLY"}
  PROVE  LinkedTo(frames[p].inv) = {}
<1>1. frames[p].op = "override"
  BY DEF IInv, FrameOK, OpOK, At
<1> QED BY <1>1 DEF SerialInv, Knows, WriterOK, Benign, At

\* A step of a handler.
LEMMA MoveKeepsSerial ==
  ASSUME IInv, SerialInv, NEW p \in Procs, Moves(p) PROVE SerialInv'
<1>1. Knows(frames[p]) /\ ServesOK
  BY DEF SerialInv
<1>2. ServesOK'
  BY <1>1, MoveServes
<1>3. ASSUME NEW q \in Procs PROVE Knows(frames[q])'
  BY <1>1, MoveKnows, OthersKnow
<1>4. ASSUME OneOf(Engine \cup Console) PROVE OneActiveRule' /\ OneOpenRequest'
  BY <1>1, <1>4, MoveKeepsSingle DEF SerialInv, Knows
<1>5. ASSUME OneOf(Procs) PROVE DisabledIsNotEnforced'
  BY <1>1, <1>5, MoveKeepsEnforced DEF SerialInv, Knows
<1>6. ASSUME Manual PROVE RuleNeedsApproval'
  BY <1>6, MoveKeepsApproved
<1> QED BY <1>2, <1>3, <1>4, <1>5, <1>6 DEF SerialInv, OneOf, Manual

\* A step of nobody that lists the same rules and requests.
LEMMA StillKeepsSerial ==
  ASSUME IInv, SerialInv, UNCHANGED frames, SameRules, \A r \in Rules : rules'[r].enf = rules[r].enf,
         \A a \in Approvals : /\ approvals'[a].status = approvals[a].status
                              /\ approvals'[a].action = approvals[a].action
                              /\ approvals'[a].ip = approvals[a].ip
  PROVE  SerialInv'
<1>1. ServesOK'
  BY DEF SerialInv, ServesOK, Serves
<1>2. ASSUME NEW q \in Procs PROVE Knows(frames[q])'
  <2>1. PICK h \in Frame : h = frames[q] /\ FrameOK(h) /\ Knows(h)
    BY HandlerFrame DEF SerialInv
  <2>2. WriterOK(h)'
    <3>1. Shrinks
      BY DEF Shrinks, SameRules, Alike
    <3> QED BY <2>1, <3>1, WriterLasts DEF Knows, FrameOK
  <2>3. ReaderOK(h)'
    BY <2>1 DEF SameRules, Knows, ReaderOK, Active, FrameOK, OpOK, HeldOK, Frame, OneOf
  <2>4. h.op = "decide" => h.apr \in Approvals
    BY <2>1 DEF FrameOK, DecideOK, Frame
  <2>5. DeciderOK(h)'
    BY <2>1, <2>4 DEF Knows, DeciderOK, Frame, OneOf
  <2>6. Refused(h)' = Refused(h)
    BY DEF Refused
  <2>7. ManualOK(h)'
    BY <2>1, <2>4, <2>6 DEF Knows, ManualOK, Manual, OneOf
  <2> QED BY <2>1, <2>2, <2>3, <2>5, <2>7 DEF Knows
<1>3. (OneOf(Engine \cup Console) => OneActiveRule /\ OneOpenRequest)'
  BY DEF SerialInv, OneActiveRule, OneOpenRequest, Active, SameRules, OneOf
<1>4. (OneOf(Procs) => DisabledIsNotEnforced)'
  BY DEF SerialInv, DisabledIsNotEnforced, SameRules, OneOf
<1>5. (Manual => RuleNeedsApproval)'
  BY DEF SerialInv, RuleNeedsApproval, SameRules, Manual, OneOf
<1> QED BY <1>1, <1>2, <1>3, <1>4, <1>5 DEF SerialInv

\* A restart.
LEMMA CrashKeepsSerial == ASSUME IInv, SerialInv, Crash PROVE SerialInv'
<1>1. \A p \in Procs : frames'[p] = IdleFrame
  BY DEF Crash
<1>2. ~Manual
  BY DEF Crash, Manual, IInv, TypeOK
<1>3. ServesOK'
  BY <1>1 DEF ServesOK, Serves, IdleFrame, RunOps
<1>4. \A p \in Procs : Knows(frames[p])'
  BY <1>1, IdleKnows
<1>5. UNCHANGED <<rules, approvals>>
  BY DEF Crash
<1> QED BY <1>2, <1>3, <1>4, <1>5 DEF SerialInv, Manual, OneOf, OneActiveRule, OneOpenRequest,
        DisabledIsNotEnforced, Active

\* No handler knows anything in the beginning.
LEMMA InitSerial == Init => SerialInv
<1> SUFFICES ASSUME Init PROVE SerialInv
  OBVIOUS
<1>1. \A p \in Procs : frames[p] = IdleFrame
  BY DEF Init
<1>2. ServesOK
  BY <1>1 DEF ServesOK, Serves, IdleFrame, RunOps
<1>3. \A p \in Procs : Knows(frames[p])
  BY <1>1, IdleKnows
<1>4. /\ \A r \in Rules : rules[r].state = "absent"
      /\ \A a \in Approvals : approvals[a].status = "absent"
  BY DEF Init, NoRule, NoApproval
<1> QED BY <1>2, <1>3, <1>4 DEF SerialInv, OneActiveRule, OneOpenRequest, DisabledIsNotEnforced,
        RuleNeedsApproval, Active

\* Every step keeps it.
LEMMA NextSerial == IInv /\ SerialInv /\ [Next]_vars => SerialInv'
<1> SUFFICES ASSUME IInv, SerialInv, [Next]_vars PROVE SerialInv'
  OBVIOUS
<1>1. CASE \E p \in Procs : Moves(p)
  BY <1>1, MoveKeepsSerial
<1>2. CASE \E r \in Rules : Lapse(r)
  BY <1>2, StillKeepsSerial DEF Lapse, SameRules, IInv, TypeOK, RuleRecord
<1>3. CASE \E a \in Approvals : Age(a)
  BY <1>3, StillKeepsSerial DEF Age, SameRules, IInv, TypeOK, ApprovalRecord
<1>4. CASE UNCHANGED vars
  BY <1>4, StillKeepsSerial DEF vars, SameRules
<1> QED BY <1>1, <1>2, <1>3, <1>4, CrashKeepsSerial DEF Next, Moves

\* So it holds at every moment.
LEMMA SerialHolds == Spec => [](IInv /\ SerialInv)
<1>1. Init => IInv /\ SerialInv
  BY InitIInv, InitSerial
<1>2. IInv /\ SerialInv /\ [Next]_vars => IInv' /\ SerialInv'
  BY NextIInv, NextSerial
<1> QED BY <1>1, <1>2, PTL DEF Spec

-----------------------------------------------------------------------------
\* Where one handler at a time settles requests (decides them or lets them lapse), a
\* request that was approved, rejected, failed or expired is never decided again,
\* whatever engine and firewalls do meanwhile and whichever calls fail.  decide() reads
\* the request once and tests nothing when it writes: that is why the hypothesis is
\* needed (VDecisionIsFinal).
THEOREM DecisionsAreFinal == OneOf(Console \cup Timer) => (Spec => DecisionIsFinal)
<1> SUFFICES ASSUME OneOf(Console \cup Timer) PROVE Spec => DecisionIsFinal
  OBVIOUS
<1>1. ASSUME IInv, SerialInv, [Next]_vars
      PROVE  [\A a \in Approvals : approvals[a].status \notin {"absent", "PENDING"}
                => approvals'[a].status = approvals[a].status]_vars
  <2>1. ASSUME NEW p \in Procs, Moves(p) PROVE SettledStay
    BY <1>1, <2>1, MoveKeepsSettled DEF SerialInv, Knows
  <2>2. CASE \E p \in Procs : Moves(p)
    BY <2>1, <2>2 DEF SettledStay
  <2>3. CASE \E r \in Rules : Lapse(r)
    BY <2>3 DEF Lapse
  <2>4. CASE \E a \in Approvals : Age(a)
    BY <1>1, <2>4 DEF Age, IInv, TypeOK, ApprovalRecord
  <2>5. CASE Crash
    BY <2>5 DEF Crash
  <2> QED BY <1>1, <2>2, <2>3, <2>4, <2>5 DEF Next, Moves
<1> QED BY <1>1, SerialHolds, PTL DEF Spec, DecisionIsFinal

\* Where one handler at a time serves engine and analysts, an override to a benign
\* verdict returns with no active rule of its investigation left, whatever sweeps and
\* firewalls do beside it.
THEOREM OverridesReconcile == OneOf(Engine \cup Console) => (Spec => OverrideReconciles)
<1> SUFFICES ASSUME OneOf(Engine \cup Console) PROVE Spec => OverrideReconciles
  OBVIOUS
<1>1. ASSUME IInv, SerialInv
      PROVE  \A p \in Procs :
               /\ At(p, "ovr_alert") /\ frames'[p].pc = "idle"
               /\ frames[p].outcome \in {"FALSE_POSITIVE", "RECON_ONLY"}
               => LinkedTo(frames[p].inv) = {}
  BY <1>1, OverrideReturns
<1> QED BY <1>1, SerialHolds, PTL DEF Spec, OverrideReconciles

\* Where one handler at a time serves engine and analysts, the queue never asks the same
\* question twice: no two requests for the same action and address are open together.
THEOREM RequestsAreNotDoubled == OneOf(Engine \cup Console) => (Spec => []OneOpenRequest)
<1> SUFFICES ASSUME OneOf(Engine \cup Console) PROVE Spec => []OneOpenRequest
  OBVIOUS
<1>1. SerialInv => OneOpenRequest
  BY DEF SerialInv
<1> QED BY <1>1, SerialHolds, PTL

\* Where the process serves one request at a time, no two active rules do the same, and
\* none that is switched off reads ENFORCED: what the console lists agrees with itself.
THEOREM ListsAgree == OneOf(Procs) => (Spec => []RulesAgree)
<1> SUFFICES ASSUME OneOf(Procs) PROVE Spec => []RulesAgree
  OBVIOUS
<1>1. OneOf(Engine \cup Console)
  BY DEF OneOf, Procs
<1>2. SerialInv => RulesAgree
  BY <1>1 DEF SerialInv, RulesAgree
<1> QED BY <1>2, SerialHolds, PTL

\* Under approval mode "manual", where analysts only propose and decide, one handler at a
\* time settles requests and no call fails, every rule of the store does what an approved
\* request asks for, or one that is being approved: engine and model store none of their own.
THEOREM RulesAreApproved == Manual => (Spec => []RuleNeedsApproval)
<1> SUFFICES ASSUME Manual PROVE Spec => []RuleNeedsApproval
  OBVIOUS
<1>1. SerialInv => RuleNeedsApproval
  BY DEF SerialInv
<1> QED BY <1>1, SerialHolds, PTL

-----------------------------------------------------------------------------
(* The promises of Containment.                                             *)

\* Where a handler is about to write what it read of alerts or requests some steps ago.
Late == {"dec_contain", "pull_contain", "set_status", "lapse"}

\* Which steps lead there.
LEMMA LateSteps ==
  ASSUME IInv, NEW p \in Procs, Moves(p), frames'[p].pc \in Late
  PROVE  DecideAlert(p) \/ PullAlert(p) \/ StartStatus(p) \/ StartExpire(p) \/ ExpireOne(p)
<1>0. PICK f \in Frame : f = frames[p] /\ FrameOK(f)
  BY HandlerFrame
<1>1. PICK g : g = frames'[p] /\ g.pc \in Late
  OBVIOUS
<1>2. IInv'
  BY NextIInv DEF Moves, Next
<1>3. g.op \in {"decide", "pull", "status", "lapse"}
  BY <1>1, <1>2 DEF IInv, FrameOK, OpOK, Late
<1>a. ASSUME NEW h, Continue(p, h), h.pc \notin Late PROVE FALSE
  BY <1>1, <1>a DEF Continue, IInv, TypeOK, Late, IdleFrame
<1>b. ASSUME NEW pc, Continue(p, [f EXCEPT !.pc = pc]), pc \notin Late PROVE FALSE
  BY <1>a, <1>b DEF Frame
<1>c. Stays(p) => f.op \in {"decide", "pull", "status", "lapse"}
  BY <1>0, <1>1, <1>3 DEF Stays
<1>4. ~(RunStep(p) \/ LlmStep(p) \/ RunFail(p))
  BY <1>1, <1>3, RunStays DEF StaysRun, RunOps
<1> USE <1>0 DEF At
<1>5. ~RuleStep(p)
  <2> SUFFICES ASSUME RuleStep(p) PROVE FALSE
    OBVIOUS
  <2>0. f.op \in {"decide", "pull", "status", "lapse"}
    BY <1>c, RuleStays
  <2>a. ASSUME NEW r \in Rules, NEW b \in BOOLEAN, Continue(p, WithRule(f, r, b)) PROVE FALSE
    <3>1. PICK h : Continue(p, h) /\ h.pc = AfterExecute(f.op)
      BY <2>a, WithRuleFields
    <3> QED BY <1>a, <2>0, <3>1 DEF AfterExecute, Late
  <2>1. CASE ExecuteRefuse(p)
    BY <1>b, <2>0, <2>1 DEF ExecuteRefuse, AfterRefusal, Late
  <2>2. CASE ExecuteLookup(p)
    BY <1>b, <2>a, <2>2 DEF ExecuteLookup, Clashes, ActiveFor, Late
  <2>3. CASE ExecuteInsert(p)
    BY <2>a, <2>3 DEF ExecuteInsert
  <2>4. f.pc \in {"verify", "check"} => f.op = "decide"
    BY <2>0 DEF FrameOK, OpOK, RunOps
  <2>5. CASE VerifyList(p)
    <3>1. PICK R, snap, pc : /\ pc \in {"approve", "check"}
                             /\ Continue(p, [f EXCEPT !.pc = pc, !.todo = R, !.snap = snap, !.seen = {}])
      BY <2>4, <2>5 DEF VerifyList, AfterVerify
    <3> QED BY <1>a, <3>1 DEF Frame, Late
  <2>6. CASE VerifyCheck(p)
    <3>1. PICK r \in f.todo : \E e :
            Continue(p, [f EXCEPT !.pc = IF f.todo = {r} THEN AfterVerify(f.op) ELSE "check",
                                  !.todo = @ \ {r}, !.snap[r] = NoRule,
                                  !.seen = @ \cup {e.status}])
      BY <2>6 DEF VerifyCheck
    <3>2. PICK e :
            Continue(p, [f EXCEPT !.pc = IF f.todo = {r} THEN AfterVerify(f.op) ELSE "check",
                                  !.todo = @ \ {r}, !.snap[r] = NoRule,
                                  !.seen = @ \cup {e.status}])
      BY <3>1
    <3>3. f.op = "decide"
      BY <2>4, <2>6 DEF VerifyCheck
    <3> QED BY <1>a, <3>2, <3>3 DEF AfterVerify, Frame, Late
  <2>7. CASE SweepRule(p)
    <3>1. PICK r \in f.todo :
            Continue(p, [f EXCEPT !.pc = IF f.todo = {r} THEN AfterSweep(f.op) ELSE "sweep",
                                  !.todo = @ \ {r}, !.snap[r] = NoRule])
      BY <2>7 DEF SweepRule
    <3> QED BY <1>a, <3>1 DEF AfterSweep, Frame, Late
  <2>8. ~(ToggleClash(p) \/ ToggleEnable(p) \/ ToggleDisable(p) \/ RecheckWrite(p))
    BY <2>0 DEF ToggleClash, ToggleEnable, ToggleDisable, RecheckWrite, FrameOK, OpOK
  <2> QED BY <2>1, <2>2, <2>3, <2>5, <2>6, <2>7, <2>8 DEF RuleStep
<1>6. ApprovalStep(p) => DecideAlert(p) \/ ExpireOne(p)
  <2> SUFFICES ASSUME ApprovalStep(p) PROVE DecideAlert(p) \/ ExpireOne(p)
    OBVIOUS
  <2>0. f.op \in {"decide", "pull", "status", "lapse"}
    BY <1>c, ApprovalStays
  <2>1. ~(RequestLookup(p) \/ RequestActive(p) \/ RequestInsert(p))
    BY <2>0 DEF RequestLookup, RequestActive, RequestInsert, FrameOK, OpOK, RunOps
  <2>2. ~(DecideReject(p) \/ DecideFail(p) \/ DecideApprove(p) \/ ReflectWrite(p) \/ ReflectLink(p)
            \/ DecideInv(p) \/ DecideContain(p))
    BY <1>b DEF DecideReject, DecideFail, DecideApprove, ReflectWrite, ReflectLink, DecideInv,
       DecideContain, AfterReflect, Late
  <2>3. ~ReflectRead(p)
    <3> SUFFICES ASSUME ReflectRead(p) PROVE FALSE
      OBVIOUS
    <3>1. CASE Continue(p, [f EXCEPT !.pc = AfterReflect(f)])
      BY <1>b, <3>1 DEF AfterReflect, Late
    <3>2. CASE Continue(p, [f EXCEPT !.pc = "rewrite", !.held = invs[f.inv].waiting])
      BY <1>a, <3>2 DEF Frame, Late
    <3> QED BY <3>1, <3>2 DEF ReflectRead
  <2> QED BY <2>1, <2>2, <2>3 DEF ApprovalStep
<1>7. ~AnalystStep(p)
  <2> SUFFICES ASSUME AnalystStep(p) PROVE FALSE
    OBVIOUS
  <2>1. ~SetStatus(p)
    BY <1>b DEF SetStatus, Late
  <2>2. f.op \in {"decide", "pull", "status", "lapse"}
    BY <1>c, AnalystStays
  <2> QED BY <2>1, <2>2 DEF AnalystStep, OverrideList, Rollback, OverrideWrite, OverrideRule,
          OverrideAlert, FrameOK, OpOK
<1>8. FeedStep(p) => PullAlert(p)
  <2> SUFFICES ASSUME FeedStep(p), ~PullAlert(p) PROVE FALSE
    OBVIOUS
  <2>1. ~PullContain(p)
    BY <1>b DEF PullContain, NextInv, Late
  <2>2. CASE PullList(p)
    <3>1. PICK R, snap, pc : /\ pc \in {"idle", "pull_mark"}
                             /\ Continue(p, [f EXCEPT !.pc = pc, !.todo = R, !.snap = snap])
      BY <2>2 DEF PullList
    <3> QED BY <1>a, <3>1 DEF Frame, Late
  <2>3. CASE PullMark(p)
    <3>1. PICK r \in f.todo :
            LET noted == f.invset \cup ({f.snap[r].inv} \ {None}) IN
            Continue(p, [f EXCEPT !.pc = CASE f.todo # {r} -> "pull_mark"
                                           [] f.todo = {r} /\ noted # {} -> "pull_own"
                                           [] OTHER -> "idle",
                                  !.todo = @ \ {r}, !.snap[r] = NoRule, !.invset = noted])
      BY <2>3 DEF PullMark
    <3> DEFINE noted == f.invset \cup ({f.snap[r].inv} \ {None})
               pc == CASE f.todo # {r} -> "pull_mark"
                       [] f.todo = {r} /\ noted # {} -> "pull_own"
                       [] OTHER -> "idle"
               h == [f EXCEPT !.pc = pc, !.todo = @ \ {r}, !.snap[r] = NoRule, !.invset = noted]
    <3>2. Continue(p, h)
      BY <3>1
    <3>3. pc \in {"pull_mark", "pull_own", "idle"}
      OBVIOUS
    <3>4. h.pc \in {"pull_mark", "pull_own", "idle"}
      BY <3>3 DEF Frame
    <3> HIDE DEF h
    <3> QED BY <1>a, <3>2, <3>4 DEF Late
  <2>4. CASE PullOwn(p)
    <3>1. PICK S, pc : /\ pc \in {"idle", "pull_inv"}
                       /\ Continue(p, [f EXCEPT !.pc = pc, !.invset = S])
      BY <2>4 DEF PullOwn
    <3> QED BY <1>a, <3>1 DEF Frame, Late
  <2>5. CASE PullInv(p)
    <3>1. PICK i \in f.invset :
            LET g2 == [f EXCEPT !.invset = @ \ {i}, !.inv = i, !.alert = invs[i].alert] IN
            Continue(p, [g2 EXCEPT !.pc =
              IF Recorded(i) /\ invs[i].outcome = "ATTACK_SUCCEEDED"
              THEN "pull_alert" ELSE NextInv(g2)])
      BY <2>5 DEF PullInv
    <3> DEFINE g2 == [f EXCEPT !.invset = @ \ {i}, !.inv = i, !.alert = invs[i].alert]
               pc == IF Recorded(i) /\ invs[i].outcome = "ATTACK_SUCCEEDED"
                     THEN "pull_alert" ELSE NextInv(g2)
    <3>2. pc \in {"pull_alert", "idle", "pull_inv"}
      BY DEF NextInv
    <3>3. Continue(p, [g2 EXCEPT !.pc = pc])
      BY <3>1
    <3>4. [g2 EXCEPT !.pc = pc].pc = pc
      BY DEF Frame
    <3> HIDE DEF g2, pc
    <3> QED BY <1>a, <3>2, <3>3, <3>4 DEF Late
  <2> QED BY <2>1, <2>2, <2>3, <2>4, <2>5 DEF FeedStep
<1>9. Start(p) => StartStatus(p) \/ StartExpire(p)
  <2> SUFFICES ASSUME Start(p), ~StartStatus(p), ~StartExpire(p) PROVE FALSE
    OBVIOUS
  <2>0. IdleFrame \in Frame
    BY IdleFrameOK
  <2>1. CASE StartDecide(p)
    <3>1. PICK a \in Approvals, way \in {"approve", "reject"} :
            Continue(p, [IdleFrame EXCEPT !.op = "decide", !.apr = a, !.inv = approvals[a].inv,
                           !.alert = approvals[a].alert, !.action = approvals[a].action,
                           !.ip = approvals[a].ip, !.yes = (way = "approve"),
                           !.pc = IF way = "approve" THEN "exec" ELSE "reject"])
      BY <2>1 DEF StartDecide
    <3> QED BY <1>a, <2>0, <3>1 DEF Frame, Late
  <2>2. CASE \E action \in Actions : StartPull(p, action)
    <3>1. PICK action, R :
            Continue(p, Sweeping([IdleFrame EXCEPT !.op = "pull", !.action = action], R, "pull_list"))
      BY <2>2 DEF StartPull
    <3>2. Sweeping([IdleFrame EXCEPT !.op = "pull", !.action = action], R, "pull_list").pc \notin Late
      BY <2>0 DEF Sweeping, Frame, Late
    <3> QED BY <1>a, <3>1, <3>2
  <2>3. CASE StartSweep(p)
    <3>1. Sweeping([IdleFrame EXCEPT !.op = "sweep"], Due, "idle").pc \notin Late
      BY <2>0 DEF Sweeping, Frame, Late
    <3> QED BY <1>a, <2>3, <3>1 DEF StartSweep
  <2>4. CASE StartAdd(p)
    <3>1. PICK op, action, ip :
            Continue(p, [IdleFrame EXCEPT !.op = op, !.pc = "exec", !.action = action, !.ip = ip])
      BY <2>4 DEF StartAdd
    <3> QED BY <1>a, <2>0, <3>1 DEF Frame, Late
  <2>5. CASE StartProbe(p)
    BY <1>a, <2>0, <2>5 DEF StartProbe, Frame, Late
  <2>6. CASE StartToggle(p)
    <3>1. PICK r \in Rules :
            Continue(p, [IdleFrame EXCEPT !.op = "toggle", !.rule = r, !.snap = Snapshot({r}),
                                          !.pc = IF Active(r) THEN "disable" ELSE "clash"])
      BY <2>6 DEF StartToggle
    <3>2. [IdleFrame EXCEPT !.op = "toggle", !.rule = r, !.snap = Snapshot({r}),
                            !.pc = IF Active(r) THEN "disable" ELSE "clash"].pc \in {"disable", "clash"}
      BY <2>0 DEF Frame
    <3> QED BY <1>a, <3>1, <3>2 DEF Late
  <2>7. CASE StartRecheck(p)
    <3>1. PICK r, snap :
            Continue(p, [IdleFrame EXCEPT !.op = "recheck", !.pc = "recheck", !.rule = r, !.snap = snap])
      BY <2>7 DEF StartRecheck
    <3> QED BY <1>a, <2>0, <3>1 DEF Frame, Late
  <2>8. CASE StartPropose(p)
    <3>1. PICK action, ip, al :
            Continue(p, [IdleFrame EXCEPT !.op = "propose", !.pc = "request",
                                          !.action = action, !.ip = ip, !.alert = al])
      BY <2>8 DEF StartPropose
    <3> QED BY <1>a, <2>0, <3>1 DEF Frame, Late
  <2>9. CASE StartRun(p)
    <3>1. PICK al, i :
            Continue(p, [IdleFrame EXCEPT !.op = "run", !.pc = "mark", !.alert = al, !.inv = i])
      BY <2>9 DEF StartRun
    <3> QED BY <1>a, <2>0, <3>1 DEF Frame, Late
  <2>10. CASE StartOverride(p)
    <3>1. PICK i, al, o :
            Continue(p, [IdleFrame EXCEPT !.op = "override", !.pc = "ovr_list", !.inv = i,
                                          !.alert = al, !.outcome = o])
      BY <2>10 DEF StartOverride
    <3> QED BY <1>a, <2>0, <3>1 DEF Frame, Late
  <2> QED BY <2>1, <2>2, <2>3, <2>4, <2>5, <2>6, <2>7, <2>8, <2>9, <2>10
          DEF Start, RuleStart, ApprovalStart, AnalystStart
<1>10. ~HandlerFail(p)
  <2> SUFFICES ASSUME HandlerFail(p) PROVE FALSE
    OBVIOUS
  <2>1. PICK pc \in {"relink", "dec_inv", "idle"} : Continue(p, [f EXCEPT !.pc = pc])
    BY DEF HandlerFail, AfterReflect
  <2> QED BY <1>b, <2>1 DEF Late
<1> QED BY <1>4, <1>5, <1>6, <1>7, <1>8, <1>9, <1>10 DEF Moves, Step

\* What a handler read of alerts and requests is still so when it writes.
LEMMA MoveKeepsStatus ==
  ASSUME IInv, ServesOK, StatusInv, NEW p \in Procs, Moves(p) PROVE StatusInv'
<1>0. PICK f \in Frame : f = frames[p] /\ FrameOK(f) /\ StatusOK(f)
  BY HandlerFrame DEF StatusInv
<1>1. \A q \in Procs \ {p} : frames'[q] = frames[q]
  BY MoveServes
<1>2. \A a \in Approvals : approvals[a].status # "absent" => approvals'[a].status # "absent"
  BY MoveKeepsRequests
<1>3. ASSUME NEW q \in Procs \ {p} PROVE StatusOK(frames[q])'
  <2>1. PICK h \in Frame : h = frames[q] /\ StatusOK(h)
    BY DEF StatusInv, IInv, TypeOK
  <2>2. ~OneOf(Procs)
    BY DEF OneOf
  <2>3. StatusOK(h)'
    BY <1>2, <2>1, <2>2 DEF StatusOK, OneOf, Frame
  <2> QED BY <1>1, <2>1, <2>3
<1>4. StatusOK(frames[p])'
  <2>1. PICK g : g = frames'[p]
    OBVIOUS
  <2>2. g.pc \notin Late => StatusOK(g)'
    BY DEF Late, StatusOK
  <2>a. IdleFrame.pc = "idle" /\ IdleFrame \in Frame
    BY IdleFrameOK DEF IdleFrame
  <2>b. ASSUME NEW h, Continue(p, h), h.pc # "idle" PROVE g = h
    BY <2>1, <2>b DEF Continue, IInv, TypeOK
  <2> USE <1>0 DEF At
  <2>3. CASE g.pc \in Late /\ (DecideAlert(p) \/ PullAlert(p))
    <3>1. UNCHANGED alerts
      BY <2>3 DEF DecideAlert, PullAlert
    <3>2. PICK pc : /\ Continue(p, [f EXCEPT !.pc = pc])
                    /\ pc \in {"dec_contain", "pull_contain"} => alerts[f.alert] = "CONFIRMED"
                    /\ pc \in {"dec_contain", "pull_contain", "pull_inv", "idle"}
      BY <2>3 DEF DecideAlert, PullAlert, NextInv
    <3>3. pc # "idle"
      BY <2>1, <2>3, <2>a, <3>2 DEF Continue, IInv, TypeOK, Frame, Late
    <3>4. g.pc = pc /\ g.alert = f.alert
      BY <2>b, <3>2, <3>3 DEF Frame
    <3>5. StatusOK(g)'
      BY <3>1, <3>2, <3>4 DEF StatusOK
    <3> QED BY <2>1, <3>5
  <2>4. CASE StartStatus(p)
    <3>0. PICK S \in SUBSET Alerts, st \in {"NEW", "CLOSED", "FALSE_POSITIVE"} :
            Continue(p, [IdleFrame EXCEPT !.op = "status", !.pc = "set_status",
                           !.targets = {x \in S : alerts[x] # "INVESTIGATING"}, !.status = st])
      BY <2>4 DEF StartStatus
    <3>1. PICK T : /\ \A x \in T : alerts[x] # "INVESTIGATING"
                   /\ Continue(p, [IdleFrame EXCEPT !.op = "status", !.pc = "set_status",
                                                    !.targets = T, !.status = st])
      BY <3>0
    <3>2. UNCHANGED alerts
      BY <2>4 DEF StartStatus
    <3>3. g.pc = "set_status" /\ g.targets = T /\ g.status = st
      <4> DEFINE h == [IdleFrame EXCEPT !.op = "status", !.pc = "set_status",
                                        !.targets = T, !.status = st]
      <4>1. h.pc = "set_status" /\ h.targets = T /\ h.status = st
        BY <2>a DEF Frame
      <4>2. Continue(p, h)
        BY <3>1
      <4> HIDE DEF h
      <4> QED BY <2>b, <4>1, <4>2
    <3>4. StatusOK(g)'
      BY <3>1, <3>2, <3>3 DEF StatusOK
    <3> QED BY <2>1, <3>4
  <2>5. CASE StartExpire(p)
    <3>1. g.pc = "lapse" /\ g.held = Stale
      BY <2>5, <2>a, <2>b DEF StartExpire, Frame
    <3>2. UNCHANGED approvals
      BY <2>5 DEF StartExpire
    <3>3. \A a \in g.held : approvals'[a].status # "absent"
      BY <3>1, <3>2 DEF Stale
    <3>4. StatusOK(g)'
      BY <3>1, <3>3 DEF StatusOK
    <3> QED BY <2>1, <3>4
  <2>6. CASE g.pc \in Late /\ ExpireOne(p)
    <3>1. PICK a : Continue(p, [f EXCEPT !.pc = IF f.held = {a} THEN "idle" ELSE "lapse",
                                         !.held = @ \ {a}])
      BY <2>6 DEF ExpireOne
    <3>2. f.pc = "lapse"
      BY <2>6 DEF ExpireOne
    <3>3. g.pc = "lapse" /\ g.held \subseteq f.held
      <4> DEFINE h == [f EXCEPT !.pc = IF f.held = {a} THEN "idle" ELSE "lapse", !.held = @ \ {a}]
      <4>1. h.pc \in {"idle", "lapse"} /\ h.held \subseteq f.held
        BY DEF Frame
      <4>2. Continue(p, h)
        BY <3>1
      <4> HIDE DEF h
      <4>3. h.pc # "idle"
        BY <2>1, <2>6, <2>a, <4>2 DEF Continue, IInv, TypeOK, Late
      <4> QED BY <2>b, <4>1, <4>2, <4>3
    <3>4. \A a2 \in g.held : approvals'[a2].status # "absent"
      BY <1>2, <3>2, <3>3 DEF StatusOK, Frame
    <3>5. StatusOK(g)'
      BY <3>3, <3>4 DEF StatusOK
    <3> QED BY <2>1, <3>5
  <2> QED BY <2>1, <2>2, <2>3, <2>4, <2>5, <2>6, LateSteps
<1> QED BY <1>3, <1>4 DEF StatusInv

\* Every step keeps it.
LEMMA NextStatus == IInv /\ ServesOK /\ StatusInv /\ [Next]_vars => StatusInv'
<1> SUFFICES ASSUME IInv, ServesOK, StatusInv, [Next]_vars PROVE StatusInv'
  OBVIOUS
<1>1. CASE \E p \in Procs : Moves(p)
  BY <1>1, MoveKeepsStatus
<1>2. ASSUME UNCHANGED <<frames, alerts>>,
             \A a \in Approvals : approvals'[a].status = approvals[a].status
      PROVE  StatusInv'
  <2> SUFFICES ASSUME NEW q \in Procs PROVE StatusOK(frames[q])'
    BY DEF StatusInv
  <2>1. PICK h \in Frame : h = frames[q] /\ StatusOK(h)
    BY DEF StatusInv, IInv, TypeOK
  <2>2. StatusOK(h)'
    BY <1>2, <2>1 DEF StatusOK, OneOf, Frame
  <2> QED BY <1>2, <2>1, <2>2
<1>3. CASE \E r \in Rules : Lapse(r)
  BY <1>2, <1>3 DEF Lapse
<1>4. CASE \E a \in Approvals : Age(a)
  BY <1>2, <1>4 DEF Age, IInv, TypeOK, ApprovalRecord
<1>5. CASE Crash
  BY <1>5 DEF Crash, StatusInv, StatusOK, IdleFrame
<1>6. CASE UNCHANGED vars
  BY <1>2, <1>6 DEF vars
<1> QED BY <1>1, <1>3, <1>4, <1>5, <1>6 DEF Next, Moves

-----------------------------------------------------------------------------
\* A rule is written as Containment lets it, or not at all as far as it can tell.
LEMMA RulesAsPromised ==
  ASSUME IInv, NEW p \in Procs, Moves(p), WriterOK(frames[p])
  PROVE  Promise!RuleStep \/ UNCHANGED <<RuleStates, RuleActs, confirmed>>
<1>0. PICK f \in Frame : f = frames[p] /\ FrameOK(f) /\ WriterOK(f)
  BY HandlerFrame
<1>1. CASE UNCHANGED <<rules, confirmed>>
  BY <1>1 DEF RuleStates, RuleActs
<1>2. ASSUME NEW r \in Rules, WritesRule(p, r), \A s \in Rules \ {r} : rules'[s] = rules[s]
      PROVE  Promise!RuleStep \/ UNCHANGED <<RuleStates, RuleActs, confirmed>>
  <2>1. PICK st : st = rules'[r].state
    OBVIOUS
  <2>2. RuleStates' = [RuleStates EXCEPT ![r] = st]
    BY <1>2, <2>1 DEF RuleStates
  <2>3. \A s \in Rules \ {r} : RuleActs'[s] = RuleActs[s]
    BY <1>2 DEF RuleActs
  <2>4. Alike(r) => UNCHANGED RuleActs
    BY <1>2 DEF Alike, RuleActs
  <2>5. RuleStates[r] = rules[r].state
    BY DEF RuleStates
  <2>6. st = rules[r].state => UNCHANGED RuleStates
    BY <2>2 DEF RuleStates
  <2>7. ASSUME NEW a, NEW ip, NEW d, d = [action |-> a, ip |-> ip],
               OneOf(Engine \cup Console) => Clashes(a, ip) = {}
        PROVE  OneOf(Engine \cup Console) => Promise!On(d) = {}
    BY <2>7 DEF Promise!On, Clashes, ActiveFor, Active, RuleStates, RuleActs
  <2>8. f.pc = "enable" => f.rule \in Rules
    BY <1>0 DEF FrameOK, OpOK, HeldOK, Frame
  <2>9. RuleActs[r] = [action |-> rules[r].action, ip |-> rules[r].ip]
    BY DEF RuleActs
  <2>10. CASE /\ f.pc = "insert" /\ rules[r].state = "absent"
              /\ rules'[r].action = f.action /\ rules'[r].ip = f.ip
              /\ rules'[r].state = "active" /\ Reported(r)
    <3>1. RuleActs'[r] = [action |-> f.action, ip |-> f.ip]
      BY <2>10 DEF RuleActs
    <3>2. PICK d : d = RuleActs'[r]
      OBVIOUS
    <3>3. d.action = f.action /\ d.ip = f.ip
      BY <3>1, <3>2
    <3>4. ~(d.action = "BLOCK" /\ d.ip \in Internal)
      BY <1>0, <2>10, <3>3 DEF FrameOK, HeldOK, Refused
    <3>5. OneOf(Engine \cup Console) => Promise!On(d) = {}
      BY <1>0, <2>7, <2>10, <3>1, <3>2 DEF WriterOK
    <3>6. Promise!Add(r)
      BY <2>1, <2>2, <2>3, <2>5, <2>10, <3>2, <3>4, <3>5 DEF Promise!Add, Promise!Reports, Reported
    <3> QED BY <3>6 DEF Promise!RuleStep
  <2>11. CASE /\ f.pc = "enable" /\ r = f.rule
              /\ Alike(r) /\ rules'[r].state = "active" /\ Reported(r)
    <3>1. rules[r].state # "absent"
      BY <1>0, <2>8, <2>11, ResponseAssumption DEF FrameOK, HeldOK, Present
    <3>2. OneOf(Engine \cup Console) => Promise!On(RuleActs[r]) = {}
      BY <1>0, <2>7, <2>9, <2>11 DEF WriterOK
    <3>3. Promise!Enable(r)
      BY <2>1, <2>2, <2>4, <2>5, <2>11, <3>1, <3>2 DEF Promise!Enable, Promise!Reports, Reported
    <3> QED BY <3>3 DEF Promise!RuleStep
  <2>12. CASE /\ \/ f.pc = "disable" /\ r = f.rule
                 \/ f.pc \in {"sweep", "unblock", "rollback"} /\ r \in f.todo
              /\ Alike(r) /\ rules'[r].state = "disabled" /\ UNCHANGED confirmed
    <3>1. rules[r].state # "absent"
      BY <1>0, <2>12, ResponseAssumption DEF FrameOK, HeldOK, Present
    <3>2. Promise!Disable(r)
      BY <2>1, <2>2, <2>4, <2>5, <2>12, <3>1 DEF Promise!Disable
    <3> QED BY <3>2 DEF Promise!RuleStep
  <2>13. CASE /\ \/ f.pc \in {"check", "pull_mark"} /\ r \in f.todo
                 \/ f.pc = "recheck" /\ r = f.rule
              /\ Alike(r) /\ rules'[r].state = rules[r].state /\ Reported(r)
    <3>1. rules[r].state # "absent"
      BY <1>0, <2>13, ResponseAssumption DEF FrameOK, HeldOK, Present
    <3>2. Promise!Confirm(r)
      BY <2>1, <2>4, <2>5, <2>6, <2>13, <3>1 DEF Promise!Confirm, Promise!Reports, Reported
    <3> QED BY <3>2 DEF Promise!RuleStep
  <2>14. CASE Alike(r) /\ rules'[r].state = rules[r].state /\ UNCHANGED confirmed
    BY <2>1, <2>4, <2>6, <2>14
  <2> QED BY <1>0, <1>2, <2>10, <2>11, <2>12, <2>13, <2>14 DEF WritesRule
<1> QED BY <1>1, <1>2, RuleWrites DEF OneRule

\* A request is made and settled as Containment lets it.
LEMMA RequestsAsPromised ==
  ASSUME IInv, NEW p \in Procs, Moves(p), Knows(frames[p]), StatusOK(frames[p])
  PROVE  Promise!AskStep \/ UNCHANGED <<RequestStates, RequestActs>>
<1>0. PICK f \in Frame : f = frames[p] /\ FrameOK(f) /\ Knows(f) /\ StatusOK(f)
  BY HandlerFrame
<1>1. CASE UNCHANGED approvals
  BY <1>1 DEF RequestStates, RequestActs
<1>2. ASSUME NEW a \in Approvals, WritesRequest(p, a),
             \A b \in Approvals \ {a} : approvals'[b] = approvals[b]
      PROVE  Promise!AskStep
  <2>1. PICK st : st = approvals'[a].status
    OBVIOUS
  <2>2. RequestStates' = [RequestStates EXCEPT ![a] = st]
    BY <1>2, <2>1 DEF RequestStates
  <2>3. RequestStates[a] = approvals[a].status
    BY DEF RequestStates
  <2>4. CASE /\ f.pc = "propose" /\ approvals[a].status = "absent" /\ st = "PENDING"
             /\ approvals'[a].action = f.action /\ approvals'[a].ip = f.ip
    <3>1. \A b \in Approvals \ {a} : RequestActs'[b] = RequestActs[b]
      BY <1>2 DEF RequestActs
    <3>2. PICK d : d = RequestActs'[a]
      OBVIOUS
    <3>3. d = [action |-> f.action, ip |-> f.ip]
      BY <2>4, <3>2 DEF RequestActs
    <3>4. ASSUME OneOf(Engine \cup Console), NEW b \in Approvals, RequestStates[b] = "PENDING"
          PROVE  RequestActs[b] # d
      BY <1>0, <2>4, <3>3, <3>4 DEF Knows, WriterOK, Open, RequestStates, RequestActs
    <3>5. Promise!Ask(a)
      BY <2>2, <2>3, <2>4, <3>1, <3>2, <3>4 DEF Promise!Ask
    <3> QED BY <3>5 DEF Promise!AskStep
  <2>5. CASE /\ \/ f.pc = "lapse" /\ a \in f.held /\ st = "EXPIRED"
                \/ f.pc = "reject" /\ a = f.apr /\ st = "REJECTED"
                \/ f.pc = "fail" /\ a = f.apr /\ st = "FAILED"
                \/ f.pc = "approve" /\ a = f.apr /\ st = "APPROVED"
             /\ approvals'[a].action = approvals[a].action /\ approvals'[a].ip = approvals[a].ip
    <3>1. UNCHANGED RequestActs
      BY <1>2, <2>5 DEF RequestActs
    <3>2. f.pc \in {"reject", "fail", "approve"} => f.op = "decide" /\ f.pc \in Undecided
      BY <1>0 DEF FrameOK, OpOK, Undecided
    <3>3. approvals[a].status # "absent"
      BY <1>0, <2>5, <3>2 DEF FrameOK, DecideOK, StatusOK
    <3>4. OneOf(Console \cup Timer) => approvals[a].status = "PENDING"
      BY <1>0, <2>5, <3>2 DEF Knows, DeciderOK
    <3>5. ASSUME st = "APPROVED" PROVE \E r \in Rules : RuleStates[r] # "absent" /\ RuleActs[r] = RequestActs[a]
      <4>1. f.pc = "approve" /\ a = f.apr
        BY <2>5, <3>5
      <4>2. f.rule \in Rules /\ rules[f.rule].ip = f.ip /\ rules[f.rule].action = f.action
        BY <1>0, <3>2, <4>1 DEF FrameOK, DecideOK, Frame
      <4>3. Present(f.rule)
        BY <1>0, <4>2, ResponseAssumption DEF FrameOK, HeldOK
      <4>4. approvals[a].action = f.action /\ approvals[a].ip = f.ip
        BY <1>0, <3>2, <4>1 DEF FrameOK, DecideOK
      <4> QED BY <4>2, <4>3, <4>4 DEF RuleStates, RuleActs, RequestActs, Present
    <3>6. st \in {"REJECTED", "FAILED", "EXPIRED"} \cup
            (IF \E r \in Rules : RuleStates[r] # "absent" /\ RuleActs[r] = RequestActs[a]
             THEN {"APPROVED"} ELSE {})
      BY <2>5, <3>5
    <3>7. Promise!Settle(a)
      BY <2>2, <2>3, <3>1, <3>3, <3>4, <3>6 DEF Promise!Settle
    <3> QED BY <3>7 DEF Promise!AskStep
  <2> QED BY <1>0, <1>2, <2>1, <2>4, <2>5 DEF WritesRequest
<1> QED BY <1>1, <1>2, RequestWrites DEF OneRequest

-----------------------------------------------------------------------------
\* A confirmed rule on a party of an alert is a proof.
LEMMA ConfirmedIsProof == ASSUME IInv, NEW al, ConfirmedFor(al) PROVE Promise!Proof(al)
  BY DEF IInv, TypeOK, ConfirmedFor, Parties, Promise!Proof, RuleActs

\* The statuses an outcome stands for are verdicts.
LEMMA OutcomeIsVerdict ==
  ASSUME NEW o \in Outcomes PROVE OUTCOME_STATUS[o] \in Promise!Verdicts
  BY DEF OUTCOME_STATUS, Outcomes, Promise!Verdicts

\* An alert that a handler works on and lets go.
LEMMA LetsGo ==
  ASSUME IInv, RunInv, NEW p \in Procs, NEW f \in Frame, f = frames[p], f.op \in RunOps,
         Continue(p, [f EXCEPT !.pc = "idle"])
  PROVE  f.alert \in Worked /\ Worked' = Worked \ {f.alert}
<1>1. Continue(p, IdleFrame)
  BY ReturnFrame
<1>2. \A q \in Procs : frames'[q] = IF q = p THEN IdleFrame ELSE frames[q]
  BY <1>1 DEF Continue, IInv, TypeOK
<1>3. IdleFrame.op \notin RunOps
  BY DEF IdleFrame, RunOps
<1>4. f.alert \in Alerts
  BY RunHasAlert
<1>5. \A al : Running(al)' <=> Running(al) /\ al # f.alert
  BY <1>2, <1>3 DEF RunInv, OneRun, Running
<1> QED BY <1>4, <1>5 DEF Worked, Running

\* The steps that write alerts, or begin or end a run.
Decides(p) ==
  \/ StartRun(p) \/ MarkInvestigating(p) \/ FinishClose(p) \/ FinishAudit(p) \/ RunFail(p)
  \/ OverrideAlert(p) \/ SetStatus(p) \/ DecideContain(p) \/ PullContain(p)

\* They do to alerts what Containment lets them.
LEMMA AlertsAsPromised ==
  ASSUME IInv, RunInv, StatusInv, NEW p \in Procs, Decides(p)
  PROVE  Promise!AlertStep \/ UNCHANGED <<alerts, Worked, faults>>
<1>0. PICK f \in Frame : f = frames[p] /\ FrameOK(f) /\ StatusOK(f)
  BY HandlerFrame DEF StatusInv
<1> USE <1>0 DEF At
<1>a. f.op \in RunOps => f.alert \in Worked
  BY RunHasAlert DEF Worked, Running
<1>b. Worked \subseteq Alerts
  BY DEF Worked
<1>c. ASSUME NEW al \in Alerts, ConfirmedFor(al), OneOf(Procs) => alerts[al] = "CONFIRMED",
             alerts' = [alerts EXCEPT ![al] = "CONTAINED"], UNCHANGED <<Worked, faults>>
      PROVE  Promise!AlertStep
  <2>1. Promise!Contain(al)
    BY <1>c, ConfirmedIsProof DEF Promise!Contain
  <2> QED BY <2>1 DEF Promise!AlertStep
<1>d. ASSUME NEW al \in Alerts, NEW v, v \in Promise!Verdicts \/ (v = "CONTAINED" /\ ConfirmedFor(al))
      PROVE  v \in Promise!Verdicts \cup (IF Promise!Proof(al) THEN {"CONTAINED"} ELSE {})
  BY <1>d, ConfirmedIsProof
<1>1. CASE StartRun(p)
  <2>1. PICK al \in Alerts, i \in Invs :
          /\ ~Running(al)
          /\ Continue(p, [IdleFrame EXCEPT !.op = "run", !.pc = "mark", !.alert = al, !.inv = i])
    BY <1>1 DEF StartRun
  <2> DEFINE h == [IdleFrame EXCEPT !.op = "run", !.pc = "mark", !.alert = al, !.inv = i]
  <2>2. h.op \in RunOps /\ h.pc = "mark" /\ h.alert = al
    BY IdleFrameOK DEF Frame, RunOps
  <2>3. Continue(p, h)
    BY <2>1
  <2> HIDE DEF h
  <2>4. \A q \in Procs : frames'[q] = IF q = p THEN h ELSE frames[q]
    BY <2>2, <2>3 DEF Continue, IInv, TypeOK
  <2>5. f.op \notin RunOps
    BY <1>1 DEF StartRun, RunInv, IdleRunsNothing, RunOps
  <2>6. \A x : Running(x)' <=> Running(x) \/ x = al
    BY <2>2, <2>4, <2>5 DEF Running
  <2>7. al \notin Worked /\ Worked' = Worked \cup {al}
    BY <2>1, <2>6 DEF Worked
  <2>8. Promise!Begin(al)
    BY <1>1, <2>7 DEF StartRun, Promise!Begin
  <2> QED BY <2>8 DEF Promise!AlertStep
<1>2. CASE MarkInvestigating(p)
  <2>1. f.op \in RunOps
    BY <1>2 DEF MarkInvestigating, FrameOK, OpOK, RunOps
  <2>2. UNCHANGED Worked
    BY <1>2, MarkKeepsRuns DEF RunsGoOn
  <2>3. Promise!Mark(f.alert)
    BY <1>2, <1>a, <2>1, <2>2 DEF MarkInvestigating, Promise!Mark
  <2> QED BY <1>a, <1>b, <2>1, <2>3 DEF Promise!AlertStep
<1>3. CASE FinishClose(p)
  <2>1. f.op \in RunOps /\ f.outcome \in Outcomes /\ f.alert \in Alerts
    BY <1>3 DEF FinishClose, FrameOK, OpOK, RunOK, Frame
  <2>2. RunContained(f) => ConfirmedFor(f.alert)
    BY <1>3, <2>1 DEF FinishClose, RunContained, Contained, FrameOK, HeldOK, RunOK, ConfirmedOn, ConfirmedFor
  <2>3. PICK v : v = IF RunContained(f) THEN "CONTAINED" ELSE OUTCOME_STATUS[f.outcome]
    OBVIOUS
  <2>4. v \in Promise!Verdicts \cup (IF Promise!Proof(f.alert) THEN {"CONTAINED"} ELSE {})
    BY <1>d, <2>1, <2>2, <2>3, OutcomeIsVerdict
  <2>5. alerts' = [alerts EXCEPT ![f.alert] = v] /\ UNCHANGED faults
    BY <1>3, <2>3 DEF FinishClose
  <2>6. Continue(p, [f EXCEPT !.pc = "audit"])
    BY <1>3 DEF FinishClose
  <2>7. UNCHANGED Worked
    BY <2>1, <2>6, SameWork DEF Frame
  <2>8. Promise!Conclude(f.alert)
    BY <1>a, <2>1, <2>4, <2>5, <2>7 DEF Promise!Conclude
  <2> QED BY <2>1, <2>8 DEF Promise!AlertStep
<1>4. CASE FinishAudit(p)
  <2>1. f.op \in RunOps /\ f.alert \in Alerts
    BY <1>4, RunHasAlert DEF FinishAudit
  <2>2. f.alert \in Worked /\ Worked' = Worked \ {f.alert}
    BY <1>4, <2>1, LetsGo DEF FinishAudit
  <2>3. alerts[f.alert] # "INVESTIGATING"
    BY <1>4 DEF FinishAudit, RunInv, AuditedIsClosed
  <2>4. Promise!Finish(f.alert)
    BY <1>4, <2>2, <2>3 DEF FinishAudit, Promise!Finish
  <2> QED BY <2>1, <2>4 DEF Promise!AlertStep
<1>5. CASE RunFail(p)
  <2>1. f.op \in RunOps /\ f.alert \in Alerts
    BY <1>5, RunHasAlert DEF RunFail
  <2>a. ASSUME NEW h, Continue(p, h), h.op \in RunOps, h.alert = f.alert, h.pc # "idle",
               UNCHANGED <<alerts, faults>>
        PROVE  UNCHANGED <<alerts, Worked, faults>>
    BY <2>1, <2>a, SameWork
  <2>2. CASE /\ f.pc \in {"request", "active", "propose"}
             /\ Continue(p, [f EXCEPT !.pc = AfterRequest(f.op)])
             /\ UNCHANGED <<alerts, faults>>
    BY <2>1, <2>2, <2>a DEF AfterRequest, RunOps, Frame
  <2>3. CASE /\ \E r \in f.todo : Continue(p, Linked(f, r))
             /\ UNCHANGED <<alerts, faults>>
    <3>1. PICK r \in f.todo : Continue(p, Linked(f, r))
      BY <2>3
    <3> QED BY <2>1, <2>3, <2>a, <3>1 DEF Linked, Frame
  <2>4. CASE /\ Continue(p, [f EXCEPT !.pc = "decide"])
             /\ UNCHANGED <<alerts, faults>>
    BY <2>1, <2>4, <2>a DEF Frame
  <2>5. CASE /\ Continue(p, [f EXCEPT !.pc = "idle"])
             /\ Reopen(f.alert) /\ UNCHANGED faults
    <3>1. f.alert \in Worked /\ Worked' = Worked \ {f.alert}
      BY <2>1, <2>5, LetsGo
    <3>2. Promise!Reopen(f.alert)
      BY <2>5, <3>1 DEF Reopen, Promise!Reopen
    <3> QED BY <2>1, <3>2 DEF Promise!AlertStep
  <2>6. CASE /\ Continue(p, [f EXCEPT !.pc = "idle"])
             /\ faults' = faults + 1 /\ UNCHANGED alerts
    <3>1. f.alert \in Worked /\ Worked' = Worked \ {f.alert}
      BY <2>1, <2>6, LetsGo
    <3>2. Promise!Lose({f.alert})
      BY <2>6, <3>1 DEF Promise!Lose
    <3> QED BY <2>1, <3>2 DEF Promise!AlertStep
  <2> QED BY <1>5, <2>2, <2>3, <2>4, <2>5, <2>6 DEF RunFail
<1>6. CASE OverrideAlert(p)
  <2>1. f.op = "override" /\ f.outcome \in Outcomes /\ f.alert \in Alerts
    BY <1>6 DEF OverrideAlert, FrameOK, OpOK, OverrideOK, Frame
  <2>2. f.yes => ConfirmedFor(f.alert)
    BY <1>6, <2>1 DEF OverrideAlert, FrameOK, OverrideOK
  <2>3. PICK v : v = IF f.outcome = "ATTACK_SUCCEEDED" /\ f.yes THEN "CONTAINED" ELSE OUTCOME_STATUS[f.outcome]
    OBVIOUS
  <2>4. v \in Promise!Verdicts \cup (IF Promise!Proof(f.alert) THEN {"CONTAINED"} ELSE {})
    BY <1>d, <2>1, <2>2, <2>3, OutcomeIsVerdict
  <2>5. alerts' = [alerts EXCEPT ![f.alert] = v] /\ UNCHANGED faults
    BY <1>6, <2>3 DEF OverrideAlert
  <2>6. UNCHANGED Worked
    BY <1>6, AnalystKeepsRuns DEF AnalystStep, RunsGoOn
  <2>7. Promise!Free(f.alert)
    <3> SUFFICES ASSUME OneOf(Procs), faults = 0, alerts[f.alert] = "INVESTIGATING" PROVE FALSE
      BY DEF Promise!Free
    <3>1. PICK q \in Procs : frames[q].op \in RunOps
      BY <2>1 DEF RunInv, InvestigatingIsRunning, Running
    <3>2. q = p
      BY DEF OneOf
    <3> QED BY <2>1, <3>1, <3>2 DEF RunOps
  <2>8. Promise!Override(f.alert)
    BY <2>4, <2>5, <2>6, <2>7 DEF Promise!Override
  <2> QED BY <2>1, <2>8 DEF Promise!AlertStep
<1>7. CASE SetStatus(p)
  <2>1. f.targets \in SUBSET Alerts
    BY DEF Frame
  <2>2. f.status \in {"NEW", "CLOSED", "FALSE_POSITIVE"}
    BY <1>7 DEF SetStatus, StatusOK
  <2>3. \A al \in f.targets : Promise!Free(al)
    BY <1>7 DEF SetStatus, StatusOK, Promise!Free
  <2>4. UNCHANGED Worked
    BY <1>7, AnalystKeepsRuns DEF AnalystStep, RunsGoOn
  <2>5. alerts' = [al \in Alerts |-> IF al \in f.targets THEN f.status ELSE alerts[al]] /\ UNCHANGED faults
    BY <1>7 DEF SetStatus
  <2>6. Promise!Triage(f.targets)
    BY <2>2, <2>3, <2>4, <2>5 DEF Promise!Triage
  <2> QED BY <2>1, <2>6 DEF Promise!AlertStep
<1>8. CASE DecideContain(p)
  <2>1. f.alert \in Alerts /\ ConfirmedFor(f.alert)
    BY <1>8 DEF DecideContain, FrameOK, OpOK, DecideOK
  <2>2. UNCHANGED Worked
    BY <1>8, ApprovalKeepsRuns DEF ApprovalStep, RunsGoOn
  <2> QED BY <1>8, <1>c, <2>1, <2>2 DEF DecideContain, StatusOK
<1>9. CASE PullContain(p)
  <2>1. f.alert \in Alerts /\ ConfirmedFor(f.alert)
    BY <1>9 DEF PullContain, FrameOK, PullOK
  <2>2. UNCHANGED Worked
    BY <1>9, FeedKeepsRuns DEF FeedStep, RunsGoOn
  <2> QED BY <1>9, <1>c, <2>1, <2>2 DEF PullContain, StatusOK
<1> QED BY <1>1, <1>2, <1>3, <1>4, <1>5, <1>6, <1>7, <1>8, <1>9 DEF Decides

-----------------------------------------------------------------------------
\* One step writes alerts, or rules, or requests.
Apart(p) ==
  \/ Decides(p) /\ UNCHANGED <<rules, approvals, confirmed>>
  \/ UNCHANGED <<alerts, faults, rules, confirmed>>
  \/ UNCHANGED <<alerts, faults, approvals>>

\* Each step of a handler keeps to one of the three.
LEMMA MovesApart == ASSUME NEW p \in Procs, Moves(p) PROVE Apart(p)
<1>1. CASE RuleStep(p)
  BY <1>1 DEF RuleStep, Apart, ExecuteRefuse, ExecuteLookup, ExecuteInsert, VerifyList, VerifyCheck,
     ToggleClash, ToggleEnable, ToggleDisable, RecheckWrite, SweepRule
<1>2. CASE ApprovalStep(p)
  BY <1>2 DEF ApprovalStep, Apart, Decides, RequestLookup, RequestActive, RequestInsert, ExpireOne,
     DecideReject, DecideFail, DecideApprove, ReflectRead, ReflectWrite, ReflectLink, DecideInv,
     DecideAlert, DecideContain
<1>3. CASE RunStep(p)
  BY <1>3 DEF RunStep, Apart, Decides, MarkInvestigating, RunDecide, RunContain, RunVerify, RunVerified,
     Unblock, Finish, FinishLink, FinishClose, FinishAudit
<1>4. CASE LlmStep(p)
  BY <1>4 DEF LlmStep, Apart, LlmContain, LlmVerify, LlmUnblock, LlmVerdict, LlmEnd, LlmFallback
<1>5. CASE AnalystStep(p)
  BY <1>5 DEF AnalystStep, Apart, Decides, OverrideList, Rollback, OverrideWrite, OverrideRule,
     OverrideAlert, SetStatus
<1>6. CASE FeedStep(p)
  BY <1>6 DEF FeedStep, Apart, Decides, PullList, PullMark, PullOwn, PullInv, PullAlert, PullContain
<1>7. CASE RuleStart(p)
  BY <1>7 DEF RuleStart, Apart, StartAdd, StartProbe, StartToggle, StartRecheck, StartSweep
<1>8. CASE ApprovalStart(p)
  BY <1>8 DEF ApprovalStart, Apart, StartPropose, StartExpire, StartDecide
<1>9. CASE StartRun(p)
  BY <1>9 DEF StartRun, Apart, Decides
<1>10. CASE AnalystStart(p)
  BY <1>10 DEF AnalystStart, Apart, StartOverride, StartStatus
<1>11. CASE \E action \in Actions : StartPull(p, action)
  BY <1>11 DEF StartPull, Apart
<1>12. CASE RunFail(p)
  BY <1>12 DEF RunFail, Apart, Decides
<1>13. CASE HandlerFail(p)
  BY <1>13 DEF HandlerFail, Apart
<1> QED BY <1>1, <1>2, <1>3, <1>4, <1>5, <1>6, <1>7, <1>8, <1>9, <1>10, <1>11, <1>12, <1>13
        DEF Moves, Step, Start

\* The runs go on at any other step.
LEMMA WorkGoesOn ==
  ASSUME IInv, RunInv, NEW p \in Procs, Moves(p), ~Decides(p) PROVE UNCHANGED Worked
<1>1. RunsGoOn
  BY RuleKeepsRuns, ApprovalKeepsRuns, RunKeepsRuns, LlmKeepsRuns, AnalystKeepsRuns, FeedKeepsRuns,
     StartKeepsRuns, HandlerFailKeepsRuns
  DEF Moves, Step, Decides
<1> QED BY <1>1 DEF RunsGoOn

\* Nothing the console shows of alerts, of rules, of requests.
SameAlerts == UNCHANGED <<alerts, Worked, faults>>
SameList == UNCHANGED <<RuleStates, RuleActs, confirmed>>
SameQueue == UNCHANGED <<RequestStates, RequestActs>>

\* A step of Containment, or none.
Promised ==
  \/ (Promise!AlertStep \/ SameAlerts) /\ SameList /\ SameQueue
  \/ (Promise!RuleStep \/ SameList) /\ SameAlerts /\ SameQueue
  \/ (Promise!AskStep \/ SameQueue) /\ SameAlerts /\ SameList

\* Such a step is one of Containment or a stutter.
LEMMA PromisedIsNext == Promised => [Promise!Next]_<<Promise!alertVars, Promise!ruleVars, Promise!askVars>>
  BY ZenonT(30) DEF Promised, SameAlerts, SameList, SameQueue, Promise!Next,
     Promise!alertVars, Promise!ruleVars, Promise!askVars

\* Where the store is not written, the console shows the same.
LEMMA StoreUnread ==
  /\ UNCHANGED <<rules, confirmed>> => SameList
  /\ UNCHANGED approvals => SameQueue
  BY DEF SameList, SameQueue, RuleStates, RuleActs, RequestStates, RequestActs

\* A step of a handler.
LEMMA MoveIsPromised ==
  ASSUME IInv, RunInv, SerialInv, StatusInv, NEW p \in Procs, Moves(p) PROVE Promised
<1>1. WriterOK(frames[p]) /\ Knows(frames[p]) /\ StatusOK(frames[p])
  BY DEF SerialInv, Knows, StatusInv
<1>2. CASE Decides(p) /\ UNCHANGED <<rules, approvals, confirmed>>
  BY <1>2, StoreUnread, AlertsAsPromised DEF Promised, SameAlerts
<1>3. CASE ~Decides(p) /\ UNCHANGED <<alerts, faults, rules, confirmed>>
  BY <1>1, <1>3, StoreUnread, WorkGoesOn, RequestsAsPromised DEF Promised, SameAlerts, SameQueue
<1>4. CASE ~Decides(p) /\ UNCHANGED <<alerts, faults, approvals>>
  BY <1>1, <1>4, StoreUnread, WorkGoesOn, RulesAsPromised DEF Promised, SameAlerts, SameList
<1>5. Decides(p) => UNCHANGED <<rules, approvals, confirmed>>
  BY DEF Decides, StartRun, MarkInvestigating, FinishClose, FinishAudit, RunFail, OverrideAlert,
     SetStatus, DecideContain, PullContain
<1> QED BY <1>2, <1>3, <1>4, <1>5, MovesApart DEF Apart

\* Every step.
LEMMA NextIsPromised == IInv /\ RunInv /\ SerialInv /\ StatusInv /\ [Next]_vars => Promised
<1> SUFFICES ASSUME IInv, RunInv, SerialInv, StatusInv, [Next]_vars PROVE Promised
  OBVIOUS
<1>1. CASE \E p \in Procs : Moves(p)
  BY <1>1, MoveIsPromised
<1>2. ASSUME UNCHANGED <<frames, alerts, faults, confirmed>>,
             \A r \in Rules : /\ rules'[r].state = rules[r].state
                              /\ rules'[r].action = rules[r].action /\ rules'[r].ip = rules[r].ip,
             \A a \in Approvals : /\ approvals'[a].status = approvals[a].status
                                  /\ approvals'[a].action = approvals[a].action
                                  /\ approvals'[a].ip = approvals[a].ip
      PROVE  Promised
  <2>1. SameAlerts
    BY <1>2 DEF SameAlerts, Worked, Running
  <2>2. SameList
    BY <1>2 DEF SameList, RuleStates, RuleActs
  <2>3. SameQueue
    BY <1>2 DEF SameQueue, RequestStates, RequestActs
  <2> QED BY <2>1, <2>2, <2>3 DEF Promised
<1>3. CASE \E r \in Rules : Lapse(r)
  BY <1>2, <1>3 DEF Lapse, IInv, TypeOK, RuleRecord
<1>4. CASE \E a \in Approvals : Age(a)
  BY <1>2, <1>4 DEF Age, IInv, TypeOK, ApprovalRecord
<1>5. CASE Crash
  <2>1. SameList /\ SameQueue
    BY <1>5, StoreUnread DEF Crash
  <2>2. Worked' = {}
    BY <1>5 DEF Crash, Worked, Running, IdleFrame, RunOps
  <2>3. Promise!Lose(Worked)
    BY <1>5, <2>2 DEF Crash, Promise!Lose
  <2>4. Worked \subseteq Alerts
    BY DEF Worked
  <2>5. Promise!AlertStep
    BY <2>3, <2>4 DEF Promise!AlertStep
  <2> QED BY <2>1, <2>5 DEF Promised
<1>6. CASE UNCHANGED vars
  BY <1>2, <1>6 DEF vars
<1> QED BY <1>1, <1>3, <1>4, <1>5, <1>6 DEF Next, Moves

\* In the beginning there is nothing to promise about.
LEMMA InitIsPromised == Init => StatusInv /\ Promise!Init
<1> SUFFICES ASSUME Init PROVE StatusInv /\ Promise!Init
  OBVIOUS
<1>1. \A p \in Procs : frames[p] = IdleFrame
  BY DEF Init
<1>2. StatusInv
  BY <1>1 DEF StatusInv, StatusOK, IdleFrame
<1>3. Worked = {}
  BY <1>1 DEF Worked, Running, IdleFrame, RunOps
<1>4. /\ RuleStates = [r \in Rules |-> "absent"]
      /\ RequestStates = [a \in Approvals |-> "absent"]
  BY DEF Init, NoRule, NoApproval, RuleStates, RequestStates
<1> QED BY <1>2, <1>3, <1>4 DEF Init, Promise!Init

\* The containment part keeps the promises of Containment, for any number of handlers of
\* engine, console, firewalls and timer, whichever calls fail and whenever the process
\* restarts: the store's alerts, rules and requests change one at a time and as listed
\* there.  A verdict comes only from the run that took the alert, from an analyst or from a
\* confirmation, CONTAINED always rests on a rule the backend reported in force, and no
\* request reads APPROVED without its rule.
THEOREM ResponseKeepsPromises == Spec => KeepsPromises
<1>1. Init => IInv /\ RunInv /\ SerialInv /\ StatusInv /\ Promise!Init
  BY InitIInv, InitRunInv, InitSerial, InitIsPromised
<1>2. IInv /\ RunInv /\ SerialInv /\ StatusInv /\ [Next]_vars
        => IInv' /\ RunInv' /\ SerialInv' /\ StatusInv'
  BY NextIInv, NextRunInv, NextSerial, NextStatus DEF SerialInv
<1>3. IInv /\ RunInv /\ SerialInv /\ StatusInv /\ [Next]_vars
        => [Promise!Next]_<<Promise!alertVars, Promise!ruleVars, Promise!askVars>>
  BY NextIsPromised, PromisedIsNext
<1> QED BY <1>1, <1>2, <1>3, PTL DEF Spec, KeepsPromises, Promise!Spec

=============================================================================
