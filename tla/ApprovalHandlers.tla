-------------------------- MODULE ApprovalHandlers ---------------------------
(***************************************************************************)
(* The approval queue of src/src/engine/approvals.js: request(), expire(),  *)
(* decide() and reflect().  request() is called by the engine (contain())   *)
(* and by analysts (proposeAction of src/src/cases.js); decide() executes    *)
(* the rule through the tools of RuleHandlers.                              *)
(***************************************************************************)
EXTENDS RuleHandlers

AfterRequest(op) ==
  CASE op = "run" -> "contain"
    [] op = "llm" -> "llm"
    [] OTHER      -> "idle"

Holding(f, a) == [f EXCEPT !.pc = AfterRequest(f.op), !.held = @ \cup {a}]

\* Seeded fault: requests already approved are searched instead of open ones.
Open_Approved(action, ip) ==
  {a \in Approvals : approvals[a].status = "APPROVED" /\ approvals[a].action = action
                                                      /\ approvals[a].ip = ip}

Open(action, ip) ==
  {a \in Approvals : approvals[a].status = "PENDING" /\ approvals[a].action = action
                                                     /\ approvals[a].ip = ip}

\* request(): a proposal joins the open request for the same action and address ...
RequestLookup(p) ==
  LET f == frames[p] IN
  /\ At(p, "request")
  /\ \/ \E a \in Open(f.action, f.ip) : Continue(p, Holding(f, a))
     \/ /\ Open(f.action, f.ip) = {}
        /\ Continue(p, [f EXCEPT !.pc = "active"])
  /\ UNCHANGED <<rules, approvals, invs, alerts, faults, confirmed>>

\* ... is dropped when an active rule already does it ...
RequestActive(p) ==
  LET f == frames[p] IN
  /\ At(p, "active")
  /\ Continue(p, [f EXCEPT !.pc = IF Clashes(f.action, f.ip) # {}
                                  THEN AfterRequest(f.op) ELSE "propose"])
  /\ UNCHANGED <<rules, approvals, invs, alerts, faults, confirmed>>

\* ... and is stored as PENDING otherwise.
RequestInsert(p) ==
  LET f == frames[p] IN
  /\ At(p, "propose")
  /\ \E a \in Approvals :
       /\ approvals[a].status = "absent"
       /\ approvals' = [approvals EXCEPT ![a] =
            [NoApproval EXCEPT !.status = "PENDING", !.action = f.action, !.ip = f.ip,
                               !.alert = f.alert, !.inv = f.inv]]
       /\ Continue(p, Holding(f, a))
  /\ UNCHANGED <<rules, invs, alerts, faults, confirmed>>

\* An analyst's proposal names no investigation, and an alert or none.
StartPropose(p) ==
  /\ Idle(p) /\ p \in Console /\ "propose" \in ConsoleOps
  /\ \E action \in Actions, ip \in IPs, al \in Alerts \cup {None} :
       /\ ~(action = "BLOCK" /\ ip \in Internal)
       /\ Continue(p, [IdleFrame EXCEPT !.op = "propose", !.pc = "request",
                         !.action = action, !.ip = ip, !.alert = al])
  /\ UNCHANGED <<rules, approvals, invs, alerts, faults, confirmed>>

-----------------------------------------------------------------------------
\* created_at falls behind the cutoff.
Age(a) ==
  /\ approvals[a].status = "PENDING" /\ ~approvals[a].old
  /\ approvals' = [approvals EXCEPT ![a].old = TRUE]
  /\ UNCHANGED <<rules, invs, alerts, frames, faults, confirmed>>

\* Seeded fault: requests already decided lapse too.
Stale_AnyStatus == {a \in Approvals : approvals[a].old}

Stale == {a \in Approvals : approvals[a].status = "PENDING" /\ approvals[a].old}

\* expire(), from the hourly job and from every listing of the queue.
StartExpire(p) ==
  /\ Idle(p) /\ p \in Timer
  /\ Stale # {}
  /\ Continue(p, [IdleFrame EXCEPT !.op = "lapse", !.pc = "lapse", !.held = Stale])
  /\ UNCHANGED <<rules, approvals, invs, alerts, faults, confirmed>>

ExpireOne(p) ==
  LET f == frames[p] IN
  /\ At(p, "lapse")
  /\ \E a \in f.held :
       /\ approvals' = [approvals EXCEPT ![a].status = "EXPIRED"]
       /\ Continue(p, [f EXCEPT !.pc = IF f.held = {a} THEN "idle" ELSE "lapse",
                                !.held = @ \ {a}])
  /\ UNCHANGED <<rules, invs, alerts, faults, confirmed>>

-----------------------------------------------------------------------------
\* decide() reads the request once; a decided one is refused with 409.
StartDecide(p) ==
  /\ Idle(p) /\ p \in Console
  /\ \E a \in Approvals, way \in {"approve", "reject"} \cap ConsoleOps :
       /\ approvals[a].status = "PENDING"
       /\ Continue(p, [IdleFrame EXCEPT !.op = "decide", !.apr = a, !.inv = approvals[a].inv,
                         !.alert = approvals[a].alert, !.action = approvals[a].action,
                         !.ip = approvals[a].ip, !.yes = (way = "approve"),
                         !.pc = IF way = "approve" THEN "exec" ELSE "reject"])
  /\ UNCHANGED <<rules, approvals, invs, alerts, faults, confirmed>>

DecideReject(p) ==
  LET f == frames[p] IN
  /\ At(p, "reject")
  /\ approvals' = [approvals EXCEPT ![f.apr].status = "REJECTED"]
  /\ Continue(p, [f EXCEPT !.pc = "reflect"])
  /\ UNCHANGED <<rules, invs, alerts, faults, confirmed>>

DecideFail(p) ==
  LET f == frames[p] IN
  /\ At(p, "fail")
  /\ approvals' = [approvals EXCEPT ![f.apr].status = "FAILED"]
  /\ Continue(p, [f EXCEPT !.pc = "idle"])
  /\ UNCHANGED <<rules, invs, alerts, faults, confirmed>>

DecideApprove(p) ==
  LET f == frames[p] IN
  /\ At(p, "approve")
  /\ approvals' = [approvals EXCEPT ![f.apr].status = "APPROVED", ![f.apr].rule = f.rule]
  /\ Continue(p, [f EXCEPT !.pc = "reflect"])
  /\ UNCHANGED <<rules, invs, alerts, faults, confirmed>>

\* Seeded fault: the read-back is not looked at.
AfterReflect_Unchecked(f) == IF f.yes /\ f.alert # None THEN "dec_inv" ELSE "idle"

\* What is left of decide() after reflect(): only an approval that is contained
\* and belongs to an alert goes on to the alert.
AfterReflect(f) ==
  IF f.yes /\ f.alert # None /\ Contained(f) THEN "dec_inv" ELSE "idle"

\* reflect(): without a stored investigation there is nothing to rewrite.
ReflectRead(p) ==
  LET f == frames[p] IN
  /\ At(p, "reflect")
  /\ Continue(p, IF Recorded(f.inv)
                 THEN [f EXCEPT !.pc = "rewrite", !.held = invs[f.inv].waiting]
                 ELSE [f EXCEPT !.pc = AfterReflect(f)])
  /\ UNCHANGED <<rules, approvals, invs, alerts, faults, confirmed>>

\* actions_taken is written whole, from the copy that was read.
ReflectWrite(p) ==
  LET f == frames[p] IN
  /\ At(p, "rewrite")
  /\ invs' = [invs EXCEPT ![f.inv].waiting = f.held \ {f.apr}]
  /\ Continue(p, [f EXCEPT !.pc = IF f.yes THEN "relink" ELSE "idle"])
  /\ UNCHANGED <<rules, approvals, alerts, faults, confirmed>>

ReflectLink(p) ==
  LET f == frames[p] IN
  /\ At(p, "relink")
  /\ rules' = [rules EXCEPT ![f.rule].inv = f.inv]
  /\ Continue(p, [f EXCEPT !.pc = AfterReflect(f)])
  /\ UNCHANGED <<approvals, invs, alerts, faults, confirmed>>

\* A confirmed compromise whose block is now enforced is contained.
DecideInv(p) ==
  LET f == frames[p] IN
  /\ At(p, "dec_inv")
  /\ Continue(p, [f EXCEPT !.pc =
       IF Recorded(f.inv) /\ invs[f.inv].outcome = "ATTACK_SUCCEEDED"
       THEN "dec_alert" ELSE "idle"])
  /\ UNCHANGED <<rules, approvals, invs, alerts, faults, confirmed>>

DecideAlert(p) ==
  LET f == frames[p] IN
  /\ At(p, "dec_alert")
  /\ Continue(p, [f EXCEPT !.pc =
       IF alerts[f.alert] = "CONFIRMED" THEN "dec_contain" ELSE "idle"])
  /\ UNCHANGED <<rules, approvals, invs, alerts, faults, confirmed>>

DecideContain(p) ==
  LET f == frames[p] IN
  /\ At(p, "dec_contain")
  /\ alerts' = [alerts EXCEPT ![f.alert] = "CONTAINED"]
  /\ Continue(p, [f EXCEPT !.pc = "idle"])
  /\ UNCHANGED <<rules, approvals, invs, faults, confirmed>>

ApprovalStep(p) ==
  \/ RequestLookup(p) \/ RequestActive(p) \/ RequestInsert(p) \/ ExpireOne(p)
  \/ DecideReject(p) \/ DecideFail(p) \/ DecideApprove(p)
  \/ ReflectRead(p) \/ ReflectWrite(p) \/ ReflectLink(p)
  \/ DecideInv(p) \/ DecideAlert(p) \/ DecideContain(p)

ApprovalStart(p) == StartPropose(p) \/ StartExpire(p) \/ StartDecide(p)

=============================================================================
