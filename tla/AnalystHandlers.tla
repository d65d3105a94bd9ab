-------------------------- MODULE AnalystHandlers ----------------------------
(***************************************************************************)
(* What analysts do to a finished investigation and to alerts: override()   *)
(* of src/src/engine/investigator.js and the two endpoints that set an      *)
(* alert's status (one alert in src/src/routes.js, many in                  *)
(* src/src/casework.js).                                                    *)
(***************************************************************************)
EXTENDS InvestigationHandlers

\* override() loads the investigation ...
StartOverride(p) ==
  /\ Idle(p) /\ p \in Console /\ "override" \in ConsoleOps
  /\ \E i \in Invs, o \in Outcomes :
       /\ Recorded(i)
       /\ Continue(p, [IdleFrame EXCEPT !.op = "override", !.pc = "ovr_list", !.inv = i,
                         !.alert = invs[i].alert, !.outcome = o])
  /\ UNCHANGED <<rules, approvals, invs, alerts, faults, confirmed>>

LinkedTo(i) == {r \in Rules : Active(r) /\ rules[r].inv = i}

\* ... and its active rules, and decides how containment must change: roll the
\* rules back, block an attacker no rule covers, or leave everything.
OverrideList(p) ==
  LET f == frames[p]
      R == LinkedTo(f.inv)
      attacker == Attacker[f.alert]
      benign == f.outcome \in {"FALSE_POSITIVE", "RECON_ONLY"}
      block == f.outcome = "ATTACK_SUCCEEDED" /\ attacker \notin Internal
                 /\ \A r \in R : rules[r].ip # attacker IN
  /\ At(p, "ovr_list")
  /\ Continue(p,
       CASE benign /\ R # {} -> [f EXCEPT !.pc = "rollback", !.todo = R, !.snap = Snapshot(R)]
         [] block -> [f EXCEPT !.pc = "exec", !.action = "BLOCK", !.ip = attacker]
         [] OTHER -> [f EXCEPT !.pc = "ovr_write"])
  /\ UNCHANGED <<rules, approvals, invs, alerts, faults, confirmed>>

\* Seeded fault: the rule is removed at the backend but stays active.
Rollback_KeepsActive(p) ==
  LET f == frames[p] IN
  /\ At(p, "rollback")
  /\ \E r \in f.todo : \E e \in RemoveAnswers(f.snap[r].enf) :
       /\ rules' = [rules EXCEPT ![r].enf = e]
       /\ Continue(p, [f EXCEPT !.pc = IF f.todo = {r} THEN "ovr_write" ELSE "rollback",
                                !.todo = @ \ {r}, !.snap[r] = NoRule])
  /\ UNCHANGED <<approvals, invs, alerts, faults, confirmed>>

Rollback(p) ==
  LET f == frames[p] IN
  /\ At(p, "rollback")
  /\ \E r \in f.todo : \E e \in RemoveAnswers(f.snap[r].enf) :
       /\ rules' = [rules EXCEPT ![r].state = "disabled", ![r].enf = e]
       /\ Continue(p, [f EXCEPT !.pc = IF f.todo = {r} THEN "ovr_write" ELSE "rollback",
                                !.todo = @ \ {r}, !.snap[r] = NoRule])
  /\ UNCHANGED <<approvals, invs, alerts, faults, confirmed>>

OverrideWrite(p) ==
  LET f == frames[p] IN
  /\ At(p, "ovr_write")
  /\ invs' = [invs EXCEPT ![f.inv].outcome = f.outcome]
  /\ Continue(p, [f EXCEPT !.pc = "ovr_rule"])
  /\ UNCHANGED <<rules, approvals, alerts, faults, confirmed>>

\* hasRule: a linked rule is in force right now.
OverrideRule(p) ==
  LET f == frames[p] IN
  /\ At(p, "ovr_rule")
  /\ Continue(p, [f EXCEPT !.pc = "ovr_alert",
                           !.yes = \E r \in LinkedTo(f.inv) : rules[r].enf.status = "ENFORCED"])
  /\ UNCHANGED <<rules, approvals, invs, alerts, faults, confirmed>>

OverrideAlert(p) ==
  LET f == frames[p] IN
  /\ At(p, "ovr_alert")
  /\ alerts' = [alerts EXCEPT ![f.alert] =
       IF f.outcome = "ATTACK_SUCCEEDED" /\ f.yes THEN "CONTAINED" ELSE OUTCOME_STATUS[f.outcome]]
  /\ Continue(p, [f EXCEPT !.pc = "idle"])
  /\ UNCHANGED <<rules, approvals, invs, faults, confirmed>>

-----------------------------------------------------------------------------
\* The endpoints read the alerts and refuse or skip those under investigation ...
StartStatus(p) ==
  /\ Idle(p) /\ p \in Console /\ "status" \in ConsoleOps
  /\ \E al \in SUBSET Alerts, st \in {"NEW", "CLOSED", "FALSE_POSITIVE"} :
       LET targets == {x \in al : alerts[x] # "INVESTIGATING"} IN
       /\ targets # {}
       /\ Continue(p, [IdleFrame EXCEPT !.op = "status", !.pc = "set_status",
                         !.targets = targets, !.status = st])
  /\ UNCHANGED <<rules, approvals, invs, alerts, faults, confirmed>>

\* ... and later write the status of the others, whatever it is by then.
SetStatus(p) ==
  LET f == frames[p] IN
  /\ At(p, "set_status")
  /\ alerts' = [al \in Alerts |-> IF al \in f.targets THEN f.status ELSE alerts[al]]
  /\ Continue(p, [f EXCEPT !.pc = "idle"])
  /\ UNCHANGED <<rules, approvals, invs, faults, confirmed>>

AnalystStep(p) ==
  \/ OverrideList(p) \/ Rollback(p) \/ OverrideWrite(p) \/ OverrideRule(p) \/ OverrideAlert(p)
  \/ SetStatus(p)

AnalystStart(p) == StartOverride(p) \/ StartStatus(p)

=============================================================================
