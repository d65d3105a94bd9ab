---------------------------- MODULE FirewallFeed -----------------------------
(***************************************************************************)
(* The pull feeds of src/src/routes.js: a firewall fetches the addresses of *)
(* one action, the rules it was given for the first time count as enforced, *)
(* and the alerts whose rules are now all in force are contained.           *)
(***************************************************************************)
EXTENDS AnalystHandlers

\* A pull starts with the expiry sweep, which a listing that fails skips.
StartPull(p, action) ==
  /\ Idle(p) /\ p \in Firewall
  /\ \E R \in {Due} \cup (IF Failing THEN {{}} ELSE {}) :
       Continue(p, Sweeping([IdleFrame EXCEPT !.op = "pull", !.action = action], R, "pull_list"))
  /\ UNCHANGED <<rules, approvals, invs, alerts, faults, confirmed>>

\* Seeded fault: both feeds drop internal addresses.
Served_NoInternal(action) ==
  {r \in Rules : /\ Active(r) /\ rules[r].action = action /\ rules[r].ttl # "lapsed"
                 /\ rules[r].ip \notin Internal}

Served(action) ==
  {r \in Rules : /\ Active(r) /\ rules[r].action = action /\ rules[r].ttl # "lapsed"
                 /\ action = "BLOCK" => rules[r].ip \notin Internal}

\* The published rules no firewall has pulled before.
PullList(p) ==
  LET f == frames[p]
      pending == {r \in Served(f.action) : Mode = "feed" /\ rules[r].enf.status = "PENDING"} IN
  /\ At(p, "pull_list")
  /\ Continue(p, [f EXCEPT !.pc = IF pending = {} THEN "idle" ELSE "pull_mark",
                           !.todo = pending, !.snap = Snapshot(pending)])
  /\ UNCHANGED <<rules, approvals, invs, alerts, faults, confirmed>>

\* Each is marked, and the investigation its listed copy belongs to noted.
PullMark(p) ==
  LET f == frames[p] IN
  /\ At(p, "pull_mark")
  /\ \E r \in f.todo :
       LET noted == f.invset \cup ({f.snap[r].inv} \ {None}) IN
       /\ rules' = [rules EXCEPT ![r].enf = Answer("ENFORCED", FALSE)]
       /\ Confirm(r, Answer("ENFORCED", FALSE))
       /\ Continue(p, [f EXCEPT !.pc = CASE f.todo # {r} -> "pull_mark"
                                         [] f.todo = {r} /\ noted # {} -> "pull_own"
                                         [] OTHER -> "idle",
                                !.todo = @ \ {r}, !.snap[r] = NoRule, !.invset = noted])
  /\ UNCHANGED <<approvals, invs, alerts, faults>>

Enforced(i) == LinkedTo(i) # {} /\ \A r \in LinkedTo(i) : rules[r].enf.status = "ENFORCED"

\* The investigations all of whose active rules are in force, by the list read now.
PullOwn(p) ==
  LET f == frames[p]
      ready == {i \in f.invset : Enforced(i)} IN
  /\ At(p, "pull_own")
  /\ Continue(p, [f EXCEPT !.pc = IF ready = {} THEN "idle" ELSE "pull_inv", !.invset = ready])
  /\ UNCHANGED <<rules, approvals, invs, alerts, faults, confirmed>>

\* Where a pull goes on after it is done with investigation f.inv.
NextInv(f) == IF f.invset = {} THEN "idle" ELSE "pull_inv"

PullInv(p) ==
  LET f == frames[p] IN
  /\ At(p, "pull_inv")
  /\ \E i \in f.invset :
       LET g == [f EXCEPT !.invset = @ \ {i}, !.inv = i, !.alert = invs[i].alert] IN
       Continue(p, [g EXCEPT !.pc =
         IF Recorded(i) /\ invs[i].outcome = "ATTACK_SUCCEEDED" THEN "pull_alert" ELSE NextInv(g)])
  /\ UNCHANGED <<rules, approvals, invs, alerts, faults, confirmed>>

PullAlert(p) ==
  LET f == frames[p] IN
  /\ At(p, "pull_alert")
  /\ Continue(p, [f EXCEPT !.pc =
       IF alerts[f.alert] = "CONFIRMED" THEN "pull_contain" ELSE NextInv(f)])
  /\ UNCHANGED <<rules, approvals, invs, alerts, faults, confirmed>>

PullContain(p) ==
  LET f == frames[p] IN
  /\ At(p, "pull_contain")
  /\ alerts' = [alerts EXCEPT ![f.alert] = "CONTAINED"]
  /\ Continue(p, [f EXCEPT !.pc = NextInv(f)])
  /\ UNCHANGED <<rules, approvals, invs, faults, confirmed>>

FeedStep(p) ==
  \/ PullList(p) \/ PullMark(p) \/ PullOwn(p) \/ PullInv(p) \/ PullAlert(p) \/ PullContain(p)

=============================================================================
