-------------------------- MODULE ResponseInvariant --------------------------
(***************************************************************************)
(* The inductive invariant behind the safety theorems of ResponseProofs.    *)
(* None of ContainedWasConfirmed, LinkedRuleIsRelevant, ApprovedHasRule and *)
(* NoInternalBlock is inductive alone: what a handler will write depends on *)
(* what it read some steps ago.  FrameOK says what the local state of a     *)
(* handler still tells about the store at each of its steps, and StoreOK    *)
(* what the records tell about each other.                                  *)
(***************************************************************************)
EXTENDS Response

Present(r) == rules[r].state # "absent"

\* A rule that was confirmed acts on the address ip; the model may verify any.
ConfirmedOn(ip) == \E r \in confirmed : Llm \/ rules[r].ip = ip

\* A rule that was confirmed acts on a party of the alert.
ConfirmedFor(al) == \E r \in confirmed : Llm \/ rules[r].ip \in Parties(al)

\* Which handler can be at which step.
OpOK(f) ==
  /\ f.pc \in {"mark", "contain", "verified"} => f.op = "run"
  /\ f.pc \in {"llm", "unblock"} => f.op = "llm"
  /\ f.pc \in {"decide", "finish", "link", "close", "audit"} => f.op \in RunOps
  /\ f.pc \in {"request", "active", "propose"} => f.op \in RunOps \cup {"propose"}
  /\ f.pc \in {"exec", "insert"} => f.op \in RunOps \cup {"add", "contain", "decide", "override"}
  /\ f.pc \in {"verify", "check"} => f.op \in RunOps \cup {"contain", "probe", "decide", "override"}
  /\ f.pc \in {"reject", "fail", "approve", "reflect", "rewrite", "relink",
               "dec_inv", "dec_alert", "dec_contain"} => f.op = "decide"
  /\ f.pc \in {"ovr_list", "rollback", "ovr_write", "ovr_rule", "ovr_alert"} => f.op = "override"
  /\ f.pc \in {"clash", "enable", "disable"} => f.op = "toggle"
  /\ f.pc = "recheck" => f.op = "recheck"
  /\ f.pc = "lapse" => f.op = "lapse"
  /\ f.pc = "sweep" => f.op \in {"sweep", "pull"}
  /\ f.pc \in {"pull_list", "pull_mark", "pull_own", "pull_inv", "pull_alert", "pull_contain"}
       => f.op = "pull"
  /\ f.pc = "set_status" => f.op = "status" /\ f.status \notin {"CONTAINED", "INVESTIGATING"}
  /\ f.op = "llm" => Llm

\* Rules a handler holds exist, and what it holds of them is still true.
HeldOK(f) ==
  /\ \A r \in f.todo \cup f.mine : Present(r)
  /\ f.rule # None => Present(f.rule)
  /\ \A r \in Rules : f.snap[r].enf.status = "ENFORCED" => r \in confirmed
  /\ f.pc = "check" => \A r \in f.todo : rules[r].ip = f.ip
  /\ "ENFORCED" \in f.seen => ConfirmedOn(f.ip)
  /\ f.pc = "insert" => ~Refused(f)
  /\ f.op \in {"toggle", "recheck"} => f.rule # None

\* A run works for its alert: what it executes and reads back are its parties.
RunOK(f) ==
  f.op \in RunOps =>
    /\ f.alert \in Alerts /\ f.inv \in Invs /\ invs[f.inv].alert = f.alert
    /\ \/ f.pc \in {"finish", "link", "close"}
       \/ f.op = "run" /\ f.pc \notin {"mark", "decide"}
       => f.outcome # None
    /\ f.op = "run" /\ f.pc \in {"contain", "exec", "insert", "request", "active", "propose"}
         => f.seen = {}
    /\ ~Llm =>
         /\ \/ f.pc \in {"exec", "insert", "request", "active", "propose", "verify", "check", "verified"}
            \/ f.seen # {}
            => f.ip \in Parties(f.alert)
         /\ f.first # None => f.first \in Parties(f.alert)
         /\ \A r \in f.mine : rules[r].ip \in Parties(f.alert)
    /\ f.pc = "link" => f.todo \subseteq f.mine

\* A decision works on the request it read, and on the rule that answers it.
DecideOK(f) ==
  f.op = "decide" =>
    /\ f.apr # None /\ approvals[f.apr].status # "absent"
    /\ approvals[f.apr].action = f.action /\ approvals[f.apr].ip = f.ip
    /\ f.inv # None =>
         /\ f.alert \in Alerts /\ invs[f.inv].alert = f.alert
         /\ ~Llm => f.ip \in Parties(f.alert)
    /\ f.yes /\ f.pc \in {"verify", "check", "approve", "reflect", "rewrite", "relink"} =>
         f.rule # None /\ rules[f.rule].ip = f.ip /\ rules[f.rule].action = f.action
    /\ f.pc \in {"exec", "insert", "verify", "check", "approve", "relink"} => f.yes
    /\ f.pc = "reject" => ~f.yes
    /\ f.pc \in {"rewrite", "relink"} => f.inv # None
    /\ f.pc = "dec_inv" => "ENFORCED" \in f.seen /\ f.alert # None
    /\ f.pc \in {"dec_alert", "dec_contain"} => f.alert \in Alerts /\ ConfirmedFor(f.alert)

\* An override works for the alert of its investigation.
OverrideOK(f) ==
  f.op = "override" =>
    /\ f.inv \in Invs /\ f.alert \in Alerts /\ invs[f.inv].alert = f.alert
    /\ f.outcome # None
    /\ f.pc = "ovr_list" => f.seen = {}
    /\ f.pc \in {"exec", "insert"} => f.ip = Attacker[f.alert]
    /\ f.pc = "ovr_alert" /\ f.yes => ConfirmedFor(f.alert)

\* A pull visits investigations that a confirmed rule answers.
PullOK(f) ==
  /\ f.pc \in {"pull_inv", "pull_alert", "pull_contain"} =>
       \A i \in f.invset : invs[i].alert \in Alerts /\ ConfirmedFor(invs[i].alert)
  /\ f.pc \in {"pull_alert", "pull_contain"} => f.alert \in Alerts /\ ConfirmedFor(f.alert)
  /\ f.op = "propose" => f.inv = None

FrameOK(f) == OpOK(f) /\ HeldOK(f) /\ RunOK(f) /\ DecideOK(f) /\ OverrideOK(f) /\ PullOK(f)

RulesOK ==
  \A r \in Rules :
    /\ r \in confirmed => Present(r)
    /\ rules[r].enf.status = "ENFORCED" => r \in confirmed
    /\ rules[r].inv # None =>
         /\ invs[rules[r].inv].alert \in Alerts
         /\ ~Llm => rules[r].ip \in Parties(invs[rules[r].inv].alert)
    /\ Present(r) /\ rules[r].action = "BLOCK" => rules[r].ip \notin Internal

ApprovalsOK ==
  \A a \in Approvals :
    /\ approvals[a].inv # None =>
         /\ approvals[a].alert \in Alerts
         /\ invs[approvals[a].inv].alert = approvals[a].alert
         /\ ~Llm => approvals[a].ip \in Parties(approvals[a].alert)
    /\ approvals[a].status = "APPROVED" =>
         LET r == approvals[a].rule IN
         /\ r # None /\ Present(r)
         /\ rules[r].action = approvals[a].action /\ rules[r].ip = approvals[a].ip

InvsOK == \A i \in Invs : invs[i].outcome # None => invs[i].alert \in Alerts

AlertsOK == \A al \in Alerts : alerts[al] = "CONTAINED" => ConfirmedFor(al)

StoreOK == RulesOK /\ ApprovalsOK /\ InvsOK /\ AlertsOK

\* What the handlers hold and what the store holds fits together at every moment.
IInv == TypeOK /\ StoreOK /\ \A p \in Procs : FrameOK(frames[p])

-----------------------------------------------------------------------------
\* What InvestigatingIsRunning needs besides IInv: an alert has at most one run, a
\* run that is about to return has closed its alert, and an idle handler runs nothing.
OneRun ==
  \A p, q \in Procs :
    frames[p].op \in RunOps /\ frames[q].op \in RunOps /\ frames[p].alert = frames[q].alert
      => p = q

AuditedIsClosed ==
  \A p \in Procs : At(p, "audit") => alerts[frames[p].alert] # "INVESTIGATING"

IdleRunsNothing == \A p \in Procs : Idle(p) => frames[p].op = "idle"

RunInv == OneRun /\ AuditedIsClosed /\ IdleRunsNothing /\ InvestigatingIsRunning

-----------------------------------------------------------------------------
(* What handlers guarantee one after the other.  The properties of Response *)
(* that two handlers can break together hold as soon as those that could    *)
(* write beside each other are one.                                         *)

\* Which handlers serve what.
Serves(p, op) ==
  /\ op \in RunOps => p \in Engine
  /\ op \in {"add", "contain", "toggle", "recheck", "probe", "propose", "decide",
             "override", "status"} => p \in Console
  /\ op \in {"lapse", "sweep"} => p \in Timer
  /\ op = "pull" => p \in Firewall

ServesOK == \A p \in Procs : Serves(p, frames[p].op)

Benign(f) == f.op = "override" /\ f.outcome \in {"FALSE_POSITIVE", "RECON_ONLY"}

\* What a handler of engine or console knows of the rules and requests it is about to
\* add to, so long as no other one is at work.
WriterOK(f) ==
  /\ Benign(f) => f.pc \in {"ovr_list", "rollback", "ovr_write", "ovr_rule", "ovr_alert"}
  /\ OneOf(Engine \cup Console) =>
       /\ f.pc = "insert" => Clashes(f.action, f.ip) = {}
       /\ f.pc \in {"clash", "enable"} =>
            f.snap[f.rule].action = rules[f.rule].action /\ f.snap[f.rule].ip = rules[f.rule].ip
       /\ f.pc = "enable" => Clashes(rules[f.rule].action, rules[f.rule].ip) = {}
       /\ f.pc \in {"active", "propose"} => Open(f.action, f.ip) = {}
       /\ Benign(f) =>
            /\ f.pc = "rollback" => LinkedTo(f.inv) \subseteq f.todo
            /\ f.pc \in {"ovr_write", "ovr_rule", "ovr_alert"} => LinkedTo(f.inv) = {}

\* What a handler that is about to write the answer of a read-back, or of a pull, knows
\* so long as no other one is at work.
ReaderOK(f) ==
  OneOf(Procs) =>
    /\ f.pc \in {"check", "pull_mark"} => \A r \in f.todo : Active(r)
    /\ f.pc = "recheck" => Active(f.rule)

Undecided == {"exec", "insert", "verify", "check", "reject", "fail", "approve"}

\* What the only handler that settles requests knows of those it works on.
DeciderOK(f) ==
  OneOf(Console \cup Timer) =>
    /\ f.op = "decide" /\ f.pc \in Undecided => approvals[f.apr].status = "PENDING"
    /\ f.pc = "lapse" => \A a \in f.held : approvals[a].status = "PENDING"

\* Approval mode "manual", in an instance where analysts ask for no rule directly, one
\* handler settles requests and no call fails.
Manual ==
  /\ ApprovalMode = "manual" /\ ConsoleOps \cap {"add", "override"} = {}
  /\ OneOf(Console \cup Timer)
  /\ ~Failing /\ MaxFaults = 0

\* Only an approved decision executes; one that has is on record, one that failed was refused.
ManualOK(f) ==
  Manual =>
    /\ f.op # "override"
    /\ f.pc \in {"exec", "insert"} => f.op = "decide"
    /\ f.op = "run" /\ f.pc \in {"contain", "request", "active", "propose"} => ~f.yes
    /\ f.op = "decide" /\ f.yes =>
         \/ f.pc \in Undecided /\ (f.pc = "fail" => Refused(f))
         \/ approvals[f.apr].status = "APPROVED"

Knows(f) == WriterOK(f) /\ ReaderOK(f) /\ DeciderOK(f) /\ ManualOK(f)

\* Where it matters, handlers are alone with what they know, and leave the records whole.
SerialInv ==
  /\ ServesOK
  /\ \A p \in Procs : Knows(frames[p])
  /\ OneOf(Engine \cup Console) => OneActiveRule /\ OneOpenRequest
  /\ OneOf(Procs) => DisabledIsNotEnforced
  /\ Manual => RuleNeedsApproval

-----------------------------------------------------------------------------
\* What KeepsPromises needs besides: requests that are about to lapse exist, and a handler
\* that is about to set the status of alerts has read that they may be set, which stays
\* true so long as no other one is at work.
StatusOK(f) ==
  /\ f.pc = "lapse" => \A a \in f.held : approvals[a].status # "absent"
  /\ f.pc = "set_status" => f.status \in {"NEW", "CLOSED", "FALSE_POSITIVE"}
  /\ OneOf(Procs) =>
       /\ f.pc \in {"dec_contain", "pull_contain"} => alerts[f.alert] = "CONFIRMED"
       /\ f.pc = "set_status" => \A al \in f.targets : alerts[al] # "INVESTIGATING"

StatusInv == \A p \in Procs : StatusOK(frames[p])

=============================================================================
