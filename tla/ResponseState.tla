---------------------------- MODULE ResponseState ----------------------------
(***************************************************************************)
(* The records that the containment part of the console shares (firewall    *)
(* rules, approvals, investigations, alert statuses) and the handlers in    *)
(* flight.  The server is one Node process: a handler runs without          *)
(* interruption from one await to the next, and at every await any other    *)
(* handler may run.  So a handler is a frame with a pc, a step of a handler *)
(* is one store or enforcer call together with the code up to the next      *)
(* await, and Next interleaves the steps.  Awaits that change nothing       *)
(* modelled here (audit lines, notes, notifications) need no step of their  *)
(* own: the interleaving they allow is already there.                       *)
(***************************************************************************)
EXTENDS Enforcement, FiniteSets, Integers

CONSTANTS
  Rules,       \* ids of firewall rules the store can hold (a bound)
  Approvals,   \* ids of approval requests (a bound)
  Invs,        \* ids of investigations (a bound)
  Alerts,      \* alerts in the store
  IPs,         \* addresses that occur
  Internal,    \* the internal ones among them (isInternal)
  Attacker,    \* [Alerts -> IPs], the remote party of an alert
  Host,        \* [Alerts -> IPs], the internal host of an alert
  None,        \* null
  Engine,      \* handlers that may run an investigation
  Console,     \* handlers that may serve an analyst's request
  Firewall,    \* handlers that may serve a pull of a feed
  Timer,       \* handlers that may run the hourly sweeps
  ConsoleOps,  \* the requests analysts make in this instance
  ApprovalMode,         \* config.approvalMode
  AutoContain,          \* config.autoContainmentThreshold # 'OFF'
  IsolateOnCompromise,  \* config.isolateOnCompromise
  TimeBoxed,            \* rules may carry an expiry
  Llm,                  \* a language model is configured and config.engine = 'llm'
  Failing,              \* calls of the store may fail
  MaxFaults             \* bound on process restarts and failed clean-ups

Procs == Engine \cup Console \cup Firewall \cup Timer

Outcomes == {"ATTACK_SUCCEEDED", "ATTACK_FAILED", "FALSE_POSITIVE", "RECON_ONLY"}

ASSUME ResponseAssumption ==
  /\ Internal \subseteq IPs
  /\ Attacker \in [Alerts -> IPs]
  /\ Host \in [Alerts -> IPs]
  /\ None \notin Rules \cup Approvals \cup Invs \cup Alerts \cup IPs \cup Outcomes
  /\ ConsoleOps \subseteq {"add", "contain", "toggle", "recheck", "probe",
                           "propose", "approve", "reject", "override", "status"}
  /\ ApprovalMode \in {"auto", "confidence", "manual"}
  /\ AutoContain \in BOOLEAN
  /\ IsolateOnCompromise \in BOOLEAN
  /\ TimeBoxed \in BOOLEAN
  /\ Llm \in BOOLEAN
  /\ Failing \in BOOLEAN
  /\ MaxFaults \in Nat

VARIABLES
  rules,       \* store.rules
  approvals,   \* store.approvals
  invs,        \* store.investigations
  alerts,      \* status of each alert in store.alerts
  frames,      \* the local state of each handler
  faults,      \* restarts and failed clean-ups so far
  confirmed    \* history: rules the backend has reported in force at least once

vars == <<rules, approvals, invs, alerts, frames, faults, confirmed>>

-----------------------------------------------------------------------------
AlertStatuses == {"NEW", "INVESTIGATING", "CONFIRMED", "CONTAINED", "MITIGATED",
                  "FALSE_POSITIVE", "CLOSED"}

RuleRecord == [state  : {"absent", "active", "disabled"},
               action : Actions,
               ip     : IPs \cup {None},
               enf    : Answers,
               inv    : Invs \cup {None},
               ttl    : {"none", "running", "lapsed"}]

NoRule == [state |-> "absent", action |-> "BLOCK", ip |-> None,
           enf |-> Answer("REMOVED", FALSE), inv |-> None, ttl |-> "none"]

\* old: created longer ago than config.approvalExpiryHours.
ApprovalRecord == [status : {"absent", "PENDING", "APPROVED", "REJECTED", "FAILED", "EXPIRED"},
                   action : Actions,
                   ip     : IPs \cup {None},
                   alert  : Alerts \cup {None},
                   inv    : Invs \cup {None},
                   rule   : Rules \cup {None},
                   old    : BOOLEAN]

NoApproval == [status |-> "absent", action |-> "BLOCK", ip |-> None, alert |-> None,
               inv |-> None, rule |-> None, old |-> FALSE]

\* alert is set when the run draws the id, outcome when the record is inserted.
\* waiting: the entries of actions_taken that still read AWAITING_APPROVAL.
InvRecord == [alert   : Alerts \cup {None},
              outcome : Outcomes \cup {None},
              waiting : SUBSET Approvals]

NoInv == [alert |-> None, outcome |-> None, waiting |-> {}]

Ops == {"idle", "add", "contain", "toggle", "recheck", "probe", "propose",
        "decide", "override", "status", "sweep", "lapse", "pull", "run", "llm"}

PCs == {"idle", "exec", "insert", "verify", "check",
        "clash", "enable", "disable", "recheck", "sweep", "lapse",
        "request", "active", "propose",
        "reject", "fail", "approve", "reflect", "rewrite", "relink",
        "dec_inv", "dec_alert", "dec_contain",
        "pull_list", "pull_mark", "pull_own", "pull_inv", "pull_alert", "pull_contain",
        "mark", "decide", "contain", "first", "verified", "finish", "link", "close", "audit",
        "llm", "unblock",
        "ovr_list", "rollback", "ovr_write", "ovr_rule", "ovr_alert",
        "set_status"}

Frame == [op      : Ops,
          pc      : PCs,
          action  : Actions,
          ip      : IPs \cup {None},
          alert   : Alerts \cup {None},
          inv     : Invs \cup {None},
          apr     : Approvals \cup {None},
          rule    : Rules \cup {None},   \* the rule a call returned or works on
          todo    : SUBSET Rules,        \* rules of the list still to visit
          snap    : [Rules -> RuleRecord], \* rules as they were when listed
          seen    : SUBSET Statuses,     \* statuses of the last verify_defense_state
          mine    : SUBSET Rules,        \* ctx.actions with status APPLIED
          first   : IPs \cup {None},     \* target of the first executed action
          held    : SUBSET Approvals,    \* ctx.actions awaiting approval, or approvals to expire
          plan    : SUBSET Actions,      \* containment still to request
          outcome : Outcomes \cup {None},
          yes     : BOOLEAN,             \* a decision carried to a later step
          invset  : SUBSET Invs,         \* investigations a pull has to look at
          targets : SUBSET Alerts,       \* alerts of a status change
          status  : AlertStatuses]

IdleFrame ==
  [op |-> "idle", pc |-> "idle", action |-> "BLOCK", ip |-> None, alert |-> None,
   inv |-> None, apr |-> None, rule |-> None, todo |-> {}, snap |-> [r \in Rules |-> NoRule],
   seen |-> {}, mine |-> {}, first |-> None, held |-> {}, plan |-> {}, outcome |-> None,
   yes |-> FALSE, invset |-> {}, targets |-> {}, status |-> "NEW"]

TypeOK ==
  /\ rules \in [Rules -> RuleRecord]
  /\ approvals \in [Approvals -> ApprovalRecord]
  /\ invs \in [Invs -> InvRecord]
  /\ alerts \in [Alerts -> AlertStatuses]
  /\ frames \in [Procs -> Frame]
  /\ faults \in Nat
  /\ confirmed \in SUBSET Rules

Init ==
  /\ rules = [r \in Rules |-> NoRule]
  /\ approvals = [a \in Approvals |-> NoApproval]
  /\ invs = [i \in Invs |-> NoInv]
  /\ alerts = [al \in Alerts |-> "NEW"]
  /\ frames = [p \in Procs |-> IdleFrame]
  /\ faults = 0
  /\ confirmed = {}

-----------------------------------------------------------------------------
Idle(p) == frames[p].pc = "idle"

At(p, pc) == frames[p].pc = pc

\* The handler p goes on with local state f; a handler that returns forgets its locals.
Continue(p, f) ==
  frames' = [frames EXCEPT ![p] = IF f.pc = "idle" THEN IdleFrame ELSE f]

Active(r) == rules[r].state = "active"

ActiveFor(ip) == {r \in Rules : Active(r) /\ rules[r].ip = ip}

\* A snapshot of the rules R, as a store call that lists them returns it.
Snapshot(R) == [r \in Rules |-> IF r \in R THEN rules[r] ELSE NoRule]

\* The history variable after rule r was stored with answer e.
Confirm(r, e) ==
  confirmed' = IF e.status = "ENFORCED" THEN confirmed \cup {r} ELSE confirmed

Recorded(i) == i # None /\ invs[i].outcome # None

Parties(al) == {Attacker[al], Host[al]}

=============================================================================
