# Aegis: models and proofs

Aegis is a SOC console: log agents and SIEM webhooks land alerts in a store, an
engine (a playbook or a language model) investigates them, blocks attackers and
isolates hosts through an enforcement backend, analysts approve, override and
triage, and firewalls pull the resulting block lists. This directory holds TLA+
models of that program, the TLC configurations that check them and TLAPS proofs
about them. Paths are relative to the project's `src/`; `PROJECT.json` maps every
definition to the lines it stands for.

The project covers the part on which the program's central promise rests,
**containment** ("Aegis never marks an alert *contained* until the backend has confirmed
the rule", README.md:36 of the program), the **log agent** on the hosts, the **desk** of the
analysts (cases, hunts, channels, assistant, workflows, NetCoop, custom rules, the activity
of assistants and the browser console's router) and the **platform** under it (accounts, OAuth, detection, intake, threat feeds, the store's file).

## 1. Inventory

One Node process serves everything; several instances may share one database.
A request handler runs without interruption between two `await`s. All shared state
is in the store; almost every handler reads it, awaits something slow (a firewall,
a model, a webhook) and then writes what it computed from what it read.

| Component | State | Operations | Hard behaviour |
|---|---|---|---|
| Enforcement adapters (`src/enforce/index.js`) | none of its own; the answer stored with a rule | apply, remove, verify in modes record, feed, webhook, cloudflare | pushes fail; verify may echo, read back or push again |
| Containment tools and rule endpoints (`src/engine/tools.js`, `src/routes.js`) | `store.rules` | execute_firewall_action, verify_defense_state, add, toggle, verify, expiry sweep, pull feeds | check-then-insert, stale read-backs, pull racing link |
| Approval queue (`src/engine/approvals.js`, proposals in `src/cases.js`) | `store.approvals` | request, decide, expire, reflect | two deciders, decision after a slow firewall, lost update of the timeline |
| Investigation engine (`src/engine/investigator.js`) | `store.investigations`, the in-memory set `running` | run (playbook or model), contain, finish, override | failure and restart in mid-run, model asking for anything |
| Alert triage (`src/routes.js`, `src/casework.js`) | `store.alerts[].status` | set the status of one or many alerts | status written after it was checked |
| Cases, tasks, hunts, escalation (`src/cases.js`) | cases, tasks, links, indicators, hunts, runs | create, close, reopen, link, task updates, escalation, kill chain, hunts | closing against concurrent task updates, counters from copies |
| Suppressions, channels, assignment (`src/casework.js`, `src/engine/suppress.js`) | suppressions, channels | create, match, apply, delete | hit counters and lists across awaits |
| Ingest and detection (`src/routes.js`, `src/engine/detect.js`) | logs, alerts, `triageQueue` | ingest, detect in windows, land, triage, purge | duplicated deliveries, window boundaries, queue against its drainer |
| Evidence analysis (`src/engine/analysis.js`) | none | version comparison, exposure, verdict | boundaries of version ranges |
| Accounts, sessions, keys (`src/app.js`, `src/security/auth.js`) | users, cookies, a 30 s user cache, rate buckets | setup, login, password, role and access changes | last-admin rule, cached users, versions from copies |
| OAuth server (`src/oauth.js`) | signed codes and tokens, burnt codes in memory | approve, trade, refresh | single use of a code, grants outliving a role |
| Notifier (`src/notify.js`) | channels and delivery results | emit, test, record | list saved whole after a delivery |
| Workbench (`src/workbench.js`) | conversations, workflows, runs | send, confirm, run | confirmation taken twice, history cut in mid-exchange |
| Store (`src/store/memory.js`, `supabase.js`) | everything | one call at a time, debounced save | crash or failing write at any point of a save |
| Threat intelligence (`src/intel/`) | keys, copies of feeds | save and read keys, load, refresh | a download that outlives the key it began with |
| Log agent (`public/agent/aegis-agent.js`) | read positions, queues, host firewall | tail, enqueue, flush, retry, stop, enforce | crash between save and send, stop racing a flush, passes that overlap |
| NetCoop (`src/netcoop/`) | bus, agents' state | diagnose in phases, challenge, report | an agent that throws leaves another waiting |
| MCP server (`src/mcp.js`) | audit rows of calls | tools wrapping the components above, activity | two rows for a call, either of which may be missing |
| Rule languages (`src/engine/sigma.js`, `customrules.js`, `hunt.js`) | custom rules, a cache, hit counters | lint, save, delete, compile, scan | precedence and truncation of conditions, a cache filled beside an edit |
| Browser console (`public/js/`) | current view, gate, palette, calls of assistants | route, sign in again, search, poll | routes, searches and polls that overtake each other |
| Model providers, migrations | | HTTP, schema | |

**How they interact.** Engine, approvals, override and the analyst endpoints all call
the two tools `execute_firewall_action` and `verify_defense_state`. The engine calls
`approvals.request`; `approvals.decide` calls the tools and then writes the
investigation, the rule and possibly the alert. A firewall's pull sweeps expired
rules, marks what it served as ENFORCED and then re-examines the investigations of
those rules. No two of these take a lock.

**What makes each correct.** Rules: no internal address is blocked, one active rule
per action and address, a disabled rule does not read ENFORCED, a published rule is
eventually pulled. Approvals: a decision is final, an approved request has its rule,
nothing is enforced unapproved in manual mode, one open request per action. Engine:
an alert is CONTAINED only after a confirmed rule on its address, INVESTIGATING only
while a run works on it, every run ends. Override: containment is reconciled with the
new outcome, and nothing unrelated is rolled back. Agent: a line read is delivered or its loss is on
record, in order; the host firewall mirrors the feed. Cases: a closed case is settled, and its
tasks, alerts and indicators stay as they are. Channels, conversations, workflow runs: what was removed stays removed,
what was confirmed runs once, what is reported is what happened. Accounts and OAuth: an
administrator remains, every change signs out, a token stays within its user's role, a code
is traded once. Detection and intake: a burst is reported however it is split, as long as it is
among the lines detection reads; queued alerts are investigated, hits are counted once. Feeds and store: a copy survives failures and is
of the key in use; a restart finds what was saved. Rules: a condition means what the language
says, and the rules that run are those stored. Console: the newest route and the newest search
win, and what an assistant did is shown once and as it ended.

## 2. Modules

**Containment.** The state is in one module and every component's handlers in one of their own; each
extends the one whose operations it calls, as the code does.

| Module | Code | Content |
|---|---|---|
| `Containment` | | the abstract specification: how one alert, one rule or one request may move, and what each move rests on |
| `Enforcement` | `src/enforce/index.js` | the set of answers each adapter may give to apply, remove, verify |
| `ResponseState` | `src/store/memory.js` | the records, the frames of handlers, `Init`, `TypeOK` |
| `RuleHandlers` | `src/engine/tools.js`, `src/routes.js` | the two tools, add, contain, probe, toggle, verify, expiry |
| `ApprovalHandlers` | `src/engine/approvals.js`, `src/cases.js` | request, propose, expire, decide, reflect |
| `InvestigationHandlers` | `src/engine/investigator.js` | run, playbook containment, read-back and retry, model loop, finish, clean-up |
| `AnalystHandlers` | `src/engine/investigator.js`, `src/routes.js`, `src/casework.js` | override, status of alerts |
| `FirewallFeed` | `src/routes.js` | pulls of the two feeds |
| `Response` | all of the above | interleaving, failures, restarts, specification, every property, and the refinement `Promise == INSTANCE Containment WITH ...` |
| `ResponseInvariant` | | the inductive invariants `IInv`, `RunInv`, `SerialInv` and `StatusInv` |
| `InvariantLemmas`, `HandlerProofs`, `ResponseProofs` | | the proofs |
| `MCResponse` | | definitions for TLC |

**Agent.** `MCAgent` instantiates `Agent`, which composes the two halves of the process.

| Module | Code | Content |
|---|---|---|
| `LineDelivery` | | the abstract shipper: a line stays in custody until it is delivered or given up on record |
| `AgentShipping` | `public/agent/aegis-agent.js` | files that grow, rotate and are truncated; tail, queues, flush with retries, Windows events, saved positions, stop, crash and restart |
| `AgentFirewall` | the same | passes that pull the feed and rewrite the host firewall command by command on Linux, Windows and macOS |
| `Agent` | the same | command lines, fairness, the properties and the refinement `Delivery == INSTANCE LineDelivery WITH ...` |
| `AgentProofs` | | the proofs about `AgentShipping` and the refinement |

**Services.** Each module has one service; `Requests` has what an `async` function is in
all of them: `job[w]` is the request a worker serves, its `pc` the call it makes next, its
fields what it has read. `MCDesk` and `MCPlatform` instantiate them for TLC.

| Module | Code | Content |
|---|---|---|
| `Requests` | | requests, the awaits between their steps, and `crowded`, the objects two requests met on |
| `Cases` | `src/cases.js` | life cycle of a case, its tasks, alerts, indicators and techniques, escalation, the kill-chain case |
| `Hunts` | `src/cases.js` | saved hunts, their runs and what a run marks as new |
| `Channels` | `src/notify.js`, `src/casework.js` | the list of channels, deliveries and their results |
| `Assistant` | `src/workbench.js` | conversations, proposals, confirmations and what the model is shown |
| `Workflows` | `src/workbench.js` | workflows and runs with conditions, failing steps and cancellation |
| `NetCoop` | `src/netcoop/` | the bus, the agents and the phases of a diagnosis, with agents that throw |
| `SigmaConditions` | `src/engine/sigma.js` | the parser of rule conditions, and the grammar it is compared with |
| `CustomRules` (extends `SigmaConditions`) | `src/engine/customrules.js`, `src/workbench.js`, `src/routes.js` | saving and removing rules, the cache of compiled rules, runs over batches, hit counters |
| `Activity` | `src/mcp.js`, `public/js/mcp-live.js` | the two audit rows of a tool call, and the page that polls, merges and announces them |
| `Console` | `public/js/app.js`, `core.js`, `gate.js` | the router with its three awaits, the session gate, the search palette |
| `Accounts` | `src/app.js` | setup, sign-in, sessions, the user cache, password, role and access changes |
| `OAuth` (extends `Accounts`) | `src/oauth.js` | approval, codes, trade, refresh, expiry, restart |
| `Detection` | `src/routes.js`, `src/engine/detect.js` | log batches, the sliding window and its alerts |
| `Intake` | `src/routes.js`, `src/casework.js` | landing, suppression, the triage queue, retention |
| `IntelFeeds` | `src/intel/` | the keys of a provider and the copy of its keyed feed |
| `StoreFile` | `src/store/memory.js`, `server.js` | the file behind the local store, shutdown, crash, failing writes |
| `DeskProofs` | | the proofs about the modules of `MCDesk`: `Cases` to `Assistant`, `CustomRules`, `NetCoop`, `Activity`, `Console`, and about `MCDesk` itself |
| `PlatformProofs` | | the proofs about `Accounts`, `OAuth`, `Detection`, `Intake`, `IntelFeeds`, `StoreFile` |
| `ConditionProofs` | | the proofs about `SigmaConditions` |
| `RequestLemmas` | | what both use: the fields of a request, requests that go on alone, least and greatest numbers |

### How the containment model corresponds to the code

*Handlers.* `frames[p]` is the local state of one handler in flight, `pc` the await it
is at. A step is one store or enforcer call together with all code up to the next
await. Awaits that change nothing modelled (audit lines, notes, notifications) are no
steps of their own, as the interleaving they allow is there already. The tools are
called from seven places; `AfterExecute`, `AfterVerify`, `AfterRefusal`,
`AfterRequest` and `AfterReflect` say where each caller goes on.

*Stale reads.* Where the code lists records, awaits and then writes from its copy, the
frame carries the copy (`snap`, `held`, `targets`, `invset`) and the write uses it. A
read-back computed for a rule listed as active is written over whatever the rule has
become.

*Answers.* The backend is the environment, so an answer is any the adapter can return:
a webhook's push ends ENFORCED or FAILED, the feed's is PENDING until a pull, an
isolation at Cloudflare is only RECORDED. `remote` says whether the answer carries a
`remote_id`, on which the adapter's later calls depend.

*Outcome and evidence.* Gathering evidence only reads; the playbook's verdict is a
choice among the four outcomes, and `Plans` and `Executes` are the conditions under
which it contains and whether it executes or asks. A confidence is not a number here:
in mode `confidence` both answers are possible, except for the model's proposals made
without a score.

*The model loop.* With `Llm` the run may call containment, read-back and unblock with
any address, in any order and number, change its verdict, stop or fail; the playbook
takes over with the actions done so far (`ctx.actions`) kept.

*Failures.* `Failing` lets any store call fail; `RunFail` has the different handling
of the run's calls (skipped, handed to the playbook, clean-up to NEW), `HandlerFail`
that of the other handlers. A restart (`Crash`) keeps the store and drops every frame,
and with them the set `running`. `faults` counts restarts and clean-ups that failed.

*Time.* `Lapse` lets a time-boxed rule run out and `Age` lets a request pass the expiry
window, at any moment. The hourly job is `StartSweep` and `StartExpire`.

*History.* `confirmed` is the set of rules the backend has reported in force at least
once. Nothing reads it but the properties.

*Bounds.* `Rules`, `Approvals` and `Invs` are the ids available; a handler that needs a
new id when none is left waits, which cuts behaviours short and adds none.
`MaxFaults` bounds `faults`. The message loop of the model is not bounded (the code's
turn limit only ends it earlier, by the fallback the model has at every turn).

### How the agent and the services correspond to the code

*Agent.* A step of `AgentShipping` is one answer to a post, one tick up to its first await
or one channel of Windows events; everything between two awaits is one step. A line is two
units, its text and its newline, so that a read of `MAX_READ` units can cut it. A post that
fails may have been taken by the console all the same. `Held` is what memory holds and a
crash loses; `taken`, `lost` and the other history variables are read by properties only.
A firewall command succeeds or fails; on Windows the deletion of the old rules may fail
without ending the pass.

*Requests.* `StartX(w)` is the code of a handler up to the await after its first read,
the action named for a call (`InsertUser`, `WriteCase`, `Deliver`) the call and the code up
to the next await. A read and the checks that follow it are one step, a write that
depends on them is another, and every other request may run in between. `Patched(rec,
patch)` is `Object.assign`. An id is drawn from a set that bounds how many there can be.

*What meets.* Most promises of the services are kept by any sequence of requests and lost
when two requests work on the same object, each by what it read. Such a property does not
leave overlap out: all interleavings are explored, `crowded` records the objects on which
two requests met, and the property speaks of the others. `contested` is finer: it records
only two changes that can each cost an administrator.

*Channels* are one row that every writer reads and saves whole (`SaveList`). *The
assistant's* messages carry their role and the calls in them; `Context` cuts the history
as the code does. *Workflow* steps return something or nothing, and a condition tests an
earlier step. *NetCoop* keeps which readings a diagnosis rests on, not their scores.

*OAuth* has `AccountStep` in place of the requests of `Accounts`: any change of a user in
one step, by this or another instance, with or without forgetting the cached copy, which
allows all that the requests of `Accounts` do to a grant.

*Detection* is about the log-ins of several clients to one host at times `0 .. MaxTime`; any other
line is of kind `"other"` and only takes up room. A batch is a sequence of lines, since the order
decides which of its clients are judged (`Judged`, the first `MaxClients`). For each of
these the store answers with the `Limit` newest lines of the client (`Newest`; which
lines it keeps of the time at which the limit cuts is left open), one client after the
other, so that two batches are judged by different states of the store. `SlideTo` and `Recent` are
the loop of `evaluate` over the failures, and `Fail` is a call of `runDetection` that throws, after which the
host is told 202 all the same. `BurstsAreRaised` compares the alerts with a reference that looks at
every window of the stored lines. What the code cannot see is not left out of the model but
recorded: `overlooked` holds the windows whose last batch did not judge them, because of the
client slice, the line limit, the horizon or a failure, and the property asks for an alert for each
window of the others.

*Cases.* The severity and techniques of a case can be patched although it is closed, as `updateCase`
reads it with `mustCase`; the functions that change tasks, links and indicators read it with `writable`, and these
are what `ClosedIsFrozen` is about.

*IntelFeeds* names a copy by the key it was downloaded with. *StoreFile*
opens, fills and renames the temporary file in three steps, with a crash possible between
them, and numbers the changes so that a file is what it holds.

*SigmaConditions* takes a condition as a sequence of tokens, a matcher as the set of events it
accepts, and an event as the set of selections it satisfies: precedence, nesting, quantifiers
and refusals stay, the matching of a field against a pattern goes. `Chain`, `NotExpr` and
`Primary` are the bodies of the four mutually recursive functions of the source (`orExpr` and
`andExpr` are one `Chain` with two operators), each over what the calls it makes return;
`Descend` ties them together as one recursive function. Reading past the last token gives
`"end"`, the `undefined` of the source. `Meanings` is the
language as an ambiguous grammar over intervals of tokens. `TypeToken` enumerates the texts.
In *Activity* a row's id is its place in the audit log; a poll is asked, answered and
absorbed in three steps, so that answers overtake each other, and `timers` counts the
time-outs whose handle was overwritten. In *Console* a call of `route` is its token and the
await it is at; what is on the screen is the token of the route that drew it.

*Bounds.* Every `Max...` and every set of ids is a bound and is marked so where it is
declared; a request that would need one more is not started.

## 3. What is checked

In the containment runs `ext` is the attacker of the alerts, `host` their internal host,
`other` an unrelated address. Deadlock is not an error in any run: the console may rest, and
an instance stops when its ids are used up. Rule ids, approval ids and engine processes are
symmetric in the safety runs of containment, and the workers that serve requests in those of the
services; runs with liveness use no symmetry.

| Run | Question | Instance |
|---|---|---|
| `mCFeed` | Is an alert CONTAINED only after a firewall pulled a rule on one of its addresses, and do approved requests name their rule? | feed, two handlers that take any part, expiring rules, approvals and status changes |
| `mCModel` | Can a model, with failing calls and a restart, get an internal address blocked, or take a step `Containment` does not list (the refinement)? | webhook, `Llm`, `Failing`, one fault |
| `mCManual` | In manual mode, does every rule answer an approved request, and does a proposal join the open request of another alert? | two alerts on one address, a run, proposals and decisions, one handler at a time |
| `mCSerial` | Are rules not doubled, disabled rules not ENFORCED, overrides reconciled, and only rules on the alert's own addresses linked, whatever sequence of requests? | Cloudflare, three addresses, one handler at a time, expiry, six kinds of request |
| `mCSerialFeed` | Does a confirmed compromise that rules of its own answer leave CONFIRMED? | feed, two alerts on one address, block and isolate, fairness |
| `mCProgress` | Does every handler return and every run end when any store call may fail; is INVESTIGATING never left behind; is a single analyst's decision final against the expiry job? | webhook with failures and retry, fairness |
| `mCAgent` | Does a clean stop lose nothing, are lines whole and delivered in order, is every line delivered, held or given up on record (the refinement), does stop end, is the feed mirrored in the end? | five command lines: a file from its start, from its end, once, Windows events with the inventory, the enforcer; one crash, rotation or truncation; one failing command or restart of the enforcer |
| `mCDesk` | Are closed cases settled and frozen; are hunt runs, channels, conversations and workflow runs what they should be; does a diagnosis survive an agent that throws? Does a condition compile to its meaning, do the stored rules run, is the activity feed true, does the newest route or search win? | two requests at once on each service; every condition of seven tokens whose prefix the grammar could continue; two polls over two calls, one row of each of which can be skipped or dropped; three routes over two views, two searches |
| `mCPlatform` | Does an administrator remain, does a change sign out, does a token stay within its role, is a code traded once, is a burst raised however it is split, is the triage queue drained, are hits counted once, is a copy kept, does a restart find what was saved? | two requests at once on each service, one restart, crashes and failed writes; batches of two lines of two clients, one of which is judged, by two lines read back |

Why the bounds suffice: two rules are the least for a duplicate, for a rule reused next
to a new one and for a list of which one entry is stale; one approval is enough for
everything said of one request, two for doubling; two handlers or requests give every
race of two actors, which is all the hazards need; two alerts with the same attacker are
needed only where a rule or a request is shared by alerts, and those runs have them. The
agent's queue holds two lines and a source writes three, so that a queue overflows and a
batch is cut while another waits; a read of four units cuts a line. Two users are one
administrator and the one who may become or replace the other; two hunts keep the runs of
one apart from those of another; a limit of one channel is reached by the second; a
workflow of three steps has a step that fails, one that needs it and one that runs all the
same; a conversation of four messages is longer than the three the model is shown. Seven
tokens hold both operators with a negation or a parenthesis around either; an answer of two
rows and a page of one call make both limits of the activity feed bite; three routes are one
that is superseded while it loads, one while it leaves, and the one that wins.
For detection, two clients in a batch of which one is judged, two lines read back of a client that has
up to six stored, and a line of the other client three minutes after the first with a horizon of
two make each of the three cuts bite.
Theorems cover the remaining sizes for the properties they state.

The services share the event loop and no variable, so `MCDesk` and `MCPlatform` check them
side by side: `service`, chosen in `Init`, says which of them a behaviour is about, and only
its variables change. (The product of independent services has no behaviour of one of them
that the service alone lacks.) OAuth reads the users of `Accounts` and is checked with
them.

Why some runs have one handler at a time: `RulesAgree` (no rule twice, none in force that is
switched off), `OverrideReconciles`, `OneOpenRequest` and `RuleNeedsApproval` are promises the code keeps for any
*sequence* of requests and does not keep between concurrent ones (§5). The serial runs
check that the sequences (add, expire, re-enable, read back, override, add again) are
right, which is where a unit test stops after two or three calls.

Each property has a mutant: a definition named `..._Something` next to the one it
replaces, a plausible bug of that code under which the run must fail.

### Fairness

`Fairness` has two parts. `WF_vars(Step(p))`: a handler that can go on does, since the
event loop runs every resolved promise and all calls of backend and store carry
timeouts. `SF_vars(StartPull(p, action))`: a firewall polls both feeds for ever; strong,
because the handler that serves it is busy in between. Nobody is assumed to start
anything else: no analyst has to decide, no timer to fire, and the steps of the model
(`LlmStep`) have no fairness, so liveness is checked for the playbook only.

The agent's `Fairness` (in `Agent`) is weak fairness of `Tick` and `StartPass` (interval
timers), of the reads of the event log, of an *answer* to a post, whichever it is (posts
have a timeout), and of the steps of a pass: a pull answers, a name resolves, a command
ends. Nothing is assumed of the sources, of `Stop` or of the answers the console gives.

## 4. What is proved

Forty-two theorems in five of the eight proof modules; `HandlerProofs` proves what single
actions of containment preserve, `InvariantLemmas` and `RequestLemmas` what these proofs
share. Every safety invariant and every action property of the runs that pass is stated by one
of them, and both refinements.

**Containment** (`ResponseProofs`), for every set of rules, approvals, investigations,
alerts, addresses and handlers, every enforcement and approval mode, with or without a
model, failures and restarts:

| Theorem | States |
|---|---|
| `HandlersFitStore` | `Spec => []IInv` |
| `TypeCorrect` | `Spec => []TypeOK` |
| `ContainmentIsConfirmed` | `Spec => []ContainedWasConfirmed`: the program's promise |
| `LinksAreRelevant` | `Spec => []LinkedRuleIsRelevant`: a rollback takes down no unrelated rule |
| `ApprovalsAreBacked` | `Spec => []ApprovedHasRule` |
| `InternalIsNeverBlocked` | `Spec => []NoInternalBlock` |
| `InvestigationsAreRunning` | `Spec => []InvestigatingIsRunning`: a run leaves no alert behind |
| `ResponseKeepsPromises` | `Spec => KeepsPromises`: the handlers implement `Containment` |

Five more promises the code keeps for sequences of requests and not between two at once
(§5). Each names the handlers of which there may be one only; whatever the others are,
as many of them as one likes interleave with it:

| Theorem | Alone | States |
|---|---|---|
| `DecisionsAreFinal` | who decides, expiry included: `Console \cup Timer` | `DecisionIsFinal`, an action property |
| `RulesAreApproved` | the same, in mode "manual", without direct rules or overrides, and no failing call (`Manual`) | `[]RuleNeedsApproval` |
| `RequestsAreNotDoubled` | who runs and who answers analysts: `Engine \cup Console` | `[]OneOpenRequest` |
| `OverridesReconcile` | the same | `OverrideReconciles`, an action property |
| `ListsAgree` | everybody: `Procs` | `[]RulesAgree` |

**Agent** (`AgentProofs`), for every number of files, lines, event logs, command lines,
queue limits, faults and restarts:

| Theorem | States |
|---|---|
| `ShippingInvariant` | `Spec => []ShippingInv` |
| `CleanExit` | `Spec => []CleanExitLosesNothing` |
| `ReadsWholeLines` | a read from the start takes whole lines, until the first fault or restart |
| `OrderInvariant` | `Spec => []OrderInv`: no line at the console is ahead of one that waits or may still be read |
| `LinesArriveAsWritten` | `Spec => DeliveredAsWritten`, an action property: lines arrive whole and in the order written |
| `ShipperDelivers` | `Spec => DeliverySpec`: the agent implements `LineDelivery` |

**Services** (`DeskProofs`, `PlatformProofs`, `ConditionProofs`), for every number of objects,
requests at once, changes and restarts, and for conditions of any length:

| Theorem | States | Invariant |
|---|---|---|
| `ClosedCasesAreSettled` | `CasesSpec => []ClosedIsSettled` | `CasesInv` |
| `ClosedCasesAreFrozen` | `CasesSpec => ClosedIsFrozen`, an action property | `CasesInv` |
| `HuntRunsAreKept` | `HuntsSpec => []RunsAreKept` | `HuntsInv` |
| `RemovedChannelsStayRemoved` | `ChannelsSpec => []RemovedStaysRemoved` | `ChannelsInv` |
| `ChannelsStayTyped` | `ChannelsSpec => []ChannelsTypeOK` | `ChannelsInv` |
| `RequestsAreWhole` | `AssistantSpec => []RequestIsWhole` | `AssistantInv` |
| `ApprovedCallsRunOnce` | `AssistantSpec => []CallRunsOnce` | `AssistantInv` |
| `WorkflowRunsAreTruthful` | `WorkflowsSpec => []RunIsTruthful` | `WorkflowsInv` |
| `CustomRulesRunAsStored` | `CustomSpec => []RulesRunAsStored` | `CustomInv` |
| `ActivityFeedIsTrue` | `ActivitySpec => []FeedIsTrue` | `ActivityInv` |
| `LatestViewWins` | `ConsoleSpec => []LatestWins` | `ConsoleInv` |
| `DiagnosisIsReported` | `NetCoopSpec => []ReportIsDiagnosis` | `NetCoopInv` |
| `DeskStaysTyped` | `Spec => []DeskTypeOK` of `MCDesk` | `CaseTypesInv`, `HuntsInv`, `ChannelsInv` |
| `AllBurstsAreRaised` | `DetectionSpec => []BurstsAreRaised` | `BurstsInv` |
| `TriageQueueIsDrained` | `IntakeSpec => []QueueIsDrained` | `QueueInv` |
| `SuppressionHitsAreClosures` | `IntakeSpec => []HitsAreClosures` | `HitsInv` |
| `AdminsRemain` | `AccountsSpec => []AdminRemains` | `AccountsInv` |
| `ChangesSignOut` | `AccountsSpec => ChangeSignsOut`, an action property | `AccountsInv` |
| `TokensStayWithinRole` | `OAuthSpec => []TokenWithinRole` | `GrantsInv` |
| `CodesAreTradedOnce` | `OAuthSpec => []CodeTradedOnce` | `GrantsInv`, `TradesInv` |
| `CopiesSurvive` | `IntelFeedsSpec => CopySurvives`, an action property | `FeedsInv` |
| `RestartsKeepSaved` | `StoreFileSpec => []RestartKeepsSaved` | `StoreFileInv` |
| `ConditionsMeanWhatTheyCompileTo` | `Selections \cap Operators = {} => (ConditionsSpec => []ConditionIsMeant)` | none: every text is what it means |

**Assumptions.** Those the modules declare, and TLC evaluates on its instances; nothing
else is taken for granted. They say of what kind a configuration value is (`ModeAssumption`,
`ResponseAssumption`, `ShippingAssumption`, `StoreFileAssumption`, `HuntsAssumption`), that
`None` and other marks are no ids (`AccountsAssumption`, `ChannelsAssumption`,
`ConsoleAssumption`, `CustomRulesAssumption`, `IntelFeedsAssumption`), that internal
addresses are addresses, that every alert has an attacker and a host, that "admin" is a
role and roles that respond are roles (`OAuthAssumption`), that a workflow has from one to
twenty steps (`WorkflowsAssumption`, the check of `validateWorkflow`), and that somebody
polls (`ActivityAssumption`). Where a number of things is counted the things are finitely
many: the lines of a batch (`CustomRulesAssumption`), the tools (`AssistantAssumption`), the
alerts that ever arrive (`IntakeAssumption`), the devices (`NetCoopAssumption`). Of conditions,
that private selections and those a pattern matches are selections and that no selection is
called what stands for the end of the text (`ConditionsAssumption`); their theorem has one
hypothesis more, that no selection is called like an operator (`and`, `or`, `not`, a
parenthesis): a selection named `not` would be read as the operator by the parser
and as either by the grammar.

**Argument for containment.** None of the safety properties is inductive: what `finish()` writes
depends on a read-back made steps before. `IInv` adds what a handler's locals still
tell about the store at each pc (`FrameOK`) and what records tell about each other
(`StoreOK`): a handler that has seen ENFORCED holds a rule confirmed on the address it
asked about; a run's actions and read-backs are on parties of its alert; a decision
that reached "approve" holds a rule that does what was asked; the investigations a
pull still visits are answered by a confirmed rule. These facts last because the store
only *grows* in the sense they need (`Grows` in `InvariantLemmas`): a stored rule keeps
address and action, a confirmed rule stays confirmed, an investigation keeps its alert,
a request keeps what it asks. `FrameStable` says that `FrameOK` of every other handler
survives such a step, and `HandlerStep`, `EnvironmentStep` and `LocalStep` reduce a step
to three obligations: the store grows, `StoreOK'`, and `FrameOK` of the one frame that
moved. `HandlerProofs` has one lemma for each action of the tools, rules, approvals, runs,
analysts and feed, and `ResponseProofs` puts them together.

`InvestigationsAreRunning` needs a second invariant on top, `RunInv`: an alert has at most
one run, a run that only has its audit line left to write has closed its alert, and an
idle handler runs nothing. `FrameStep` says what most steps have in common
(they start no run, put no alert under investigation, and end a run only when its alert
is closed); `StartRun` and `MarkInvestigating` are the two that do not, and have proofs of
their own.

*The refinement.* `Containment` tells the story of an alert, a rule or a request without the
handlers: an alert is taken by one run at a time, gets a verdict from the run that took it, from
an analyst or from a confirmation, and reads CONTAINED only on the proof of a rule in force on
one of its parties (on any rule in force, with a model); a rule keeps what it does, never blocks
an internal address and is never added twice by a lone writer; a request is settled as approved
only when a rule does what it asks. `Promise` maps its variables to the store and to the set
`running`, and its constants `OneWriter`, `OneSettles` and `Alone` to the number of handlers
there are, so that the theorem gives more the fewer overlap. Each action of `Response` is
shown to be one such step or a stutter. What that needs beyond `IInv`, `RunInv` and `SerialInv`
is `StatusInv`: requests about to lapse exist, a status about to be set is one of three, and with
one handler for everything an alert about to be contained is CONFIRMED and none whose status
is about to be set is under investigation.

*One handler at a time.* The five further promises rest on a third, `SerialInv`. Its parts
say, each under the hypothesis that it needs, what a handler that is alone still knows at
each pc: one about to store a rule, that no active rule does the same (`WriterOK`); one about
to write a read-back, that the rule is still on (`ReaderOK`); one that decides, that the
request is still PENDING (`DeciderOK`); one that executes in manual mode, that it is a
decision, and that the request it answers is settled as it goes on (`ManualOK`). `RuleWrites`
and `RequestWrites` say which rule and which request a step writes, as its pc tells: one at
most, and those outside the hypothesis only take rules away, mark them pulled, or let
requests lapse. So what the lone handler knows survives a step of the others, and what it writes keeps
the records whole. The hypotheses are as weak as the code allows: the runs that expect a
violation (§5) break the first and the last with two handlers, and a rule added twice or a
request made twice at once breaks the others. The serial runs of
section 3 satisfy them. Before it was proved TLC looked for violations of `SerialInv` on
instances of each kind (one handler for all; one engine, one console and a firewall; manual mode
and confidence mode, with failures), four of which it finished and three it followed for
several million states.

**Argument for the agent.** `ShippingInv` follows a line from the file to the console.
`PostsTheFront`: a flush in flight posts the front of a queue, and of the queues it has been
at those it is done with are empty, so that the answer cuts off what was posted; this holds until `stop()` meets a
tick at work (`overlap`), where two flushes cut the same batch. `Accounted`: while all
goes well a line read is in memory, at the console or cut by a full queue; with it
`stop()`, which returns after a flush that found every queue empty, leaves nothing behind.
`KeepsTheText`: the text kept of an unfinished line is that line's as long as the file only
grows. The refinement maps custody to what queues, the Windows pass and a flush hold
(`Held`), and has one step for each action: a read takes lines into custody, an answer delivers
or forfeits them, a capped queue, a rejected batch and a crash forfeit on record.

*Order.* That a delivery never falls behind an earlier one is not inductive: a restart goes
back to a position saved before the last lines were sent. `OrderInv` therefore speaks of every
position a read of a source may start from: the one in memory, the one about to be saved and
the one on file (`Positions`), and of the line each of them leads to (`NextLine`). What waits in a queue is
ascending and before the next line of this process (`Waits`), and no line at the console is
ahead of it unless it has passed, that is, was settled before or left out by a read.
A read from any of the positions (`Resumes`) can return
only lines that have passed, that wait in front of the line they would be behind, or that no read has
taken yet. `Numbered` ties lines to their places in a file across rotations and truncations,
and says that a tail which has yet to notice a truncation has either nothing to go back to
or read nothing of what the file holds now. Taking settled lines off the front
of a queue (an answer, a full queue), putting lines read behind it, moving the file forward
and going back to a saved position each have a lemma on sequences (`BeheadKeeps`, `DeliverKeeps`,
`AppendKeeps`, `AppendOthers`), one on the lines of a source (`OrderedFront`, `OrderedRead`,
`OrderedBehind`, `OrderedLater`) and one for each action. The proof brought to light that
a truncation the tail cannot see makes a read pass over lines (§5), which is why the property
exempts those: a restart from an older position reads and delivers them late.

**Argument for the services.** The promise is about stored records, and what breaks it is
a write by a request that read them earlier. Each invariant says what a request in flight
still knows:

* `CasesInv`: while a case is not crowded one request works on it at most (`OneAtWork`), so
  what that request has checked, that the case is open and, before it closes it, that no
  task is, still holds when it writes. Every other request is on another case, and the
  tasks, alerts and indicators a request touches are those of its own case.
* `HuntsInv`: what a run that was compared leaves unmarked, stored runs of its hunt have
  found, and runs of a saved hunt are only added (`Compared`); a lone request knows the counter,
  which is one behind between the two writes (`Counted`).
* `ChannelsInv`: of the requests that hold a list to save there is one, unless the list is
  crowded, and the ids it holds are those stored and its own (`OneSaves`).
* `AssistantInv`: a conversation, stored or in a request's hands, is `Whole`: but for the
  pending calls every call has its answer and every answer its call, with nothing but
  answers between. So the part of it the model is shown is whole, wherever it was cut
  (`ContextIsWhole`). A request that is alone knows from its conversation what ran (`AloneOK`).
* `WorkflowsInv`: the states of a run's steps up to the one it is at tell which status it will end with, plan of
  any length.
* `CustomInv`: a request alone on the collection knows it (`OneOnSet`), so the cache is the
  collection's until a write, after which it is dropped; a batch alone on a rule has read its
  count as it is (`OneCounts`); an id belongs to one creation.
* `ActivityInv`: an answer under way holds every row from where the page was to the last it
  has (`PollOK`), so advancing to that row skips none; what the page calls ended it has read the end
  of; a pop-up leaves a mark; and somebody always has the next poll in hand (`Polling`).
* `ConsoleInv`: one route renders at a time and it is the newest, so the clean-up that is
  pending is its own (`NewestOwns`); what the palette asked last is what was typed last.
* `NetCoopInv`: every phase has its stages (`Stage`). While the correlation agent awaits
  answers, the queue holds one message for each owner asked, and what is doubted is the
  answers it has and those the queue carries (`Doubting`). After that every
  result in the log is that diagnosis, and the reporting agent has reported it or thrown on it
  (`Tried`); what the orchestrator forwards it can then only report, as it throws once at most.
* `CaseTypesInv`: what a request on a case carries fits the record it will be stored in
  (`CarriesOK`); the other services' invariants contain their types.
* `BurstsInv`: an alert raised or on its way rests on a burst that is stored (`Founded`), and every
  burst of the stored lines is `Settled`: it is overlooked, an alert that is raised reports it, or it is
  `Due`, as a batch with a failure of it has yet to read the client's lines or has found it.
  What a read finds is a lemma on the loop over the failures (`SlidingFinds`): where it stands
  at the last failure of a window that is full it counts at least those of the window, and what it
  counts lies within one. A window that is in sight is whole among the newest lines, so judging
  these finds it (`NewestSees`).
* `QueueInv`: a waiting alert and a drainer at rest exclude each other, as the step that
  queues starts the drainer and the step that ends it found nothing.
* `HitsInv`: a rule has counted a set of alerts it closed; what else it closed is held by
  requests that have yet to count it, no alert by two of them (`HitsCounted`).
* `AccountsInv`: while a user is not crowded, the version a change will write is one more
  than the stored one and no cookie names a later version than the stored one
  (`OneChange`); while no two demotions have met, a demotion that has passed its count
  leaves another administrator (`LeavesAnAdmin`), which additions and other changes keep.
* `GrantsInv`: a code or token names a version its user has had; if it is the present one,
  the user is unchanged since and the role allows what it carries (`GrantOK`), whatever
  cached role `approve` went by. A token under way (`JobOK`) is as good as one handed out.
* `TradesInv`: a code that is being or has been traded is `Spent`: burnt, or expired and
  never signed again. A second trade needs a code that is not.
* `FeedsInv`: one download is under way at a time, and if there is a copy the download holds
  one to give back.
* `StoreFileInv`: the file in place is whole and holds what was saved, what is about to be
  renamed is the whole database, and what an orderly stop owes is in the database until
  it is on file.

*Conditions.* `ConditionIsMeant` is a fact about recursive functions and needs no invariant.
Three steps lead to it. First, both `Descend` and `Meanings` are what their definitions say
(`RecursionEnds`, `RecursionAgrees`): a definition whose calls go down in rank has one
solution, which the finite approximations of it agree on; a call of the parser moves on in the text or
down to a tighter operator, a phrase is made of shorter or tighter phrases. Second, the parser joins operands from the left as it
meets them, and the grammar lets them be joined in any way: both give
the same set of events (`LeftIsRight`, `RightIsLeft`). Third, what the parser returns from a position is
a meaning of the tokens it took (`Sound`), and if the tokens up to a place where the
text can break have a meaning, the parser takes them and returns it (`Full`). Both go
down from the end of the text, by a least counterexample.

The least and greatest elements these proofs need (of row numbers, of tokens) come from the
order of the naturals being well founded (`LeastNatural` in `RequestLemmas`), not from
induction. Each section of the proof modules begins with the invariant it proves. TLC has confirmed every
one of these invariants on the instances of section 3 before it was
proved; the runs check the properties themselves.

**Only model-checked.** The liveness properties (`InvestigationEnds`,
`ConfirmedIsContained`, `StopEnds`, `FeedIsMirrored`) and everything about `ENABLED`, which are
beyond the prover.

**Only proved.** `DeskTypeOK` and `ChannelsTypeOK`, the types of what the services store: the
theorems cover every instance, so no run repeats them.

## 5. Where code and text disagree

Three runs are counterexamples; each checks one statement of the repository.

* `vDecisionIsFinal` (approvals.js:72): decide() checks PENDING, awaits the firewall and
  writes. Two analysts both succeed and the later overwrites the earlier: a request
  reads REJECTED while its rule is active.
* `vResent` (routes.js:653): an agent whose answer was lost sends its lines again, as it
  should; they are stored a second time and complete a window that starts earlier, whose
  alert has another id, so the same rule is raised twice for the same lines. detect.js:56
  says it never is.
* `vOldKey` (feeds.js:151): a new key drops the copy of a keyed feed, but a download under
  way with the old one stores its result afterwards, and the load with the new key joins
  it. abusech.js:261 says the next lookup uses the new key.

Four more statements of comments are properties of `Response` that the code does not keep,
without a run of their own. Each is violated in the instance of the run named, changed as
said:

* `EngineOwnsInvestigating` ("An alert under investigation belongs to the engine", casework.js:104):
  `mCFeed` with one engine and one console that changes statuses. A status change that read
  the alert before a run started writes over INVESTIGATING while the run is at work.
* `ConfirmedIsContained` with concurrent handlers (investigator.js:260): `mCSerialFeed` with a
  firewall of its own, and without isolation. A pull between the insertion of a rule and the moment finish()
  links it marks the rule ENFORCED but finds no investigation (routes.js:673); no later pull
  sees the rule PENDING, and the alert stays CONFIRMED.
* `BlockedAttackerIsContained` (the same comment): `mCSerialFeed` as it is. A run handed an
  existing rule does not link it (investigator.js:359), so the pull that enforces it contains
  only the alert it was made for.
* `ContainedOnItsOwnAddress` (README.md:36): `mCModel` with two rules and `other`, and without failures. A
  model that reads back an unrelated address in force has its alert marked CONTAINED
  though its own rule failed (investigator.js:348); `ContainedWasConfirmed`, which holds, asks
  only for some confirmed rule when a model is configured.

Weaknesses the properties name as their exceptions, each visible in the models when the
exception is struck out:

* two concurrent proposals open two requests (approvals.js:41), two concurrent executions
  insert two active rules (tools.js:113); a failure between the execution
  of a rule and the decision leaves it active behind a PENDING request (approvals.js:94); a lapsed request can be approved until the sweep
  (approvals.js:74); reflect() writes a timeline whole from a copy (approvals.js:115); a
  proposal that joins another alert's request is reflected only in that alert's
  investigation (approvals.js:42); verify() applies a rule again when no `remote_id` is
  stored (enforce/index.js:128); an override between a run's insert and its link leaves the
  rule in force; after a restart an alert stays INVESTIGATING until it is investigated again
  (investigator.js:32), which is why `InvestigatingIsRunning` speaks of `faults = 0`;
* a task picked up while its case is being closed leaves a closed case with an open task, or
  opens it again (cases.js:189, 263); hunts and workflows miss a run in their counter when two
  overlap (cases.js:503, workbench.js:345);
* two administrators can demote each other between count and write, and two first-time
  setups both succeed (app.js:222, 134); a code can be traded again after a restart, or at
  another instance (oauth.js:63); two concurrent confirmations, or one after a crash, run the
  same calls again (workbench.js:546); two writers of the channel list lose one change;
* the agent's stop() flushes beside a tick's flush: both post the same batch and both cut a
  batch off the queue, so that lines never sent are gone (aegis-agent.js:219); lines in
  memory are gone in a crash, as their positions are saved first (192); a file that was
  truncated and has grown past the position again before the next tick looks as it did
  (180), so the read goes on in its middle, and the lines before are passed over although
  the header says truncated files are picked up from the start (16); and a pass whose
  command failed leaves the firewall half rewritten, which a later pass repairs only if
  the list differs from the last one that succeeded (483);
* a custom rule listed before an edit is invalidated is cached after it for up to thirty
  seconds (customrules.js:66-74), a switch saved beside an edit restores the source the edit
  replaced (workbench.js:760), and two batches that count the same rule lose hits
  (customrules.js:92);
* a burst spread over posts is seen as one (routes.js:598) only while it is among the newest 1,000 lines
  of its client (609; README.md:158 says so), its client among the first 100 of the batch (604) and no call of detection
  fails, which the host is not told (654): `evaluate` asks for "every stored line" (detect.js:91)
  and does not get it. It reports one window at a time, the first within the horizon, so that
  a later burst within the horizon raises no alert of its own; and its `now` is the latest
  line of the batch, so that a burst older than the horizon of a later line in the same batch is
  not judged at all;
* a condition that names what every JavaScript object inherits, such as `constructor`,
  compiles to a matcher of every event (sigma.js:180), where an undefined selection should be
  refused (sigma.js:11-14);
* `route()` does not check its token after `await mod.render()` nor when that throws
  (app.js:94-97): a view that was left while it rendered replaces the clean-up of the newer
  one, or draws its error over it;
* more rows than one answer holds between two polls are skipped for good, so that a call can
  stay "running" in the activity feed (mcp-live.js:140).

Smaller disagreements, seen while modelling and without a run: test/http.js:324 calls a closed case
read-only and cases.js:55 asks to reopen it first, but a PATCH replaces its severity, techniques and every other
field (cases.js:147); mcp-live.js:52 promises a second
pop-up when a call failed or changed data, but line 58 marks such a call as told when it is
first seen running, so its outcome never pops up; line 154 says the history loads quietly, but
it pops up if the first load fails or the drawer is opened before it answers; the warning of
customrules.js:44 about `timeframe` cannot appear, as sigma.js:211 has refused the rule.

## 6. What is not modelled

*Containment:* a change of `ENFORCEMENT_MODE` across a restart, the model passing its own
`investigation_id` or expiry to a tool, verdict strings outside the four (they take the
path of RECON_ONLY), and all text: rationales, timelines beyond "still awaiting approval",
notifications.

*Services:* fields nothing else depends on (titles, tags, owners, notes, assignment,
evidence text, payloads); the edit of a hunt or a suppression; API keys and rate
limits; documents, feedback, dry runs of rules and the Jira form of the workbench,
which are rows without an interaction; the detections other than log-ins, which differ in
what they match; what a threat-intelligence answer means. The Supabase driver makes the
same calls as the local store; each store call is atomic here, as it is in memory.

*Detection:* several hosts (the lines of another host only take up room, as those of kind `"other"`
do), lines without a client, disabled rules, and the cap on stored logs with its retention.

*Console and rules:* the limit of 500 rules that run (customrules.js:72); conditions given as a list,
and the refusal of `|` (sigma.js:139-144); the views and their forms, toasts and polling of the status bar; the
connector sign-ins in the activity feed; the matching of fields against patterns, the bundle of
SigmaHQ with its download, and the hunt queries, which are text formats.

*Components left out,* with the reason in `PROJECT.json`: evidence analysis consists of pure
functions over text, whose correctness lies in the formats a model would abstract away; the
clients of model providers, migrations and sample data keep no state the rest relies on.

The map covers about an eighth of the implementation's lines. A third of those lines are the
browser console and its style of rendering; most of the rest outside the map is text
handling: parsing of logs and rules, scores, reports, prompts and payloads.

## 7. Open

1. A second server instance with a `running` set of its own.
2. Rate limits and API keys; the scan and web detections.
