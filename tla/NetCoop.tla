------------------------------- MODULE NetCoop -------------------------------
(***************************************************************************)
(* A diagnosis of NetCoop: diagnose of src/src/netcoop/orchestrator.js, the *)
(* message bus and the agents of src/src/netcoop/agents.js.  The bus keeps  *)
(* a log and a queue; run() takes the queue's messages one by one, gives    *)
(* each to the agent it is for and queues what the agent answers, until     *)
(* nothing waits.  The orchestrator sends one phase's tasks, lets the bus   *)
(* run, and goes on to the next phase.  An agent may throw on any message.  *)
(***************************************************************************)
EXTENDS Integers, FiniteSets, Sequences, SequencesExt

CONSTANTS
  Devices,        \* devices of the telemetry
  Uplinks,        \* devices that have others downstream
  MaxCrashes      \* bound on the messages an agent throws on

ASSUME NetCoopAssumption == IsFiniteSet(Devices) /\ Uplinks \subseteq Devices /\ MaxCrashes \in Nat

VARIABLES
  phase,      \* what diagnose has reached
  log,        \* bus.log; its limit, MAX_MESSAGES, is more than MAX_DEVICES devices can fill
  queue,      \* bus.queue
  failures,   \* bus.failures: the messages an agent threw on
  st,         \* the correlation agent's: the readings seen, the owners whose answer is pending, the answers
  report      \* what diagnose returns

netcoopVars == <<phase, log, queue, failures, st, report>>

Analysts == {"performance_agent", "infrastructure_agent"}
Owners == Analysts \cup {"connectivity_agent"}

NoReport == "none"
NoState == [seen |-> {}, pending |-> {}, answers |-> {}]
Message(from, to, type, about) == [from |-> from, to |-> to, type |-> type, about |-> about]

\* The readings reported so far, each the agent that owns it and its device.
Readings == {<<m.from, m.about>> : m \in {x \in ToSet(log) : x.type = "finding"}}

\* send logs a message and queues it.
Send(msgs) ==
  /\ log' = log \o msgs
  /\ queue' = queue \o msgs

\* run sends what handling the first message brought.
Answer(msgs) ==
  /\ log' = log \o msgs
  /\ queue' = Tail(queue) \o msgs

-----------------------------------------------------------------------------
\* The orchestrator's phases, each once the bus has nothing to deliver.
Phase(from, to, msgs) ==
  /\ phase = from /\ queue = <<>>
  /\ phase' = to
  /\ Send(msgs)
  /\ UNCHANGED <<failures, st, report>>

Task(to, refs) == Message("orchestrator", to, "task", refs)

Analyse == Phase("start", "analysis", <<Task("performance_agent", {}), Task("infrastructure_agent", {})>>)
Connect == Phase("analysis", "topology", <<Task("connectivity_agent", Readings)>>)
Correlate == Phase("topology", "correlation", <<Task("correlation_agent", Readings)>>)

\* The last result of the correlation agent is forwarded to the reporting agent, which has had it once.
ResultsOf(agent) == {i \in DOMAIN log : log[i].from = agent /\ log[i].type = "result"}
Report ==
  LET found == ResultsOf("correlation_agent") IN
  Phase("correlation", "reporting",
        IF found = {} THEN <<Task("reporting_agent", Readings)>>
        ELSE <<Message("orchestrator", "reporting_agent", "result", log[Max(found)].about)>>)

\* The last report counts; without one the report is made up of nothing. The language model may add to
\* it and logs that.
Collect ==
  LET reports == ResultsOf("reporting_agent") IN
  /\ phase = "reporting" /\ queue = <<>>
  /\ phase' = "done"
  /\ report' = IF reports = {} THEN [status |-> "complete", basis |-> {}, answers |-> {}] ELSE log[Max(reports)].about
  /\ \/ UNCHANGED log
     \/ /\ reports # {}
        /\ log' = Append(log, Message("groq_llm_agent", "reporting_agent", "result", NoReport))
  /\ UNCHANGED <<queue, failures, st>>

-----------------------------------------------------------------------------
\* What an agent answers to the message it handles, and what the correlation agent keeps then.
Finding(agent, d) == Message(agent, "orchestrator", "finding", d)
Finished(agent) == Message(agent, "orchestrator", "result", "analysis_complete")

\* An analyst reports the devices it has readings of.
AnalystTask(m) ==
  \E D \in SUBSET Devices :
    /\ Answer(SetToSeq({Finding(m.to, d) : d \in D}) \o <<Finished(m.to)>>)
    /\ UNCHANGED st

ConnectivityTask(m) ==
  /\ Answer(SetToSeq({Finding(m.to, d) : d \in Uplinks}) \o <<Finding(m.to, "scope"), Finished(m.to)>>)
  /\ UNCHANGED st

\* An owner answers for the readings that were doubted.
Challenged(m) ==
  /\ Answer(<<Message(m.to, "correlation_agent", "challenge_response", m.about)>>)
  /\ UNCHANGED st

\* finish: the diagnosis goes to the reporting agent, which answers it with the report.
Diagnosis(basis, answers) ==
  Message("correlation_agent", "reporting_agent", "result",
          [status |-> "diagnosed", basis |-> basis, answers |-> answers])

\* start ranks the causes, and doubts some of the readings when two are close: their owners are asked.
CorrelationTask(m) ==
  LET seen == {r \in m.about : r[2] # "scope"} IN
  \E doubted \in SUBSET seen :
    LET owners == {r[1] : r \in doubted}
        challenges == {Message(m.to, a, "challenge", {r \in doubted : r[1] = a}) : a \in owners} IN
    /\ \E msgs \in SetToSeqs(challenges) : Answer(IF doubted = {} THEN <<Diagnosis(seen, {})>> ELSE msgs)
    /\ st' = [seen |-> seen, pending |-> owners, answers |-> {}]

\* Seeded fault: each answer takes the place of those before it.
Response_KeepsLast(m) ==
  LET pending == st.pending \ {m.from} IN
  /\ Answer(IF pending # {} THEN <<>> ELSE <<Diagnosis(st.seen, m.about)>>)
  /\ st' = [st EXCEPT !.pending = pending, !.answers = m.about]

\* collect waits for all of them.
Response(m) ==
  LET pending == st.pending \ {m.from}
      answers == st.answers \cup m.about IN
  /\ Answer(IF pending # {} THEN <<>> ELSE <<Diagnosis(st.seen, answers)>>)
  /\ st' = [st EXCEPT !.pending = pending, !.answers = answers]

\* The reporting agent writes the report of a diagnosis, and nothing without one.
ReportResult(m) ==
  /\ Answer(<<Message(m.to, "orchestrator", "result", m.about)>>)
  /\ UNCHANGED st

Ignored == Answer(<<>>) /\ UNCHANGED st

Handle(m) ==
  \/ m.type = "task" /\ m.to \in Analysts /\ AnalystTask(m)
  \/ m.type = "task" /\ m.to = "connectivity_agent" /\ ConnectivityTask(m)
  \/ m.type = "task" /\ m.to = "correlation_agent" /\ CorrelationTask(m)
  \/ m.type = "challenge" /\ Challenged(m)
  \/ m.type = "challenge_response" /\ Response(m)
  \/ m.type = "result" /\ m.to = "reporting_agent" /\ ReportResult(m)
  \/ m.type = "task" /\ m.to = "reporting_agent" /\ Ignored

\* The agent throws: that is recorded and told to the orchestrator, and the bus goes on.
Crash(m) ==
  /\ failures' = failures \cup {m}
  /\ Answer(<<Message(m.to, "orchestrator", "error", m.type)>>)
  /\ UNCHANGED st

\* One turn of run's loop; what is for the orchestrator goes to its inbox, which nothing reads.
RunBus ==
  /\ queue # <<>>
  /\ LET m == Head(queue) IN
     \/ m.to = "orchestrator" /\ Ignored /\ UNCHANGED failures
     \/ m.to # "orchestrator" /\ Handle(m) /\ UNCHANGED failures
     \/ m.to # "orchestrator" /\ Cardinality(failures) < MaxCrashes /\ Crash(m)
  /\ UNCHANGED <<phase, report>>

-----------------------------------------------------------------------------
NetCoopInit ==
  /\ phase = "start"
  /\ log = <<>> /\ queue = <<>> /\ failures = {}
  /\ st = NoState
  /\ report = NoReport

NetCoopNext == Analyse \/ Connect \/ Correlate \/ Report \/ Collect \/ RunBus

NetCoopSpec == NetCoopInit /\ [][NetCoopNext]_netcoopVars

-----------------------------------------------------------------------------
\* A diagnosis says what it rests on: when the only agents that failed are owners at their own task, which
\* then report less, and the reporting agent once at most, the report is a diagnosis made of every reading
\* that was reported, the scope aside, with an answer for every reading that was doubted (agents.js 276-290,
\* orchestrator.js 116-140).  The second copy of the diagnosis the orchestrator forwards makes up for the
\* crash of the reporting agent.
Survivable ==
  /\ \A m \in failures : m.to = "reporting_agent" \/ (m.type = "task" /\ m.to \in Owners)
  /\ Cardinality({m \in failures : m.to = "reporting_agent"}) =< 1

ReportIsDiagnosis ==
  phase = "done" /\ Survivable =>
    /\ report.status = "diagnosed"
    /\ report.basis = {r \in Readings : r[2] # "scope"}
    /\ report.answers = UNION {m.about : m \in {x \in ToSet(log) : x.type = "challenge"}}
=============================================================================
