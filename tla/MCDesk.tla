------------------------------- MODULE MCDesk --------------------------------
(***************************************************************************)
(* Instances for TLC of what analysts work with: cases, hunts, notification *)
(* channels, the assistant, workflows, NetCoop, custom rules, the activity  *)
(* of assistants and the browser console.  These share no variable that     *)
(* changes, so each is checked on its own: "service" says which one a       *)
(* behaviour is about.                                                      *)
(***************************************************************************)
EXTENDS Cases, Hunts, Channels, Assistant, Workflows, NetCoop, Activity, Console, CustomRules

CONSTANT Services

VARIABLE service

casesOnly == <<cases, tasks, links, iocs, forced>>
huntsOnly == <<hunts, runs, lastRun>>
channelsOnly == <<channels, drawn, removed>>
assistantOnly == <<thread, screen, ran, restarts>>
workflowsOnly == <<workflows, execs>>
activityOnly == <<audit, page, poll, timers, popped, untold>>
rulesOnly == <<rules, compiled, used, fired>>
deskVars == <<casesOnly, huntsOnly, channelsOnly, assistantOnly, workflowsOnly, netcoopVars,
             activityOnly, consoleVars, rulesOnly, text, requestVars, service>>

\* One technique for every alert.
MC_TechniqueOf == [a \in Alerts |-> "T1110"]

\* It makes no difference which worker serves a request.
MC_Symmetry == Permutations(Workers)

\* A step that may fail, one that needs its output, and one that runs without; and one that must not fail.
Step(needs, op, continue) == [needs |-> needs, op |-> op, continue_on_error |-> continue]
MC_Plans == {<<Step(None, "empty", TRUE), Step(1, "nonempty", FALSE), Step(2, "empty", TRUE)>>,
             <<Step(None, "empty", FALSE), Step(1, "empty", TRUE)>>}

\* Two selections, one of them private, and patterns of both and of none.
MC_Patterns == [p \in {"*", "x*"} |-> IF p = "*" THEN {"sel", "_f"} ELSE {}]

\* Two rules that compile and one that does not; a line both selections match, and one only the first does.
MC_Sources == [cond : {<<"sel", "and", "not", "_f">>, <<"_f">>, <<"sel", "or">>}, target : {"web"}]
MC_Lines == {[satisfies |-> {"sel"}, targets |-> {"web"}], [satisfies |-> {"sel", "_f"}, targets |-> {"web"}]}

Init ==
  /\ RequestsInit
  /\ CasesInit /\ HuntsInit /\ ChannelsInit /\ AssistantInit /\ WorkflowsInit /\ NetCoopInit
  /\ ActivityInit /\ ConsoleInit /\ CustomInit /\ ConditionsInit
  /\ service \in Services
  \* the address at the start matters to the console alone
  /\ service # "console" => hash = CHOOSE v \in Views : TRUE

\* What belongs to another service stays as it is.
Still(s, vs) == service = s \/ (service # s /\ UNCHANGED vs)

Next ==
  /\ UNCHANGED service
  /\ \/ service = "cases" /\ CasesNext
     \/ service = "hunts" /\ HuntsNext
     \/ service = "channels" /\ ChannelsNext
     \/ service = "assistant" /\ AssistantNext
     \/ service = "workflows" /\ WorkflowsNext
     \/ service = "activity" /\ ActivityNext
     \/ service = "rules" /\ CustomNext
     \/ service = "netcoop" /\ NetCoopNext /\ UNCHANGED requestVars
     \/ service = "console" /\ ConsoleNext /\ UNCHANGED requestVars
     \/ service = "editor" /\ TypeToken /\ UNCHANGED requestVars
  /\ Still("cases", casesOnly) /\ Still("hunts", huntsOnly) /\ Still("channels", channelsOnly)
  /\ Still("assistant", assistantOnly) /\ Still("workflows", workflowsOnly) /\ Still("netcoop", netcoopVars)
  /\ Still("activity", activityOnly) /\ Still("rules", rulesOnly)
  /\ Still("console", consoleVars) /\ Still("editor", text)

Spec == Init /\ [][Next]_deskVars

\* The types of what the services store (cases.js, casework.js), with the limit of channels.
DeskTypeOK == CasesTypeOK /\ HuntsTypeOK /\ ChannelsTypeOK
=============================================================================
