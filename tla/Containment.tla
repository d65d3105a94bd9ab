---------------------------- MODULE Containment ------------------------------
(***************************************************************************)
(* What the containment part of the console promises to who looks at its    *)
(* alerts, rules and requests, whoever works on them and however they       *)
(* overlap: each step moves one alert, one rule or one request, as the      *)
(* lists below allow.  Three constants say how much one handler is alone,   *)
(* and so how much more can be promised.                                    *)
(***************************************************************************)
EXTENDS Naturals

CONSTANTS
  Alerts, Rules, Requests, Internal,
  Attacker, Host,  \* the two parties of an alert
  AnyProof,        \* a confirmed rule on any address counts as a proof
  OneWriter,       \* one handler at a time adds rules and requests
  OneSettles,      \* one handler at a time settles requests
  Alone            \* one handler at a time does anything

VARIABLES
  status,    \* of each alert
  working,   \* alerts a run works on
  losses,    \* how often runs were cut off without a trace
  state,     \* of each rule: "absent", "active" or "disabled"
  does,      \* what each rule does: an action and an address
  proven,    \* rules the backend has reported in force
  asked,     \* of each request: "absent", "PENDING" or how it was settled
  wants      \* what each request asks for: an action and an address

alertVars == <<status, working, losses>>
ruleVars == <<state, does, proven>>
askVars == <<asked, wants>>

Init ==
  /\ status = [al \in Alerts |-> "NEW"] /\ working = {} /\ losses = 0
  /\ state = [r \in Rules |-> "absent"] /\ proven = {}
  /\ asked = [a \in Requests |-> "absent"]

-----------------------------------------------------------------------------
(* Alerts. *)

Verdicts == {"CONFIRMED", "MITIGATED", "FALSE_POSITIVE", "CLOSED"}

\* The backend has confirmed a rule on a party of the alert.
Proof(al) == \E r \in proven : AnyProof \/ does[r].ip \in {Attacker[al], Host[al]}

\* One run at a time works on an alert, ...
Begin(al) ==
  /\ al \notin working
  /\ working' = working \cup {al}
  /\ UNCHANGED <<status, losses>>

\* ... says so, ...
Mark(al) ==
  /\ al \in working
  /\ status' = [status EXCEPT ![al] = "INVESTIGATING"]
  /\ UNCHANGED <<working, losses>>

\* ... and comes to a verdict,
Conclude(al) ==
  /\ al \in working
  /\ \E v \in Verdicts \cup (IF Proof(al) THEN {"CONTAINED"} ELSE {}) :
       status' = [status EXCEPT ![al] = v]
  /\ UNCHANGED <<working, losses>>

\* before it lets the alert go.
Finish(al) ==
  /\ al \in working /\ status[al] # "INVESTIGATING"
  /\ working' = working \ {al}
  /\ UNCHANGED <<status, losses>>

\* Or it fails and puts the alert back,
Reopen(al) ==
  /\ al \in working
  /\ working' = working \ {al}
  /\ status' = [status EXCEPT ![al] = "NEW"]
  /\ UNCHANGED losses

\* or is cut off.
Lose(S) ==
  /\ S \subseteq working
  /\ working' = working \ S
  /\ losses' = losses + 1
  /\ UNCHANGED status

\* A run's alert is left alone, at least by a handler that is.
Free(al) == Alone /\ losses = 0 => status[al] # "INVESTIGATING"

\* An analyst corrects a verdict, ...
Override(al) ==
  /\ Free(al)
  /\ \E v \in Verdicts \cup (IF Proof(al) THEN {"CONTAINED"} ELSE {}) :
       status' = [status EXCEPT ![al] = v]
  /\ UNCHANGED <<working, losses>>

\* ... or sets the status of some alerts.
Triage(S) ==
  /\ \A al \in S : Free(al)
  /\ \E v \in {"NEW", "CLOSED", "FALSE_POSITIVE"} :
       status' = [al \in Alerts |-> IF al \in S THEN v ELSE status[al]]
  /\ UNCHANGED <<working, losses>>

\* A confirmation comes in for a compromise.
Contain(al) ==
  /\ Proof(al) /\ (Alone => status[al] = "CONFIRMED")
  /\ status' = [status EXCEPT ![al] = "CONTAINED"]
  /\ UNCHANGED <<working, losses>>

AlertStep ==
  \/ \E al \in Alerts : \/ Begin(al) \/ Mark(al) \/ Conclude(al) \/ Finish(al) \/ Reopen(al)
                        \/ Override(al) \/ Contain(al)
  \/ \E S \in SUBSET Alerts : Lose(S) \/ Triage(S)

-----------------------------------------------------------------------------
(* Rules. *)

On(d) == {r \in Rules : state[r] = "active" /\ does[r] = d}

\* The backend may report the rule in force, in an answer to what is done to it.
Reports(r) == proven' \in {proven, proven \cup {r}}

\* A rule is added, never one that blocks an internal address, and none twice.
Add(r) ==
  /\ state[r] = "absent"
  /\ state' = [state EXCEPT ![r] = "active"]
  /\ \A s \in Rules \ {r} : does'[s] = does[s]
  /\ ~(does'[r].action = "BLOCK" /\ does'[r].ip \in Internal)
  /\ OneWriter => On(does'[r]) = {}
  /\ Reports(r)

\* A rule keeps what it does, ...
Enable(r) ==
  /\ state[r] # "absent" /\ (OneWriter => On(does[r]) = {})
  /\ state' = [state EXCEPT ![r] = "active"]
  /\ Reports(r)
  /\ UNCHANGED does

Disable(r) ==
  /\ state[r] # "absent"
  /\ state' = [state EXCEPT ![r] = "disabled"]
  /\ UNCHANGED <<does, proven>>

\* ... and is read back.
Confirm(r) ==
  /\ state[r] # "absent"
  /\ Reports(r)
  /\ UNCHANGED <<state, does>>

RuleStep == \E r \in Rules : Add(r) \/ Enable(r) \/ Disable(r) \/ Confirm(r)

-----------------------------------------------------------------------------
(* Requests. *)

\* A request is made, for what no open one asks for, ...
Ask(a) ==
  /\ asked[a] = "absent"
  /\ asked' = [asked EXCEPT ![a] = "PENDING"]
  /\ \A b \in Requests \ {a} : wants'[b] = wants[b]
  /\ OneWriter => \A b \in Requests : asked[b] = "PENDING" => wants[b] # wants'[a]

\* ... and is settled, approved only when a rule does what it asks for.
Settle(a) ==
  /\ asked[a] # "absent" /\ (OneSettles => asked[a] = "PENDING")
  /\ \E s \in {"REJECTED", "FAILED", "EXPIRED"} \cup
            (IF \E r \in Rules : state[r] # "absent" /\ does[r] = wants[a] THEN {"APPROVED"} ELSE {}) :
       asked' = [asked EXCEPT ![a] = s]
  /\ UNCHANGED wants

AskStep == \E a \in Requests : Ask(a) \/ Settle(a)

-----------------------------------------------------------------------------
Next ==
  \/ AlertStep /\ UNCHANGED <<ruleVars, askVars>>
  \/ RuleStep /\ UNCHANGED <<alertVars, askVars>>
  \/ AskStep /\ UNCHANGED <<alertVars, ruleVars>>

Spec == Init /\ [][Next]_<<alertVars, ruleVars, askVars>>
=============================================================================
