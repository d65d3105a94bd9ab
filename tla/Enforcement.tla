----------------------------- MODULE Enforcement -----------------------------
(***************************************************************************)
(* The enforcement adapters of src/src/enforce/index.js: what applying,    *)
(* removing and reading back a containment rule can answer in each          *)
(* ENFORCEMENT_MODE.  The backend (a webhook receiver, Cloudflare) is the   *)
(* environment, so an answer is a choice from the set the adapter can       *)
(* return.  An answer keeps the status and whether the backend gave a       *)
(* remote_id, the only other field a later call depends on.                 *)
(***************************************************************************)

CONSTANT Mode              \* ENFORCEMENT_MODE after createEnforcer

ASSUME ModeAssumption == Mode \in {"record", "feed", "webhook", "cloudflare"}

Actions == {"BLOCK", "ISOLATE"}

Statuses == {"RECORDED", "PENDING", "ENFORCED", "FAILED", "REMOVED"}

Answers == [status : Statuses, remote : BOOLEAN]

Answer(status, remote) == [status |-> status, remote |-> remote]

\* apply(rule): the push made when a rule is created or switched back on.
ApplyAnswers(action) ==
  CASE Mode = "record"     -> {Answer("RECORDED", FALSE)}
    [] Mode = "feed"       -> {Answer("PENDING", FALSE)}
    [] Mode = "webhook"    -> {Answer("ENFORCED", FALSE), Answer("FAILED", FALSE)}
    [] Mode = "cloudflare" -> IF action = "BLOCK"
                              THEN {Answer("ENFORCED", TRUE), Answer("FAILED", FALSE)}
                              ELSE {Answer("RECORDED", FALSE)}

\* remove(rule), given the answer e stored with the rule.
RemoveAnswers(e) ==
  CASE Mode \in {"record", "feed"} -> {Answer("REMOVED", e.remote)}
    [] Mode = "webhook"    -> {Answer("REMOVED", FALSE), Answer("FAILED", FALSE)}
    [] Mode = "cloudflare" -> IF e.remote
                              THEN {Answer("REMOVED", TRUE), Answer("FAILED", TRUE)}
                              ELSE {Answer("REMOVED", FALSE)}

\* Whether verify(rule) returns the stored answer as it is, without asking the
\* backend; verify_defense_state then has nothing to write.
Echoes(action, e) ==
  \/ Mode \in {"record", "feed"}
  \/ Mode = "webhook" /\ e.status # "FAILED"
  \/ Mode = "cloudflare" /\ action # "BLOCK"

\* verify(rule): echo, a retried apply (no delivery yet, or a 404), or a read-back.
VerifyAnswers(action, e) ==
  CASE Echoes(action, e) -> {e}
    [] ~Echoes(action, e) /\ Mode = "cloudflare" /\ e.remote
         -> ApplyAnswers(action) \cup {Answer("ENFORCED", TRUE), Answer("FAILED", TRUE)}
    [] OTHER -> ApplyAnswers(action)

=============================================================================
