SPECIFICATION FairSpec
CONSTANTS
  Rules = {r1, r2}
  Approvals = {a1}
  Invs = {i1}
  Alerts = {al1}
  IPs = {ext, host}
  Internal = {host}
  Engine = {e}
  Console = {c}
  Firewall = {}
  Timer = {c}
  ConsoleOps = {"approve", "reject", "probe", "status"}
  Mode = "webhook"
  ApprovalMode = "confidence"
  AutoContain = TRUE
  IsolateOnCompromise = FALSE
  TimeBoxed = FALSE
  Llm = FALSE
  Failing = TRUE
  MaxFaults = 0
  ext = ext
  host = host
  other = other
  al1 = al1
  al2 = al2
  Attacker <- MC_Attacker
  Host <- MC_Host
  None = None
INVARIANTS InvestigatingIsRunning
PROPERTIES DecisionIsFinal InvestigationEnds
CHECK_DEADLOCK FALSE
