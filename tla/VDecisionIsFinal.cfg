SPECIFICATION Spec
CONSTANTS
  Rules = {r1, r2}
  Approvals = {a1}
  Invs = {i1}
  Alerts = {al1}
  IPs = {ext, host}
  Internal = {host}
  Engine = {e}
  Console = {c1, c2}
  Firewall = {}
  Timer = {}
  ConsoleOps = {"approve", "reject"}
  Mode = "feed"
  ApprovalMode = "confidence"
  AutoContain = TRUE
  IsolateOnCompromise = TRUE
  TimeBoxed = FALSE
  Llm = FALSE
  Failing = FALSE
  MaxFaults = 0
  ext = ext
  host = host
  other = other
  al1 = al1
  al2 = al2
  Attacker <- MC_Attacker
  Host <- MC_Host
  None = None
PROPERTIES DecisionIsFinal
CHECK_DEADLOCK FALSE
