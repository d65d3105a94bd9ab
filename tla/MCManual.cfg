SPECIFICATION Spec
CONSTANTS
  Rules = {r1, r2}
  Approvals = {a1, a2}
  Invs = {i1}
  Alerts = {al1, al2}
  IPs = {ext, host}
  Internal = {host}
  Engine = {p}
  Console = {p}
  Firewall = {}
  Timer = {p}
  ConsoleOps = {"propose", "approve", "reject"}
  Mode = "webhook"
  ApprovalMode = "manual"
  AutoContain = TRUE
  IsolateOnCompromise = FALSE
  TimeBoxed = FALSE
  Llm = FALSE
  Failing = FALSE
  MaxFaults = 0
  ext = ext
  host = host
  other = other
  al1 = al1
  al2 = al2
  Attacker <- MC_Attacker
  Host <- MC_Host
  None = None
SYMMETRY MC_Symmetry
INVARIANTS RuleNeedsApproval OneOpenRequest
CHECK_DEADLOCK FALSE
