SPECIFICATION Spec
CONSTANTS
  Rules = {r1, r2}
  Approvals = {a1}
  Invs = {i1}
  Alerts = {al1}
  IPs = {ext, host, other}
  Internal = {host}
  Engine = {p}
  Console = {p}
  Firewall = {}
  Timer = {p}
  ConsoleOps = {"add", "toggle", "recheck", "probe", "approve", "override"}
  Mode = "cloudflare"
  ApprovalMode = "confidence"
  AutoContain = TRUE
  IsolateOnCompromise = FALSE
  TimeBoxed = TRUE
  Llm = FALSE
  Failing = FALSE
  MaxFaults = 0
  ext = ext
  host = host
  other = other
  al1 = al1
  al2 = al2
  Attacker <- MC_Attacker
  Host <- MC_Host
  None = None
SYMMETRY MC_Symmetry
INVARIANTS LinkedRuleIsRelevant RulesAgree
PROPERTIES OverrideReconciles
CHECK_DEADLOCK FALSE
