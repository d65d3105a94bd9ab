SPECIFICATION Spec
CONSTANTS
  Rules = {r1}
  Approvals = {a1}
  Invs = {i1}
  Alerts = {al1}
  IPs = {ext, host}
  Internal = {host}
  Engine = {e}
  Console = {c}
  Firewall = {}
  Timer = {}
  ConsoleOps = {"approve"}
  Mode = "webhook"
  ApprovalMode = "confidence"
  AutoContain = FALSE
  IsolateOnCompromise = TRUE
  TimeBoxed = FALSE
  Llm = TRUE
  Failing = TRUE
  MaxFaults = 1
  ext = ext
  host = host
  other = other
  al1 = al1
  al2 = al2
  Attacker <- MC_Attacker
  Host <- MC_Host
  None = None
SYMMETRY MC_Symmetry
INVARIANTS NoInternalBlock
PROPERTY KeepsPromises
CHECK_DEADLOCK FALSE
