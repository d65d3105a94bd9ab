SPECIFICATION Spec
CONSTANTS
  Rules = {r1, r2}
  Approvals = {a1}
  Invs = {i1}
  Alerts = {al1}
  IPs = {ext, host}
  Internal = {host}
  Engine = {p1, p2}
  Console = {p1, p2}
  Firewall = {p1, p2}
  Timer = {p1, p2}
  ConsoleOps = {"approve", "status"}
  Mode = "feed"
  ApprovalMode = "confidence"
  AutoContain = TRUE
  IsolateOnCompromise = FALSE
  TimeBoxed = TRUE
  Llm = FALSE
  Failing = FALSE
  MaxFaults = 0
  ext = ext
  host = host
  other = other
  al1 = al1
  al2 = al2
  Attacker <- MC_Attacker
  Host <- MC_Host
  None = None
SYMMETRY MC_Symmetry
INVARIANTS TypeOK ContainedWasConfirmed ApprovedHasRule
CHECK_DEADLOCK FALSE
