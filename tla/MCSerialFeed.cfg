SPECIFICATION FairSpec
CONSTANTS
  Rules = {r1, r2}
  Approvals = {a1}
  Invs = {i1, i2}
  Alerts = {al1, al2}
  IPs = {ext, host}
  Internal = {host}
  Engine = {p}
  Console = {p}
  Firewall = {p}
  Timer = {}
  ConsoleOps = {}
  Mode = "feed"
  ApprovalMode = "auto"
  AutoContain = TRUE
  IsolateOnCompromise = TRUE
  TimeBoxed = FALSE
  Llm = FALSE
  Failing = FALSE
  MaxFaults = 0
  ext = ext
  host = host
  other = other
  al1 = al1
  al2 = al2
  Attacker <- MC_Attacker
  Host <- MC_Host
  None = None
PROPERTIES ConfirmedIsContained
CHECK_DEADLOCK FALSE
