SPECIFICATION Spec
CONSTANTS
  Services = {"cases", "hunts", "channels", "assistant", "workflows", "netcoop", "activity", "console", "rules", "editor"}
  Workers = {w1, w2}
  None = None
  CaseIds = {c1}
  Tasks = {t1}
  Alerts = {a1}
  TechniqueOf <- MC_TechniqueOf
  Values = {v1}
  Playbook = 1
  Severest = 2
  HuntIds = {h1, h2}
  Findings = {f1}
  MaxRuns = 2
  ChannelIds = {n1, n2}
  EVENTS = {"alert", "approval"}
  Patchable = {"alert"}
  MAX_CHANNELS = 1
  Reads = {r1}
  Writes = {x1}
  MAX_ROUNDS = 2
  KEEP = 3
  MaxMessages = 4
  MaxRestarts = 1
  WorkflowIds = {wf1}
  Plans <- MC_Plans
  MaxExecs = 2
  Devices = {d1, d2}
  Uplinks = {d1}
  MaxCrashes = 1
  Calls = {k1, k2}
  WriteCalls = {k1}
  Polls = {p1, p2}
  LIMIT = 2
  MAX_CALLS = 1
  KEEP_CALLS = 1
  Views = {view1, view2}
  Cleaning = {view1}
  MaxRoutes = 3
  MaxQueries = 2
  Selections = {"sel", "_f"}
  Private = {"_f"}
  Patterns <- MC_Patterns
  Inherited = {"constructor"}
  MaxTokens = 7
  RuleIds = {cr1}
  Sources <- MC_Sources
  Lines <- MC_Lines
  MaxHits = 3
SYMMETRY MC_Symmetry
INVARIANTS ClosedIsSettled RunsAreKept RemovedStaysRemoved RequestIsWhole CallRunsOnce RunIsTruthful ReportIsDiagnosis FeedIsTrue LatestWins ConditionIsMeant RulesRunAsStored
PROPERTIES ClosedIsFrozen
CHECK_DEADLOCK FALSE
