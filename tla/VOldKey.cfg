SPECIFICATION Spec
CONSTANTS
  Services = {"feeds"}
  Workers = {w1, w2}
  None = None
  UserIds = {u1, u2}
  Roles = {"admin", "viewer"}
  MaxVersion = 2
  Responders = {"admin"}
  CodeIds = {c1}
  MaxTokens = 2
  MaxRestarts = 1
  Clients = {"c1", "c2"}
  Entries <- MC_Entries
  MaxTime = 3
  MaxLines = 2
  MaxBatch = 2
  MaxClients = 1
  Limit = 2
  Window = 1
  Horizon = 2
  Threshold = 2
  Arriving = {a1, a2}
  SuppIds = {s1}
  Covers <- MC_Covers
  Keys = {k1, k2}
  MaxSaves = 2
  MaxLoads = 3
  MaxChanges = 3
  MaxStarts = 3
  MaxFailures = 1
INVARIANTS CopyIsOfTheKey
CHECK_DEADLOCK FALSE
