SPECIFICATION FairSpec
CONSTANTS
  Files = {f1}
  Channels = {c1}
  BATCH_LINES = 1
  MAX_QUEUE = 2
  MAX_READ = 4
  MaxEvents = 1
  Attempts = 2
  MaxLines = 3
  MaxFaults = 1
  Faulty = FALSE
  None = None
  Garbled = Garbled
  Addresses = {a4, a6, host, con}
  V6 = {a6}
  Host = {host}
  Console = {con}
  Passes = {p1}
  Platform = "linux"
  RuleSize = 1
  MaxPublished = 2
  MaxFailures = 1
  Nothing = Nothing
  Options <- MC_Options
INVARIANTS CleanExitLosesNothing
PROPERTIES DeliveredAsWritten DeliverySpec StopEnds FeedIsMirrored
CHECK_DEADLOCK FALSE
