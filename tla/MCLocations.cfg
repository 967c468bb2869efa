SPECIFICATION FairSpec
CONSTANTS
  c1 = c1  c2 = c2
  Clients = {c1}
  NoClient = NoClient
  MaxReports = 2
  MaxFailures = 1
  Stops = TRUE
INVARIANTS SyncIsFresh ExitLosesLeaversOnly
PROPERTIES SavedInOrder LocationIsSaved
CHECK_DEADLOCK FALSE
