SPECIFICATION Spec
CONSTANTS
  c1 = c1  c2 = c2
  Clients = {c1}
  NoClient = NoClient
  MaxReports = 1
  MaxFailures = 0
  Stops = FALSE
INVARIANTS DisconnectFlushes
CHECK_DEADLOCK FALSE
