SPECIFICATION Spec
CONSTANTS
  Tasks = {t1}
  OriginTasks = {t1}
  SilentTasks = {}
  NoTask = NoTask
  Loop = Loop
  Clients = {c1}
  CliClients = {c1}
  Requests = {"run_now", "pause", "edit", "resume", "delete", "delete_session"}
  AgentResults = {"succeeded"}
  MaxDue = 1
  Lease = 2
  Timeout = 1
  Grace = 0
  Period = 1
  MaxClaims = 2
  MaxEnds = 0
  StoreFaults = FALSE
INVARIANTS Exclusive
PROPERTIES CoveredEndStays
