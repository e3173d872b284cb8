SPECIFICATION FairSpec
CONSTANTS
  Tasks = {t1, t2}
  OriginTasks = {}
  SilentTasks = {t1, t2}
  NoTask = NoTask
  Loop = Loop
  Clients = {c1}
  CliClients = {c1}
  Requests = {"run_now"}
  AgentResults = {"succeeded"}
  MaxDue = 2
  Lease = 2
  Timeout = 1
  Grace = 1
  Period = 1
  MaxClaims = 2
  MaxEnds = 0
  StoreFaults = FALSE
PROPERTIES EndedStays
