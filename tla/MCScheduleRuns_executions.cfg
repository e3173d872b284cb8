SPECIFICATION FairSpec
CONSTANTS
  Tasks = {t1}
  OriginTasks = {}
  SilentTasks = {}
  NoTask = NoTask
  Loop = Loop
  Clients = {c1}
  CliClients = {c1}
  Requests = {"run_now", "pause", "edit"}
  AgentResults = {"succeeded"}
  MaxDue = 1
  Lease = 2
  Timeout = 1
  Grace = 1
  Period = 1
  MaxClaims = 2
  MaxEnds = 1
  StoreFaults = TRUE
INVARIANTS TypeOK
PROPERTIES ExecutionEnds DueIsClaimed
