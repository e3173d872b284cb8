SPECIFICATION Spec
SYMMETRY Alike
CONSTANTS
  Tasks = {t1}
  NoTask = NoTask
  Dispatchers = {loop, http}
  Clients = {c1}
  Requests = {"cancel", "delete"}
  MaxRuns = 2
  MaxRetries = 1
  MaxConcurrency = 2
  MaxRestarts = 0
  StoreFaults = TRUE
INVARIANTS SingleOwner SuccessWasRequested ClaimIsLive
PROPERTIES EndedRunsStay
