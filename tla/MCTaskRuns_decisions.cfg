SPECIFICATION Spec
SYMMETRY Alike
CONSTANTS
  Tasks = {t1}
  NoTask = NoTask
  Dispatchers = {loop}
  Clients = {c1, c2}
  Requests = {"resolve", "cancel", "retry", "delete", "archive", "update"}
  MaxRuns = 2
  MaxRetries = 1
  MaxConcurrency = 1
  MaxRestarts = 0
  StoreFaults = FALSE
INVARIANTS TypeOK WaitingIsResolvable
PROPERTIES BreakerHolds RefinesLifecycle
