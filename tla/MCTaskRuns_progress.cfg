SPECIFICATION FairSpec
CONSTANTS
  Tasks = {t1, t2}
  NoTask = NoTask
  Dispatchers = {loop}
  Clients = {}
  Requests = {}
  MaxRuns = 2
  MaxRetries = 0
  MaxConcurrency = 1
  MaxRestarts = 1
  StoreFaults = FALSE
INVARIANTS ConcurrencyBound
PROPERTIES RunningEnds QueuedStarts
