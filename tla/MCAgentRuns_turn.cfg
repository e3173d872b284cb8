SPECIFICATION FairSpec
CONSTANTS
  Runs = {r1}
  Sessions = {s1}
  Processes = {p1, p2}
  Foreground = {r1}
  Streamed = {r1}
  Lease = 2
  MaxIterations = 2
  MaxCalls = 2
  MaxLlmCalls = 2
  MaxToolCalls = 1
  MaxStops = 1
INVARIANTS
  TypeOK
  CompletedHasAnswer
  CallsWithinBudget
PROPERTIES
  StreamAccountCloses
  AdmissionEnds
