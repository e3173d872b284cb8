SPECIFICATION Spec
CONSTANTS
  Runs = {r1, r2}
  Sessions = {s1}
  Processes = {p1, p2}
  Foreground = {r1, r2}
  Streamed = {}
  Lease = 1
  MaxIterations = 1
  MaxCalls = 0
  MaxLlmCalls = 1
  MaxToolCalls = 1
  MaxStops = 0
SYMMETRY Symmetry
INVARIANTS
  DialogueIsUnmixed
  StopIsHonoured
PROPERTIES
  EndedStays
