SPECIFICATION FairSpec
CONSTANTS
  Delegations = {d1}
  Ordinals = {1, 2}
  BestEffort = {}
  Callers = {c1}
  Loop = loop
  MaxTicks = 1
  MaxFaults = 1
INVARIANTS
  TypeOK
  ResultIsOfLastClaim
  JoinIsSound
  CancelWins
PROPERTIES
  StepsFollowTables
  DelegationEnds
