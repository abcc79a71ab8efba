CONSTANTS
  Procs = {p1, p2}
  Outputs = {o1, o2}
  Setups <- MCSetups
  MaxStamp = 6
SPECIFICATION FairSpec
INVARIANTS
  TypeOK
  OneLaunch
  EvidenceIsChildOutput
  MarkerMatchesOutput
  CompletionAfterRecovery
PROPERTIES
  UsesLease
  
CHECK_DEADLOCK FALSE
