CONSTANTS
  Testers = {p1, p2}
  Finalizers = {p1, p2}
  MaxRunner = 2
  MaxFaults = 1
SPECIFICATION FairSpec
INVARIANTS
  TypeOK
  AttemptOnce
  OutputsAgree
  VerdictKept
PROPERTIES
  FinalizationCompletes
CHECK_DEADLOCK FALSE
