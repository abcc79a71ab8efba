CONSTANTS
  Procs = {p1, p2}
  MaxEpoch = 2
  Outer = {run_root, role_root}
  Candidate = {candidate_worktree}
  Scratch = {made}
  MaxFaults = 2
  Overlap = FALSE
SPECIFICATION FairSpec
INVARIANTS
  TypeOK
  BaselineIsPreGrant
PROPERTIES
  RevokedIsFinal
  ImplementsLease
  
CHECK_DEADLOCK FALSE
