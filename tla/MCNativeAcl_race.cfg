CONSTANTS
  Procs = {p1, p2}
  MaxEpoch = 2
  Outer = {run_root}
  Candidate = {candidate_worktree}
  Scratch = {made}
  MaxFaults = 1
  Overlap = TRUE
SPECIFICATION Spec
SYMMETRY Symmetry
INVARIANTS
  HistorySound
  ChildKeepsLease
CHECK_DEADLOCK FALSE
