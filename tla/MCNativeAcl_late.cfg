CONSTANTS
  Procs = {p1, p2}
  MaxEpoch = 2
  Outer = {run_root}
  Candidate = {}
  Scratch = {made}
  MaxFaults = 0
  Overlap = TRUE
SPECIFICATION Spec
SYMMETRY Symmetry
INVARIANTS
  StagedIsUnstarted
CHECK_DEADLOCK FALSE
