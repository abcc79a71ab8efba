CONSTANTS
  Preparers = {a1, a2}
  Planners = {p1, p2}
  Loaders = {l1, l2}
  MaxFaults = 2
SPECIFICATION Spec
SYMMETRY Symmetry
INVARIANTS
  TypeOK
  PreparedWhole
  SameInvocation
  PlanOwnsProposal
CHECK_DEADLOCK FALSE
