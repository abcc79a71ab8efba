CONSTANTS
  Callers = {c1, c2}
  Requests = {q1, q2}
  MaxFaults = 2
SPECIFICATION Spec
SYMMETRY Symmetry
INVARIANTS
  TypeOK
  RunsOnce
  AnswerStands
CHECK_DEADLOCK FALSE
