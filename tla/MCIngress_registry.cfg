CONSTANTS
  Procs = {p1, p2}
  Cycles = {x1, x2}
  Conversations = {c1, c2, s1}
  Scouted = {s1}
  MaxFaults = 2
SPECIFICATION Spec
SYMMETRY Symmetry
INVARIANTS
  ConversationUsedOnce
PROPERTIES
  WritesOnce
CHECK_DEADLOCK FALSE
