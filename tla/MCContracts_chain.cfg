SPECIFICATION Spec
CONSTANTS
  Cycles = {x1, x2}
  Kinds = {codex, webgpt}
  Codex = codex
  Actions = {"fit", "seek"}
  Available <- MCAvailable
  Terms <- MCTerms
  Proposals <- MCProposals
  None = None
  MaxTime = 3
  MaxSwitches = 1
  MaxPromotions = 1
  MaxAnswers = 1
INVARIANTS TypeOK AcceptedForItsRequest ProposalGrounded
SYMMETRY AnyCycle
CHECK_DEADLOCK FALSE
