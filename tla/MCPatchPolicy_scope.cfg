CONSTANTS
  Files <- MCFiles
  Base <- MCBase
  Contents = {"absent", "empty", "old", "oldcrlf", "new", "marked", "cut", "more", "binary"}
  ChangeScopes <- MCChangeScopes
  ScopeProposals <- MCScopeProposals
  Policy <- MCPolicy
  Champions <- MCChampions
  Executable <- MCExecutable
  Entrypoints <- MCEntrypoints
  MaxEdits = 3
SPECIFICATION PatchSpec
INVARIANTS
  PatchTypeOK
  ScopeHeld
  UnseenForCause
  RefusedForCause
CHECK_DEADLOCK FALSE
