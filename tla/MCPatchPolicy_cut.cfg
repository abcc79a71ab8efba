CONSTANTS
  Files <- MCPlainFiles
  Base <- MCPlainBase
  Contents = {"old", "new", "cut"}
  ChangeScopes <- MCChangeScopes
  ScopeProposals <- MCScopeProposals
  Policy <- MCPolicy
  Champions <- MCChampions
  Executable <- MCExecutable
  Entrypoints <- MCEntrypoints
  MaxEdits = 3
SPECIFICATION PatchSpec
INVARIANTS
  EveryChangeValidated
CHECK_DEADLOCK FALSE
