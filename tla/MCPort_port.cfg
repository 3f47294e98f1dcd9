SPECIFICATION Spec
CONSTANTS
  Files <- MCFiles
  InitialRepos <- MCInitialRepos
  Scheduler = "compose-sidecar"
  MaxCrashes = 2
INVARIANTS
  NothingDropped
  RerunIsNoOp
  ImportsResolve
