SPECIFICATION Spec
CONSTANTS
  Runs = {r1, r2}
  Lanes = {"automated", "handoff"}
  TokenCarried = FALSE
  PollLimit = 1
  StepRetries = 0
  NoRun = NoRun
  Judged = {}
  MaxLost = 1
  MaxCrashes = 0
SYMMETRY Symmetry
INVARIANTS
  IntentBeforeClaim
  OwnServerOnly
  OneRunIsDeployed
PROPERTIES
  HumanServerStays
CHECK_DEADLOCK FALSE
