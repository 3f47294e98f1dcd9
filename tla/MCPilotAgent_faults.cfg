SPECIFICATION PolledSpec
CONSTANTS
  Runs = {r1}
  Lanes = {"automated"}
  TokenCarried = FALSE
  PollLimit = 2
  StepRetries = 1
  NoRun = NoRun
  Judged = {r1}
  MaxLost = 1
  MaxCrashes = 2
INVARIANTS
  TypeOK
  DeployedIsRunning
  RolledBackIsGone
  SilentOnlyAfterLoss
PROPERTIES
  EndIsFinal
  RunEnds
CHECK_DEADLOCK FALSE
