SPECIFICATION CliSpec
CONSTANTS
  Runs = {r1, r2}
  Lanes = {"automated"}
  TokenCarried = TRUE
  PollLimit = 1
  StepRetries = 0
  NoRun = NoRun
  MaxLost = 1
  MaxCrashes = 1
  MaxRows = 3
SYMMETRY Symmetry
INVARIANTS
  PurchaseStaysReachable
PROPERTIES
  DnsAfterDeployment
CHECK_DEADLOCK FALSE
