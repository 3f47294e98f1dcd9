SPECIFICATION Spec
CONSTANTS
  Plans <- PlansFound
  Winners <- Best
  Ceiling = 1000
  Secrets = {"same", "other"}
  None = None
  MaxMints = 3
  MaxFaults = 1
  MaxChoosing = 1
INVARIANTS
  OnlyApprovedIsReleased
  ReleasedOnce
  
CHECK_DEADLOCK FALSE
