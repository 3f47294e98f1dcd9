SPECIFICATION Spec
CONSTANTS
  JsonTexts = {"42", "null"}
  Uploads = {1, 2}
  Pathname <- MCPathname
  Payloads <- MCPayloads
  ClientPayload <- MCClientPayload
  PageSize = 1
  MaxServerOps = 1
INVARIANTS
  
  SweepCatchesUp
CHECK_DEADLOCK FALSE
