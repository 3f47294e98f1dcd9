SPECIFICATION Spec
CONSTANTS
  Slots = {s1, s2}
  Runs = {r1}
  FreeSteps = {}
  NoRows = NoRows
  Exp = 0
  Window = 1
  Faults = {}
  MaxTime = 0
  MaxRows = 4
  MaxCrashes = 0
  MaxMints = 0
INVARIANTS
  AtMostOneServer
