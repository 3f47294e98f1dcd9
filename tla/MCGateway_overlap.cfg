SPECIFICATION Spec
CONSTANTS
  Slots = {s1, s2}
  Runs = {r1}
  FreeSteps = {"P6"}
  NoRows = NoRows
  Exp = 0
  Window = 1
  Faults = {"readError"}
  MaxTime = 0
  MaxRows = 3
  MaxCrashes = 0
  MaxMints = 0
INVARIANTS
  WriteAhead
  CommittedIsReal
  FreeStepsFollowPurchase
  OkIsDurable
SYMMETRY Symmetry
