SPECIFICATION RetrySpec
CONSTANTS
  Slots = {s1}
  Runs = {r1, r2}
  FreeSteps = {"P6"}
  NoRows = NoRows
  Exp = 0
  Window = 1
  Faults = {"tornWrite", "vaultError"}
  MaxTime = 2
  MaxRows = 4
  MaxCrashes = 1
  MaxMints = 3
INVARIANTS
  TypeOK
  AtMostOneServer
  NoServerForgotten
  CredentialFits
PROPERTIES
  RecordIsFinal
  ReconciledOnRetry
  ImplementsPurchase
