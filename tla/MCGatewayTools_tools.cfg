SPECIFICATION Spec
CONSTANTS
  Slots = {s1, s2}
  Runs = {1}
  Tokens <- HeldTokens
  Mandates <- Issued
  Addresses <- Servers
  Bought <- BoughtBy
  Old <- OldHome
  Verdicts <- AuditorTokens
  Domains = {"site", "other"}
  Projects = {"shop", "else"}
  None = None
  Workloads <- Families
  Torn = Torn
  MaxRows = 7
  MaxWrites = 4
  MaxFaults = 1
  MaxVersion = 2
SYMMETRY Handlers
INVARIANTS
  CutoverIsJudged
  RollbackRestores
  HandoffStands
  EnvIsCurrent
CHECK_DEADLOCK FALSE
