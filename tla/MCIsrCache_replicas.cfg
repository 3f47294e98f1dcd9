SPECIFICATION FairSpec
CONSTANTS
  Replicas = {r1, r2}
  Calls = {c1, c2}
  CtxTags = {}
  DataTags = {}
  HeaderTags = {path}
  SoftTags = {}
  NoEntry = NoEntry
  r1 = r1
  r2 = r2
  Skew <- Clocks
  MaxTime = 2
  MaxOutages = 1
PROPERTIES
  StoredBeforeIsGone
  ConnectIsRetried
CHECK_DEADLOCK FALSE
