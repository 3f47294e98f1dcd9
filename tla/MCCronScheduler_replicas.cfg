SPECIFICATION Spec
CONSTANTS
  Replicas = {r1, r2}
  r1 = r1
  r2 = r2
  Manifest <- Jobs2
  Crontab <- Expected
  Date <- Midnight
  TicksPerMinute = 2
  LockTicks = 4
  Skew <- Clocks
  MaxLag = 1
  MaxTime = 4
  MaxFaults = 2
INVARIANTS
  FiredOnce
  NotMissed
  FiredAsScheduled
CHECK_DEADLOCK FALSE
