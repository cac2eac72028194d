SPECIFICATION LeaseSpec
CONSTANTS
  Pods = {p1, p2}
  Period = 6
  TaskJitter = 2
  Slack = 1
  RunLockTTL = 2
  MaxRun = 4
  Horizon = 14
INVARIANTS
  OncePerOccurrence
  NoneSkipped
  OneManualRun
