SPECIFICATION Spec
CONSTANTS
  Ips = {1, 2}
  Logs = {1, 2, 3}
  AttackPatterns = {"sql", "xss"}
  Feature <- MCFeature
  MaySend <- MCMaySend
  RiskyPercent = 10
  RobotsPercent = 10
  AgentsThreshold = 2
  AttackUrlsThreshold = 2
  MaxAccesses = 2
  Analysts = {scheduled, manual}
  Scheduled = scheduled
  MaxIps = 1
  MaxEvents = 1
  None = None
INVARIANTS
  AttackDecides
PROPERTIES
  ManualSticks
  LogsGetAnalysed
  NothingStarves
CHECK_DEADLOCK FALSE
