SPECIFICATION AnswersSpec
CONSTANTS
  p1 = p1
  Pods = {p1}
  Ips = {a}
  Refreshers = {scheduler}
  Scheduler = scheduler
  MaxBannedIps = 1
  Workers = {w1}
  PodOf <- OnOnePod
  MaxPagesLimit = 2
  BanDuration = 1
  MaxBanExponent = 1
  MaxBanMultiplier = 2
  ShortTTL = 1
  Scalable = TRUE
  RedisFaults = TRUE
  OperatorActions = {"ban", "unban", "reset", "exempt", "unexempt", "purge"}
INVARIANTS
  TypeOK
  FastPathSound
  AnswersFollow
PROPERTIES
  ImplementsBanCache
