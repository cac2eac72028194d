SPECIFICATION Spec
CONSTANTS
  Pods = {p1}
  Ips = {a, b}
  Refreshers = {scheduler, panel}
  Scheduler = scheduler
  MaxBannedIps = 1
INVARIANTS
  TypeOK
  MissesOnlyTheWindow
PROPERTIES
  BansSpread
