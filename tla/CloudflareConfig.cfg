SPECIFICATION Spec
CONSTANTS
  Procs = {task, web}
  Web = web
  Accounts = {a, b}
  ListIds = {l1, l2, l3, l4, l5}
  Ips = {i1, i2}
  TimedOut = {i2}
  MaxEvents = 4
  None = None
INVARIANTS
  DeletionSticks
PROPERTIES
  SyncReaches
  OthersRulesKept
CHECK_DEADLOCK FALSE
