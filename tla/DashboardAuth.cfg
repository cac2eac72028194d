SPECIFICATION Spec
CONSTANTS
  Pods = {p1, p2}
  Shared = TRUE
  MaxAttempts = 2
  BaseLockout = 1
  AttemptTTL = 3
  Margin = 1
  MaxLockouts = 3
  Tokens = {t1}
  SessionTTL = 2
INVARIANTS
  GuessesCostTime
PROPERTIES
  LockoutHolds
