SPECIFICATION Spec
CONSTANTS
  Requests = 3
  Sizes = {1, 3}
  MaxBufferRows = 2
  MaxBufferBytes = 3
  FlushBatchSize = 2
  MaxFlushRows = 3
  Flushers = {scheduler, panel}
  Scheduler = scheduler
INVARIANTS
  TypeOK
  BytesCoverBuffer
  LossesCountedUntilFailure
  StoredOnce
PROPERTIES
  BudgetEnforced
  BufferDrains
