SPECIFICATION MCSpec
CONSTANTS
  Devices = {1, 2}
  Limit = 1
  MaxBackoff = 2
  OutboxTTL = 2
  MaxSeq = 2
  MaxBatches = 2
  MaxTime = 2
  MaxRetries = 1
INVARIANT OnlyDuplicatesDiscarded
CHECK_DEADLOCK FALSE
