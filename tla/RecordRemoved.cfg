SPECIFICATION StoreSpec
CONSTANTS
  MaxAttempts = 1
  MaxRestarts = 0
  MaxFlushes = 1
  MaxFaults = 0
  MaxRemovals = 1
  None = None
CHECK_DEADLOCK FALSE
INVARIANT RemovedStaysGone
