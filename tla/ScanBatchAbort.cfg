SPECIFICATION LiveScanSpec
CONSTANTS
  Callers <- MCCallers
  Keys = {"a"}
  MaxConcurrent = 1
  MinInterval = 1
  Concurrency = 2
  NumSites = 3
  KeyOf <- MCOneDomain
  ForceAll = FALSE
  MaxRestarts = 0
CHECK_DEADLOCK FALSE
PROPERTY AbortEndsRun
