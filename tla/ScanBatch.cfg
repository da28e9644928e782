SPECIFICATION LiveScanSpec
CONSTANTS
  Callers <- MCCallers
  Keys = {"a"}
  MaxConcurrent = 1
  MinInterval = 1
  Concurrency = 2
  NumSites = 3
  KeyOf <- MCOneDomain
  ForceAll = FALSE
  MaxRestarts = 1
CHECK_DEADLOCK FALSE
INVARIANT ScanTypeOK
INVARIANT CapRespected
INVARIANT SlotsAccounted
INVARIANT NoLostWakeup
INVARIANT NoDoubleScan
INVARIANT SuccessIsRecorded
INVARIANT ResumeSound
PROPERTY IntervalRespected
PROPERTY GateSpec
PROPERTY RunEnds
