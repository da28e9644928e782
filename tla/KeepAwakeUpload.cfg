SPECIFICATION Spec
CONSTANTS
  Jobs = {j1, j2}
  MaxProbeFailures = 2
  HealthLimit = 1
  MaxRequests = 2
CHECK_DEADLOCK FALSE
INVARIANT EveryJobCounted
