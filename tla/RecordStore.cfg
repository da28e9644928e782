SPECIFICATION LiveStoreSpec
CONSTANTS
  MaxAttempts = 1
  MaxRestarts = 1
  MaxFlushes = 1
  MaxFaults = 1
  MaxRemovals = 1
  None = None
CHECK_DEADLOCK FALSE
INVARIANT StoreTypeOK
INVARIANT AcceptedIsDurable
INVARIANT SuccessIsServed
INVARIANT InFlightIsLocal
PROPERTY MirrorsInOrder
PROPERTY AcceptedSettles
