SPECIFICATION FairSpec
CONSTANTS
  k1 = k1
  k2 = k2
  c1 = c1
  c2 = c2
  c3 = c3
  NoKey = NoKey
  Keys = {k1}
  Calls = {c1, c2}
  KeyOf <- OneKeyOf
  MAX_ATTEMPTS = 3
  BatchSize = 1
  AutoReload = TRUE
  LeaseMonitor = TRUE
  MaxFaults = 1
CHECK_DEADLOCK FALSE
INVARIANT AttemptsBounded
PROPERTIES AttemptsNeverLost DueIsClaimed ClaimedIsSettled
