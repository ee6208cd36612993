SPECIFICATION FairSpec
CONSTANTS
  k1 = k1
  k2 = k2
  c1 = c1
  c2 = c2
  c3 = c3
  NoKey = NoKey
  Keys = {k1}
  Calls = {c1}
  KeyOf <- SoloKeyOf
  MAX_ATTEMPTS = 2
  BatchSize = 1
  AutoReload = FALSE
  LeaseMonitor = FALSE
  MaxFaults = 0
CHECK_DEADLOCK FALSE
PROPERTY RetryableReturns
