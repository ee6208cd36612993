SPECIFICATION FairSpec
CONSTANTS
  c1 = c1
  c2 = c2
  Calls = {c1, c2}
  FAILURE_THRESHOLD = 2
  QueueCap = 1
  MaxToken = 2
  MaxFaults = 1
CHECK_DEADLOCK FALSE
INVARIANTS CredentialsSound StoreIsCurrent OfflineDataBounded
PROPERTIES UnprovisionedIsRetried DegradedIsProbed
