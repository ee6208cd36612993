SPECIFICATION Spec
CONSTANTS
  k1 = k1
  k2 = k2
  c1 = c1
  c2 = c2
  c3 = c3
  NoKey = NoKey
  Keys = {k1, k2}
  Calls = {c1, c2, c3}
  KeyOf <- MCKeyOf
  MAX_ATTEMPTS = 2
  BatchSize = 1
  AutoReload = TRUE
  LeaseMonitor = FALSE
  MaxFaults = 1
SYMMETRY Symmetry
CHECK_DEADLOCK FALSE
INVARIANTS TypeOK LeasesAreHeld ChargedIsRecorded
PROPERTIES SettledReopenedOnlyInFlight RefinesLedger
