SPECIFICATION FairSpec
CONSTANTS
  q1 = q1
  q2 = q2
  s1 = s1
  s2 = s2
  s3 = s3
  x1 = x1
  m1 = m1
  m2 = m2
  NoRun = NoRun
  NoStart = NoStart
  NoReport = NoReport
  Quotes = {q1, q2}
  Starts = {s1, s2}
  Syncs = {x1}
  Commands = {m1, m2}
  MaxEvents = 5
CHECK_DEADLOCK FALSE
INVARIANTS TypeOK ScanClaimIsFree ActiveAlone
PROPERTIES RefinesReport WaiterProceeds
