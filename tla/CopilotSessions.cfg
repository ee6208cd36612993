SPECIFICATION FairSpec
CONSTANTS
  u1 = u1
  s1 = s1
  s2 = s2
  t1 = t1
  t2 = t2
  r1 = r1
  Nobody = Nobody
  Users = {u1}
  Sessions = {s1, s2}
  UserOf <- OneUser
  Tasks = {t1, t2}
  Calls = {r1}
CHECK_DEADLOCK FALSE
INVARIANTS OneSessionPerUser StreamsAreFound GoneIsGone
PROPERTIES RefinesRegistry WaitsEnd
