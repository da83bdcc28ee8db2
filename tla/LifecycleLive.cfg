SPECIFICATION FairSpec
CONSTANTS
  c1 = c1  s1 = s1  d1 = d1  d2 = d2
  Components = {c1}
  Services = {s1}
  Deletes = {d1}
  MaxMishaps = 1
PROPERTIES StatusMoves WorkEnds SyncNotices
CHECK_DEADLOCK FALSE
