\* Liveness: streams of a deleted worker.
SPECIFICATION FairSpec
CONSTANTS
  Workers = {w1}
  LocalWorker = None
  Streams = {s1,s2}
  Joins = {j1}
  Admins = {a1}
  Entries = {e1,e2}
  Rows = {r1}
  Tokens = {t1}
  None = None
  AppRows = {}
  MaxRestarts = 0
  MaxDBFaults = 0
PROPERTIES
  DeregisterEndsStream
