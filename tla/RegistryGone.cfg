\* Liveness: what the database says of a worker that is gone.
SPECIFICATION FairSpec
CONSTANTS
  Workers = {w1}
  LocalWorker = None
  Streams = {s1}
  Joins = {j1}
  Admins = {a1}
  Entries = {e1,e2}
  Rows = {r1}
  Tokens = {t1}
  None = None
  AppRows = {r1}
  MaxRestarts = 1
  MaxDBFaults = 1
PROPERTIES
  GoneWorkerLeavesReady
