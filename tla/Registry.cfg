\* Two streams, two Register RPCs and HTTP requests race on one worker.
SPECIFICATION Spec
CONSTANTS
  Workers = {w1}
  LocalWorker = None
  Streams = {s1,s2}
  Joins = {j1,j2}
  Admins = {a1}
  Entries = {e1,e2}
  Rows = {r1}
  Tokens = {t1,t2}
  None = None
  AppRows = {}
  MaxRestarts = 0
  MaxDBFaults = 0
SYMMETRY Symmetry
INVARIANTS
  TypeOK
  TokenRegistersOnce
  ChannelCloseIsSafe
  ReadyRowWasRegistered
PROPERTIES
  ImplementsTable
