\* Two calls, two streams, two entries; a broken connection, an eviction or
\* a deletion.
SPECIFICATION FairSpec
CONSTANTS
  Calls = {c1,c2}
  Worker = w1
  Entries = {e1,e2}
  Streams = {s1,s2}
  None = None
  QueueCap = 1
  MaxFaults = 1
INVARIANTS
  TypeOK
PROPERTIES
  ImplementsRemoteCall
  AwaitingCallReturns
CHECK_DEADLOCK FALSE
