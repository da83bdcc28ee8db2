\* A user lane with a quota of one, a connector with a heavy file behind a
\* normal one, one mishap.
SPECIFICATION FairDispatchSpec
CONSTANTS
  j1 = j1 j2 = j2 j3 = j3 t1 = t1 t2 = t2 t3 = t3 t4 = t4 c1 = c1
  Jobs = {j1,j2,j3}
  Tasks = {t1,t2,t3,t4}
  Connectors = {c1}
  JobOf <- MCJobOf
  LaneOf <- MCLaneOf
  Large = {t4}
  Capacity = 2
  Quota = 1
  MaxMishaps = 1
  None = None
INVARIANTS SemaphoreAccounted RowsMatchConversions
PROPERTIES OutcomeIsFinal ImplementsSlots NoLaneStarves
CHECK_DEADLOCK FALSE
