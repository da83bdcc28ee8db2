\* One ingestion of two files, a cancellation and a lost write or a restart.
SPECIFICATION FairSpec
CONSTANTS
  j1 = j1 j2 = j2 t1 = t1 t2 = t2
  Jobs = {j1}
  Tasks = {t1,t2}
  Connectors = {}
  JobOf <- OneJobOf
  LaneOf <- OneLaneOf
  Large = {}
  Capacity = 1
  Quota = 1
  MaxMishaps = 1
  MaxCancels = 1
  MaxSlips = 0
  None = None
INVARIANTS DocsFollowTasks
PROPERTIES PipelineEnds ImplementsDispatch
CHECK_DEADLOCK FALSE
