\* An ingestion and a digitization job of one file each.
SPECIFICATION Spec
CONSTANTS
  j1 = j1 j2 = j2 t1 = t1 t2 = t2
  Jobs = {j1,j2}
  Tasks = {t1,t2}
  Connectors = {}
  JobOf <- MCJobOf
  LaneOf <- MCLaneOf
  Large = {}
  Capacity = 1
  Quota = 1
  MaxMishaps = 1
  MaxCancels = 1
  MaxSlips = 1
  None = None
INVARIANTS JobTypeOK CompletedMeansConverted
PROPERTIES EndedJobStaysEnded
CHECK_DEADLOCK FALSE
