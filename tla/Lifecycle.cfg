SPECIFICATION Spec
CONSTANTS
  c1 = c1  s1 = s1  d1 = d1  d2 = d2
  Components = {c1}
  Services = {s1}
  Deletes = {d1, d2}
  MaxMishaps = 0
INVARIANTS CleanDeletion
PROPERTIES RunningWasDeployed
CHECK_DEADLOCK FALSE
SYMMETRY Requests
