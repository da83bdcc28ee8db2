\* Two updates, two connects, a disconnect and a delete, two at a time.
SPECIFICATION FairSpec
CONSTANTS
  s1 = s1 u1 = u1 u2 = u2 k1 = k1 k2 = k2 d1 = d1 x1 = x1
  Services = {s1}
  Updates = {u1,u2}
  Connects = {k1,k2}
  Disconnects = {d1}
  Deletes = {x1}
  Rotations = {u1}
  MaxInFlight = 2
  MaxMishaps = 1
  None = None
INVARIANTS LinksAgree CopiesAgree UpdatesAreKept
PROPERTIES StatusSettles
CHECK_DEADLOCK FALSE
