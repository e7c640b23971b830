\* Two pods, two pools, one of them for a user; one restart and one failing call.
\* The pods end, and the plugin may stay down.
SPECIFICATION Spec
CONSTANTS
  Pods = {p1, p2}
  NoPod = NoPod
  d1 = d1  d2 = d2  d3 = d3
  q1 = q1  q2 = q2
  Devices = {d1, d2, d3}
  Pools = {q1, q2}
  PoolOf <- MCPoolOf
  UserPools = {q2}
  MaxFaults = 1
  MaxLives = 2
SYMMETRY Symmetry
INVARIANTS
  TypeOK
  EntryOfHolder
  NothingLeaks
PROPERTIES
  PinLostFor
  RejectedByUserPool
CHECK_DEADLOCK FALSE
