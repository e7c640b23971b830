\* A pool with a user id; nothing fails and the plugin is started once.
SPECIFICATION Spec
CONSTANTS
  Pods = {p1}
  NoPod = NoPod
  d1 = d1  d2 = d2  d3 = d3
  q1 = q1  q2 = q2
  Devices = {d1, d2, d3}
  Pools = {q1, q2}
  PoolOf <- MCPoolOf
  UserPools = {q2}
  MaxFaults = 0
  MaxLives = 1
INVARIANTS
  RejectedForCause
CHECK_DEADLOCK FALSE
