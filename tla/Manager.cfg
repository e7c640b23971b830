\* Two pools, of which the first serves its maps both ways and the second by UDS;
\* two pods; two things go wrong in up to two lives of the process.
\* The kubelet may have nothing left to allocate: no deadlock check.
SPECIFICATION FairSpec
CONSTANTS
  NumPools = 2
  d1 = d1
  d2 = d2
  d3 = d3
  Devices = {d1, d2, d3}
  NoDevice = NoDevice
  PoolOf <- MCPoolOf
  UdsPools = {1, 2}
  PinPools = {1}
  Pods = {p1, p2}
  MaxFaults = 2
  MaxLives = 2
INVARIANTS
  TypeOK
  AllocateReady
  ListedIsKept
  Provable
  RestartKeepsAll
PROPERTIES
  InitEnds
CHECK_DEADLOCK FALSE
