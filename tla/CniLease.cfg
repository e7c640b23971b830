\* One pod and one call that fails; the pod ends.
SPECIFICATION FairSpec
CONSTANTS
  Pods = {p1}
  NoPod = NoPod
  Confs <- PlainConfs
  MaxFaults = 1
PROPERTIES
  LeaseFreed
CHECK_DEADLOCK FALSE
