\* Two pods get the device one after another; calls fail at any step.  The pods
\* end, and a device left in one of them is not handed out again.
SPECIFICATION Spec
CONSTANTS
  Pods = {p1, p2}
  NoPod = NoPod
  Confs <- AllConfs
  MaxFaults = 3
INVARIANTS
  TypeOK
  AddressLeased
  CalmStrandsNone
PROPERTIES
  OnlyOwnDel
  SetupLostTo
  AddUsable
  DelReleases
  LeaseStrandedBy
  ImplementsDeviceLease
CHECK_DEADLOCK FALSE
