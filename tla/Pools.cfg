\* Two or three pools compete for the devices of the host; the algorithm ends.
SPECIFICATION Spec
CONSTANTS
  e1 = e1  e2 = e2  e3 = e3  v1 = v1
  ice = ice  i40e = i40e
  Hosts = {e1, e2, e3, v1}
  Facts <- MCFacts
  Drivers = {ice, i40e}
  CdqDrivers = {ice}
  Prohibited = {}
  SecondaryMax = 2
  KindNetwork = TRUE
  UnprivBpf = FALSE
  IpsMayFail = TRUE
  Configs <- MCConfigs
INVARIANTS
  TypeOK
  ExcludedStaysOut
  LimitRespected
  NoSharedDevice
PROPERTIES
  PrimaryFilled
  ImplementsDeviceShares
CHECK_DEADLOCK FALSE
