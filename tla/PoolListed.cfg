\* Devices listed by name, MAC and PCI address; the algorithm ends.
SPECIFICATION Spec
CONSTANTS
  e1 = e1  e2 = e2  e3 = e3  v1 = v1
  ice = ice  i40e = i40e
  Hosts = {e1, e2, e3, v1}
  Facts <- MCFacts
  Drivers = {ice, i40e}
  CdqDrivers = {ice}
  Prohibited = {}
  SecondaryMax = 2
  KindNetwork = FALSE
  UnprivBpf = FALSE
  IpsMayFail = FALSE
  Configs <- ListedConfigs
PROPERTIES
  ListedDeviceTaken

CHECK_DEADLOCK FALSE
