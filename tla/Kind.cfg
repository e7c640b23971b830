\* Two pairs, two pods; the plugin may fail or die three times.
\* A plugin whose veths are all gone with their pods just waits: no deadlock check.
SPECIFICATION FairSpec
CONSTANTS
  NumVeths = 2
  Offset = 6
  Pods = {p1, p2}
  KindCluster = TRUE
  Kernels <- MCKernels
  MinKernel <- MCMinKernel
  Radix <- MCRadix
  MaxFaults = 3
INVARIANTS
  TypeOK
  Wired
  KernelRecent
CHECK_DEADLOCK FALSE
PROPERTIES
  PodKeepsVeth
  RecoversOnceFree
