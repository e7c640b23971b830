\* One client, every kind of request, no idle timeout.
SPECIFICATION FairSpec
CONSTANTS
  Clients = {c1}
  NoClient = NoClient
  p1 = p1  p2 = p2  p3 = p3
  Pods <- OnePod
  NoPod = NoPod
  n1 = n1  n2 = n2
  Names <- MCNames
  NameOf <- OnePodName
  Received <- ShortNames
  d1 = d1  d2 = d2
  Devices = {d1, d2}
  Served = {d1}
  None = None
  Timeout = FALSE
  MayStop = FALSE
  Lookup = {"listed", "listError", "dialError"}
  Holdings <- MCHoldings
  Asks <- AllAsks
  SockBuf = 1
INVARIANTS
  InStep
PROPERTIES
  AckNeverHalfway
  HangUpReleases
  ConnectAnswered
