\* Two clients race for the one connection; pods share a name, one is cut short.
\* With an idle timeout the socket file goes, once the clients stop sending.
SPECIFICATION FairSpec
CONSTANTS
  Clients = {c1, c2}
  NoClient = NoClient
  p1 = p1  p2 = p2  p3 = p3
  Pods <- ThreePods
  NoPod = NoPod
  n1 = n1  n2 = n2
  Names <- MCNames
  NameOf <- PodNames
  Received <- LongName
  d1 = d1  d2 = d2
  Devices = {d1, d2}
  Served = {d1}
  None = None
  Timeout = TRUE
  MayStop = TRUE
  Lookup = {"listed", "listError", "dialError"}
  Holdings <- Holding
  Asks <- TwoAsks
  SockBuf = 1
INVARIANTS
  TypeOK
  GrantsAreProved
PROPERTIES
  ImplementsFdService
  NakMeansInvalidName
  SocketReclaimed
