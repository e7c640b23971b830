# A TLA+ model of the AF_XDP plugins for Kubernetes

This directory holds TLA+ specifications of the AF_XDP device plugin and CNI
plugin of this repository, the TLC configurations that model-check them, and
proofs checked by TLAPS. Every definition is written from the code; the file
and lines each one stands for are in `PROJECT.json` under `map`. Paths below
are relative to the root of the repository.

    tlc -config UdsClients.cfg MCUdsServer     model-check one configuration
    tlapm CniPlugin_proofs.tla                 check the proofs of a module

`PROJECT.json` lists under `runs` which configuration goes with which module.

## 1. The system

A Kubernetes node runs one *device plugin* process. It groups the network
devices of the host into pools, registers every pool with the kubelet as a
resource, and prepares a device (subfunction, XDP program, XSK map) when the
kubelet allocates it to a container. The container then needs the file
descriptor of the XSK map. It gets it over a Unix domain socket that is mounted
into the container, from a server made for that one allocation, or, instead, as
a pinned BPF map. The *CNI plugin* is a short-lived process that the container
runtime starts to move the device into the network namespace of the pod (ADD)
and back (DEL). When maps are pinned it asks the device plugin, over gRPC, to
remove them.

| Component | State | Operations | Talks to |
|---|---|---|---|
| UDS server (`internal/udsserver`, `internal/uds`) | listener, one connection, the served devices with their descriptors, the pod name once proved | CreateServer, AddDevice, Start; connect, xsk_map_fd, version, busy poll, fin; timeout; cleanup | client in the container; kubelet pod resources |
| Pod resources (`internal/resourcesapi`) | none | GetPodResources: one List call, pods keyed by name | kubelet |
| Busy poll (`internal/bpf/bpfWrapper.c`) | the three options of a socket | Configure_busy_poll and its way back | kernel |
| Pool configuration (`internal/deviceplugin/config*.go`, `internal/networking/device.go`) | host devices with assignment marks, the pools | GetPoolConfigs: read, validate, discover, search, assign | config file, netlink |
| Pool manager (`internal/deviceplugin/poolManager.go`) | devices of a pool, the gRPC server, an update signal | Init, ListAndWatch, Allocate, Terminate | kubelet, UDS server, BPF, map manager |
| CNI plugin (`internal/cni`) | none of its own; the device, the IPAM lease, filters, program | CmdAdd, CmdDel, CmdCheck (empty) | runtime, netlink, IPAM plugin, ethtool, devlink, syncer |
| Map manager and syncer (`internal/bpf/mapManager.go`, `internal/dpcnisyncer*`) | pinned maps by device, their BPFFS mounts | CreateBPFFS, AddMap, GetMaps, DeleteBPFFS; DelNetDev | Allocate and the CNI, on two gRPC goroutines |
| Client libraries (`pkg/goclient`, `pkg/cclient`) | a connection, whether it is trusted | GetXskMapFd, RequestBusyPoll, CleanUpConnection | UDS server |
| Plugin process (`cmd/deviceplugin/main.go`) | pool managers | Kind network, host checks, syncer, pools, signal, stop | everything |
| Subfunctions (`pkg/subfunctions`) | devlink ports | create, delete | devlink |
| Kind network (`internal/networking/kind.go`, `veth.go`, `bridge.go`) | veths and a bridge | CreateKindNetwork, DeleteKindNetwork | netlink, xdp-loader |
| Host checks (`internal/host`) | none | kernel version, libxdp, ethtool, devlink, access control lists | files and commands of the host |

### What is hard

* **Trust on a shared socket.** Any process that can open the socket may be the
  first to connect. The name it states decides, by way of a kubelet snapshot
  that may be gone a moment later, whether it gets descriptors.
* **One goroutine, blocking calls.** Every read and write of the UDS server can
  block, time out or fail, and each failure is treated differently: some end
  the server, some are logged, and some are answered and then fallen through.
* **Shared host devices.** Pools are assigned one after another from the same
  ports; the marks on a port are all that keeps a pool of whole devices from a
  pool of subfunctions.
* **ADD and DEL without a memory.** A CNI process keeps no state. It may fail or
  be killed after any step, is called again, and must tell from the node what
  has been done. DEL of an old pod and ADD of a new one name the same device.
* **Two writers of one map.** Allocate and DelNetDev run on goroutines of
  different gRPC servers and share the table of pinned maps without a lock.
* **Signals that are sent once.** ListAndWatch sends the list of devices upon a
  signal that Init gives once, over a channel without a buffer, and Init waits
  for somebody to take it.
* **Registered before it is ready.** A pool is known to the kubelet before its
  map manager exists; Allocate runs on another goroutine than Init.
* **Building over ruins.** The process may die at any step of its start, and the
  next one finds sockets, bridges, veths and mounts of the one before, some of
  them in use.

### What makes each component correct

* UDS server: descriptors reach only a client that was proved to be the pod; one
  answer for each request; answers mean what the constants say; the socket is
  given back.
* Pool configuration: no device twice; limits and exclusions; a pool gets what
  the file promises it.
* CNI plugin: an address is carried only under a lease; a device is taken out of
  a pod only by that pod's DEL; success means that everything was done; what
  was taken is given back.
* Map manager and syncer: a pinned map lives as long as its device is allocated
  and no longer; a deletion hits the map of its own allocation.
* Pool manager: no Allocate for a pool that is not ready; a listed pool is one
  that will be terminated; the UDS server of a pod serves what the pod holds; a
  restart gets all pools back.
* Kind network: pools are served only over complete wiring; a veth that a pod
  holds is left alone; the plugin recovers from a start that was cut short.
* Client library: its answer agrees with what the server did.

## 2. Modules

| Module | Models | State and actions |
|---|---|---|
| `FdService` | what a UDS server promises, abstractly | phase, client, what pods hold, what was granted; Accept, Trust, Grant, Finish |
| `BusyPoll` | `Configure_busy_poll` | pure operators: the ladder of setsockopt calls for every outcome the kernel may give |
| `UdsServer` | one server goroutine, its socket, its clients, the kubelet | `pc` is the place in `server.start`; one action per handler; `out` holds the answers still to be written, each with the way its write error is treated |
| `MCUdsServer` | | instances |
| `UdsServer_proofs` | | theorems |
| `PoolConfig` | `GetPoolConfigs` | `phase` is the loop the function is in; `mode`, `full` and `taken` are the assignment marks; `entries`, `drivers`, `devices` the pool in the making |
| `DeviceShares` | how the devices of a host are shared out among pools, abstractly | whose turn it is, which pool has which share; GiveWhole, GiveParts, NextTurn |
| `MCPoolConfig` | | a host of four interfaces and families of config files |
| `PoolConfig_proofs` | | theorems: who may have a device |
| `PoolLimit_proofs` | | theorems: how many a pool gets |
| `DeviceLease` | what ADD and DEL promise together of one device, abstractly | where the device is, whose address it answers for, who has a lease; Lease, Enter, Answer, Leave, Return |
| `CniPlugin` | `CmdAdd` and `CmdDel`, and as much of Allocate as they rest on; the kubelet that gives a device on while DEL of the last pod goes on, sandboxes that are made anew, reboots | `pc[p]` is the step of the call made for pod p; `stage[p]` its life; one device with its place, state, address, filters, program, map and leases; `late` are the pods whose DEL was not done when the device was given on |
| `MCCniPlugin` | | every network configuration |
| `CniPlugin_proofs` | | theorems |
| `BpfMaps` | the map manager, the syncer, the pinning in Allocate, start and end of the plugin | `prep[a]` is the step Allocate is at with allocation a (a pod and a device), `handler[a]` the step of the server's DelNetDev for it, `call[a]` the call as the CNI sees it; `maps` is the table; `dirs`, `mounts`, `pins` the file system; `pool[q]` the life of pool q; `late` the allocations whose DelNetDev was not done when their device was given on |
| `MCBpfMaps` | | three devices of two pools |
| `BpfMaps_proofs` | | theorems |
| `PoolManager` | `main` from the pools to its exit, `Init`, `ListAndWatch`, `Allocate` and `Terminate` of the pools, with the kubelet | `main` is the step of main or of Init, `at` the pool it is at; `socket`, `serving`, `manager`, `kept` what a pool has got; `kubelet[q]` how far the kubelet is with it; `handler[p]` the step of Allocate for pod p, `served[p]` what its UDS server was given |
| `MCPoolManager` | | three devices of two pools |
| `PoolManager_proofs` | | theorems |
| `KindNetwork` | the start of `main` in a Kind cluster: the network, the host checks, and the pods that hold ends of its veth pairs | `pc` is the place in main or in `CreateKindNetwork`, `pair` the pair of its loop; `bridge`, `addr`, `place`, `port`, `up`, `pass` the network as netlink sees it |
| `MCKindNetwork` | | kernel versions around the minimum |
| `KindNetwork_proofs` | | theorems |

**Abstractions.** A message is a record of its kind and argument; a kind ending
in `Bad` stands for a message with the right prefix and the wrong number of
words. Names, devices, pods and drivers are model values. Reading into the
64-byte buffer is a function from names to names (`Received`), because all that
matters of the lost bytes is which name is left. A failing system call is a
disjunct. Logging and formats are left out, and so is the fuzzing variant of the
UDS server.

The write of an answer is a step of its own, apart from the handler that
decides on it. In the code the two are one call sequence; other processes can
nevertheless act while a write blocks.

In `CniPlugin` a process that is killed between two steps looks to everybody
else like one whose next step failed, so no action for a crash is needed.
`Allocate` is cut down to what the CNI calls can tell: the subfunction is
created, the device is cycled, the program loaded and the map pinned, and each
may fail; the UDS server is taken to be enabled. The kubelet is taken as it is:
it gives a device on when the containers of a pod have ended, not when DEL has.
What such an overlap may do is exactly what `SetupLostTo` allows.

In `BpfMaps` every call of the kernel or of a tool that can fail is a step of its
own, and so is every access to the shared table, because Allocate and DelNetDev
run at the same time. A path has a random name that never repeats, so it is
identified with the allocation it was generated for; what `Stat` would find at a
path is membership in `dirs`. The access control list on a base directory is
modelled by its effect on the mode (`widened`). The CNI plugin is cut down to the
one call it makes of the syncer; the rest of DEL is in `CniPlugin`, and so are a DEL
that is made again and a sandbox that is made anew. As in `CniPlugin` the kubelet
gives a device on when the containers of its pod have ended: the call of DelNetDev
may then be still to come (`due`; the device may not be back on the host and Allocate
fail on it, `Away`), at any of its steps, or done. An Allocate may thus meet, step by
step, the DelNetDev of an earlier pod for the same device.

In `PoolManager` one action is what a goroutine does between two calls that can
fail or block: a call of gRPC, the rendezvous on the channel, a step of Allocate
for one device. A stream that breaks leaves its ListAndWatch waiting (`ghosts`),
which is how the code has it: the goroutine never looks at the stream's context.
The variable `hurt` is a history variable: it says that something went wrong in
this life of the process. `main` ends when the syncer cannot start, although that
is "only" logged, because GetPoolConfigs refuses to go on without one.

In `KindNetwork` a pair is the number of the veth that a pod may get; its peer
stays on the host and is known by `port`, `up` and `pass`. The order of
`CreateKindNetwork`'s calls is kept, and each may fail or be the last.

**Modules with faulty variants.** Operators whose comment begins with "Faulty
variant" are not used by the specifications. Each changes one definition the way
a plausible bug would, and each property is known to fail when its variant takes
the place of the real definition (`mutants` in `PROJECT.json`): the properties
do depend on the code.

## 3. What the runs show

| Run | Question | Result |
|---|---|---|
| `UdsClients` | Two clients, which may send for ever, race for the one connection while three pods come and go, of which two share a name and the third has its name cut short; lookups fail in each way, and the plugin may die. Who gets descriptors, and who is refused? | Only the accepted client, and only after a container holding exactly the served devices was found under its name (`GrantsAreProved`). Every step is a step of `FdService` (`ImplementsFdService`). `/host_nak` is the first answer only for a pod that does not hold the devices, whose name was cut, or one of whose name another is listed (`NakMeansInvalidName`). With an idle timeout the socket file goes, unless a client sends for ever or the process itself dies (`SocketReclaimed`). |
| `UdsRequests` | One client, without an idle timeout, sends every kind of request, well-formed or not, pipelined or not, with a descriptor or without. | A second answer to a request comes only when the connection ends with it, or to the one malformed request that is known to be refused twice (`InStep`); an acknowledged socket is configured or has all taken back, never half of it (`AckNeverHalfway`); a connect is answered although the lookup fails, unless the process ends, as it does when the kubelet cannot be dialled (`ConnectAnswered`), and a client that hangs up frees the server (`HangUpReleases`). |
| `Pools` | Two or three pools compete for the ports, in every way the file can list devices. | Nothing is shared, limits and exclusions hold in every order, a pool of whole devices leaves none idle that it may take (`PrimaryFilled`). Every step is one of `DeviceShares` (`ImplementsDeviceShares`): what a pool was given stays with it. |
| `Cni` | A device goes through two pods, with every configuration and up to three failing calls or reboots; the second pod may get it while DEL of the first is at work or is being retried; sandboxes are made anew. | Addresses only under a lease (`AddressLeased`), only a pod's own DEL takes its device (`OnlyOwnDel`), what is set up for a pod is undone by no other call but one that was under way when the device was given on (`SetupLostTo`), a call that succeeds has done its whole work (`AddUsable`, `DelReleases`). A lease that no DEL comes to is left only by an error of the pod's own call, or a reboot (`LeaseStrandedBy`), and by none while nothing has failed of itself and no device was given on early (`CalmStrandsNone`). All calls together are steps of `DeviceLease` (`ImplementsDeviceLease`). |
| `Bpf` | Two pods take turns at three devices of two pools; the plugin is terminated, dies, starts again; a call fails anywhere, DelNetDev may outlive its caller, and a device may be with the next pod before DelNetDev was called, or while it is at any of its steps. | The table points to the map of the pod that has the device (`EntryOfHolder`); its map is taken away only by Terminate, by its own DelNetDev, or by one that was not done when the device was given on (`PinLostFor`); without a failure no mount is left behind but that of a device given on so early, or of a request that such a device made fail (`NothingLeaks`), and no request is turned down but for a pool of another user or a device still away (`RejectedByUserPool`). |
| `Kind` | The plugin builds the network of a Kind cluster, fails or is killed at any step, starts again over what is there, while pods take and return veths and vanish with them; hosts of several kernels, with two, three or four numbers. | It goes on to its pools only over a complete network (`Wired`), never takes a veth out of a pod (`PodKeepsVeth`), serves on a kernel that is too old only if its version has more than three numbers or one that is too long (`KernelRecent`), and gets to run again after every failure if no pod keeps a veth for ever (`RecoversOnceFree`). |
| `Manager` | Two pools are served, registered and listed while the kubelet connects, calls Allocate for two pods, restarts, loses streams; calls fail; the plugin is stopped, dies and starts over its old sockets. | Allocate never meets a pool without the manager it needs (`AllocateReady`); a listed pool is one a signal terminates (`ListedIsKept`); a UDS server serves exactly what its pod holds unless a device was passed over (`Provable`); a life without trouble initialises every pool over whatever was left (`RestartKeepsAll`), and gets there (`InitEnds`). |

Five runs show the code disagreeing with a statement of the repository:

| Run | Code | Statement |
|---|---|---|
| `UdsPollRestored` | `Configure_busy_poll` returns 0 after it restored the socket, and the client is told `/config_busy_poll_ack` (bpfWrapper.c:138) | "successfully configured" (constants.go:103) |
| `PoolCdq` | A primary without a free subfunction is never marked full, is found again by the next pool and fills its limit (device.go:78-122) | device.go:281, README.md:269 |
| `PoolListed` | A device identified by MAC or PCI address is resolved to a name that is then not used (config.go:225) | README.md:301 |
| `BpfUser` | A UID other than 0 puts an access control list on the base directory of the pool, which changes the mode that is then required to be 0755: no Allocate succeeds (mapManager.go:137, 220) | README.md:420, 429 |
| `CniLease` | After IPAM gave an address, ADD may fail without giving it back, and DEL fails before it releases the lease when the device is not in the pod (cni.go:198, 313) | "Deleting IPAM to prevent IP leak" (cni.go:428) |

More divergences are in the models, as the code has them, without a run of their
own. Where a property is named, it is violated once the exception it makes for the
divergence is dropped from it.

* If the pod resources socket cannot be dialled, the
  error path calls `Close` on a nil connection and panics; the plugin is gone and
  the client gets nothing, where constants.go:108 has `/error` for a problem of
  the plugin (resources_api.go:86). `ConnectAnswered` excepts a process that is dead.
* A busy-poll request without a descriptor is refused and then handled all the
  same: a malformed one gets two answers and the connection goes on (`InStep`
  without `RefusedTwice` fails), a well-formed one is tried on descriptor 0
  (udsserver.go:294, against docs/sequence.puml).
* When the List call fails, after `/error` the server goes on and writes
  `/host_nak` too (udsserver.go:181-199); the connection ends with it.
* Of two pods of one name in two namespaces only the last listed one is looked at,
  and a valid pod refused (resources_api.go:68). A name of more than 53 characters is
  cut, and a valid pod not found (constants.go:79). Both against constants.go:98;
  they are the exceptions of `NakMeansInvalidName` (`Confused`).
* Every read sets the deadline of the connection anew, so a client that keeps sending
  requests keeps the socket (uds.go:173-178). `SocketReclaimed` excepts it
  (`SendingEnds`).
* `excludeAddressed` leaves out devices without any address too, because an
  empty slice is not nil (config.go:379, against README.md:265-267).
* A node listed without devices and drivers makes the whole file invalid
  (configFile.go:175, against README.md:355).
* File systems that are mounted stay mounted when a request fails after the
  mount, when the plugin ends (`RemoveAll` empties but does not unmount them,
  mapManager.go:154) and when it dies; no later start looks for them.
* The table of maps is written by Allocate and read by DelNetDev without a lock
  (mapManager.go:256, 283), which the Go runtime may answer by ending the process.
* In a Kind cluster, a plugin that is started again while a pod holds a veth can
  neither delete nor make the pair, and ends; it is started, and ends, until the
  pod is gone, although veth.go:39 logs that an interface that exists "will be
  recreated" (veth.go:42). `RecoversOnceFree` without its condition fails.
* `DeleteKindNetwork` deletes no veth: its loop runs from the offset, 6, up to the
  number of veths, 4 (kind.go:99-107). Nothing is lost, because the veths are
  deleted one by one when they are made again.
* A device that cannot be cycled is passed over but still given to the container;
  the UDS server then has fewer devices than the pod and refuses it
  (poolManager.go:240). `Provable` without `passed[p] = {}` fails.
* After a kubelet restart, or when the kubelet's stream breaks, a pool registers
  and signals no more: it stays without devices until the plugin is restarted
  (poolManager.go:122, 161). It may also happen that a ListAndWatch of a broken
  stream takes the only signal.
* A sandbox that is made anew gets its device without the program that DEL took
  off it, because the kubelet does not call Allocate again (cni.go:349-357).
* A reboot keeps the lease, and DEL fails because the namespace is gone
  (cni.go:290), as in `CniLease`.
* A syncer that cannot start is logged as if main went on (main.go:103-107), but
  ends the process in GetPoolConfigs (config.go:104-107).
* The Go client library dials the directory that the sockets are mounted below
  (goclient.go:120, against poolManager.go:209), and it takes `/host_nak` for a
  success of its initialisation.
* The kubelet gives a device on without waiting for DelNetDev. A call that reads the
  table after the next pod's `AddMap` deletes that pod's map (`PinLostFor` allows it
  because the code does), whether its CNI process still waits or was killed. And
  with `AddMap` before it reads, the old path is forgotten and its mount left behind,
  although nothing failed (mapManager.go:256, 294-307; the exceptions of
  `NothingLeaks`).
* A kernel version is read as one integer from however many numbers it has, each
  padded to four digits (tools.go:95-98). 2.6.32.12, in four numbers, reads as
  newer than the minimum 4.18.0, and so does a version with a number of five digits
  (`KernelRecent` excepts them as `Misread`); 5.4, in two numbers, reads as older and
  is refused.

### Bounds

* **UDS server**: one or two clients (the server accepts one; the second is the
  one that must not profit); two devices of which one is served, so that a pod can
  hold nothing, too little, too much, the right devices, or the right ones in one of
  two containers. `UdsClients` has three pods: two of one name, of which one may be
  valid and the other not, and one whose name is cut to theirs. The number of
  messages is not bounded, only how many wait in the socket: `SockBuf` is one per
  direction (two in `UdsPollRestored`), besides the request that is handled, so that
  writes block and a request waits behind another. `ValidatePod` is atomic: pods
  change before and after it.
* **Pools**: two ports with subfunctions, one without, one veth; limits 0 to 2,
  two subfunctions per port, exclusion lists, repeated entries, devices by name,
  MAC and PCI address, entries for this node and for others. Two pools suffice
  for every competition, three for the marks one leaves for the one after next.
* **CNI**: two pods in turn, every configuration (64), three faults, a reboot being
  one: one may break ADD, one DEL, one the retry. Faults that follow from the state of the
  model (a device that is not there) are not counted.
* **Maps**: two pods, since a device changes hands between two; three devices,
  two of one pool and one of another, so that a request has several devices and
  one pool ends before the other; one pool has a user. Two starts of the plugin
  and one failure, which may cut off a caller or break a step; what is late or
  overlaps, and what follows from a state left behind, is not counted.
  The pods are interchangeable, and `Bpf` checks safety
  only, so their symmetry is used.

* **Pool managers**: two pools, so that one waits behind the other and one may fail
  while the other is kept; the first has two devices, a UDS server and pinned
  maps, the second a UDS server. Two pods, of which the second finds what the
  first left. Two faults in two lives: a kubelet restart, a broken stream or a
  failing call, in the first life or over what it left.
* **Kind**: two pairs, one to be made while the other is done; two pods, so that a
  veth changes hands; three faults, so that a start fails over a failed start.
  Kernel versions equal to the minimum, above it, below it in the first and in the
  second number, with two numbers, with four, with one that is too long, and one that
  does not parse. Numbers are padded to two digits instead of four (`Radix` is 100),
  because TLC's integers have 32 bits.

### Fairness

* `UdsServer!FairSpec` is weak fairness of the server's steps together: the Go
  scheduler runs a goroutine that can run and the poller ends a read or write
  whose deadline passed. While it waits in accept or read without a deadline no
  step is enabled, so nothing is assumed of that. Nothing is assumed of clients, the
  kubelet, errors of the socket (`SocketFails`), or the life of the process.
* `CniPlugin!FairSpec` is weak fairness of the steps of each pod's calls and of
  the runtime making the DEL that a stopping pod is due. Faults are finite.
* `KindNetwork!FairSpec` is weak fairness of main with its restart: the DaemonSet
  restarts a container that ended (its default, and only, restart policy).
* `PoolManager!FairSpec` is weak fairness of Init on the main goroutine and of the
  kubelet's connecting to a pool that has called Register, which the kubelet does
  before it answers the call. Nothing is assumed of pods, signals or restarts.
* Only liveness properties depend on fairness. Deadlock is checked for the UDS
  server, where clients can always act; `PoolConfig` is an algorithm that ends,
  in `CniPlugin` and `BpfMaps` the pods end, and in `KindNetwork` and `PoolManager`
  a plugin may have nothing left to do.

## 4. What is proved

All theorems hold for every value of the constants that satisfies the named
assumption of the module (`UdsAssumption`, `PoolAssumption` of `PoolConfig` and of `PoolManager`,
`CniAssumption`, `BpfAssumption`, `KindAssumption`). These only state types, that
special values are distinct, that devices are finitely many, that a pool has a
device, and, of kernel versions, that they have one to five numbers (with six, padded,
the integer does not fit 64 bits and the version does not parse), none more than
one digit longer than its padding, and that the minimum has three, none longer than
its padding. No device need be served: when Allocate passed over every device of a
request, the server serves none and trusts nobody. TLC evaluates the assumptions in
the runs.

* **`UdsServer_proofs`**: `TypeCorrect`, `GrantSafety` (`GrantsAreProved`),
  `InStepSafety` (`InStep`) and `Refinement` (`Spec => FdService!Spec`). `GrantsAreProved` is not inductive: it
  says nothing about answers that are queued. `IInv` adds that trust comes with
  a proof that equals the served devices (`TrustProved`), at which places of
  the loop somebody can be trusted at all (`TrustPlaced`), that a queued
  descriptor is a served device and belongs to a trusted client
  (`PendingGrants`), and that what was granted is bounded by these
  (`GrantsBounded`). The step from "same length and every device is served" to
  equality of the sets is the lemma `MatchIsExact`, on cardinalities of finite
  sets. `InStep` needs to know what is still queued (`AnswersLeft`): the answers
  given and those in the queue come to one at most, unless the end follows. The
  refinement maps each action to a step of the service or to none.
  `NakSafety` (`NakMeansInvalidName`) is the converse of `GrantSafety`: a pod that
  holds exactly what is served is refused only if its name was cut, or another listed
  pod has the same name. It has no hypotheses, so these two divergences, listed above,
  are the only ones. It is a fact about the step that validates and needs no
  invariant: the set that equals the served one passes the length test and the
  membership test (`HolderMatches`).
  `AckSafety` (`AckNeverHalfway`) says what is
  left of the promise that `UdsPollRestored` refutes: through every outcome of the
  four calls to the kernel, and from every state a client may pass a socket in,
  success is reported for a socket that is configured or restored.
  `ServerForward` (`OnlyForward`, which no run checks) orders the places of the
  goroutine; it is the safety half of `SocketReclaimed` and `HangUpReleases`, to
  which fairness adds only that the goroutine takes its steps.
* **`PoolConfig_proofs`**: `TypeCorrect`, `NothingShared` (`NoSharedDevice`),
  `ExclusionSafety` (`ExcludedStaysOut`) and `Refinement`
  (`Spec => DeviceShares!Spec`).
  The invariant adds that every device a pool has is marked on its port
  (`PoolsMarked`, `CurrentMarked`), that pools are disjoint (`PoolsApart`,
  `CurrentApart`), and that the pool in the making has no entry for a port that
  was given away whole (`EntriesFree`): entries are made when a port is free and
  assigned later, and only the fact that one pool is made at a time closes the
  gap. For exclusion every entry, and every device taken, is justified by a line
  of the pool's own part of the file (`EntriesJustified`, `CurrentJustified`,
  `PoolsJustified`), the drivers left to search being such lines (`DriversLeft`).
  In the refinement a share is given when an entry becomes a device, not when the
  pool is finished: what is in hand counts as given (`InHand`). The marks show that
  it was free (`GivenMarked`), and `FinishedGiven` that nothing is lost or added
  when the pool is appended to the result.
* **`PoolLimit_proofs`**: `LimitSafety` (`LimitRespected`) and `PrimarySafety`
  (`PrimaryFilled`), on top of the invariant of `PoolConfig_proofs`. A driver may be
  listed twice, and both entries then count the same devices, so the limit cannot
  be read off a pool by counting: `LimitRespected` says that there is a way to put
  each device down to one of the entries with no entry above its limit. The
  proof builds that function as the search goes on. `GotAttributed` has it for the
  drivers done, `Suffix` says that the drivers left are the tail of the pool's
  list, and a turn of the loop extends the function by what the driver found,
  which `Found` cuts to the limit. For `PrimarySafety`, `DriversSated` says that
  each driver done is at its limit or has nothing left to take; later drivers and
  pools only take away (`StaysSated`).
* **`CniPlugin_proofs`**: `TypeCorrect`, `AddressSafety` (`AddressLeased`),
  `OwnDelOnly` (`OnlyOwnDel`), `AddSafety` (`AddUsable`), `DelSafety`
  (`DelReleases`), `SetupSafety` (`SetupLostTo`) and `Refinement`
  (`Spec => DeviceLease!Spec`). The invariant says of each step what the steps before it have
  established and no call for another pod undoes: the device stays where ADD put
  it and comes up (`Held`, `Ready`), the lease is there (`Paid`), and DEL has
  left device, lease and program behind in turn (`Left`, `Released`,
  `Unloaded`). `RunningBy` and `GoneBy` say which step makes a call succeed. Who
  has the device set up is its `holder` (`Holding`), and any other pod whose DEL is
  past its first step was so when the device was given on (`Early`): that is why
  nothing but such a DEL can undo the setup. The refinement needs `Paid`, `Unpaid`
  and `Left`: the device comes to a pod under a lease and has left before the lease
  is returned. `StrandedOnlyBy` (`LeaseStrandedBy`) and `CalmSafety`
  (`CalmStrandsNone`) measure the leak that `CniLease` shows. A lease is stranded
  when its pod does not have the device and no call of the pod is at a step that
  leads to either; the first theorem lists the four steps whose error strands
  one, the second says that nothing else does. It needs `OnHost`: between lease
  and move the device is on the host. That is so because `AddFind` looks for the
  device before `AddIpam` leases the address, and it ends with the first
  device given on early.
* **`BpfMaps_proofs`**: `TypeCorrect`, `EntrySafety` (`EntryOfHolder`),
  `LeakFreedom` (`NothingLeaks`), `PinSafety` (`PinLostFor`) and `UserPoolsOnly`
  (`RejectedByUserPool`). The key of the invariant is `Exclusive`: of the allocations
  of one device at most one is being made or held, where one whose pod has ended is
  held until its DelNetDev is done or the device is given on. Nothing keeps the calls
  for earlier pods from running all the while; what they can point to is confined by
  `EntriesDone` (a path in the table, or in a deletion under way, was completed once)
  and `EntryOfUser` (the entry of a device in use is its own). A call for an
  allocation that is neither in use nor done is in `late`, by `Request`, which is what
  `PinSafety` concludes with. `Calm` carries `NothingLeaks`: as long as nothing has
  failed, a map that is done has its entry in the table, and, for devices that were not
  given on early (`MapInPlace`), DelNetDev finds what it has to unmount before the call
  ends. `UserPoolsOnly` confines what `BpfUser` shows: `Calm` follows a request through
  every step of Allocate, and only the base directory of another user's pool, or a
  device that an earlier pod has yet to give back (`Away`), can turn it down.
* **`PoolManager_proofs`**: `TypeCorrect`, `ReadySafety` (`AllocateReady`),
  `ListedSafety` (`ListedIsKept`), `ProvableSafety` (`Provable`) and `RestartSafety`
  (`RestartKeepsAll`). None of the four is inductive. `KeptOK` adds that a kept pool
  that pins has its manager, and so has the pool whose signal is due; since only
  the signal makes a list, a listed pool is kept and ready. `Request` follows one
  Allocate: the devices asked for are those served, passed over, at hand or left,
  and its pool is kept. `Undisturbed` says that while nothing has gone wrong the
  pools before the current one are kept, and that a process starts at the first.
* **`KindNetwork_proofs`**: `TypeCorrect`, `WiredSafety` (`Wired`), `KeepsVeth`
  (`PodKeepsVeth`) and `KernelSafety` (`KernelRecent`). `Built` says of each step of
  the loop what it has established for the pairs before the current one, and for
  the current one; a pair that goes with a pod takes its obligations with it.
  `NextPair` is the arithmetic of the loop. `KernelSafety` rests on `IntKeepsOrder`:
  reading a version that is not `Misread` as one integer, whatever the radix, keeps it
  below the minimum if it is below it; with fewer than three numbers it only reads lower
  (`LeadingPart`, `PadGrows`).

Every invariant and every action property of a passing run is stated by a theorem,
and so are the three refinements. Only model-checked is liveness (`SocketReclaimed`,
`HangUpReleases`, `ConnectAnswered`, `RecoversOnceFree`, `InitEnds`), because TLAPS
does not reach what follows from fairness.

## 5. What is not modelled

* The client libraries: at this commit `initFunc` dials a directory
  (goclient.go:120) and can reach no server, so there is no session to model. What
  any client may send, and when it may hang up, is in `UdsServer`.
* The random names of sockets, but for their running out, and socket files of UDS
  servers left behind by a plugin that died: they are never removed, because
  nobody looks for them.
* The descriptors a busy-poll request brings along, which are never closed; the
  fuzzing variant of the UDS server.
* Regular expressions and fields that only reach logs or other components; the
  parsing of JSON; `GetPluginConfig`; the content of Allocate's response.
* Of DEL, in `BpfMaps`, that it is made again and calls DelNetDev once more: `CniPlugin`
  has it.
* Reboots, for the pinned maps: the node comes back without mounts, table and
  pods, as in the initial state of `BpfMaps`. `CniPlugin` has them.
* Of the host checks and tools, how a version is read and a library found: files,
  commands and strings. `cmd/cni/main.go` hands over to the CNI library.
* `internal/bpf/bpfWrapper.go` and the loading of programs: calls whose outcome is
  a step of the modules that make them.
* Of the map manager: `RemoveAll` that fails halfway, two file systems of one
  random name. Of the pools: a pool without devices, for which Init sends no
  signal; a name of a socket that is a directory.
* The fakes used by tests (`*_fake.go`).

## 6. Plan

Each module takes its parameters as CONSTANTS with a named assumption, has one
action per operation, and uses no RECURSIVE operator, so that it can be proved
about. Done, in this order: `FdService`, `BusyPoll`, `UdsServer`; `DeviceShares`, `PoolConfig`;
`DeviceLease`, `CniPlugin`; `BpfMaps`; `PoolManager`; `KindNetwork`; each with its
proofs.

What remains:

1. `GoClient`, over `UdsServer`, once the library dials a socket: what it reports
   is what the server did, and a descriptor is for the device that was asked for.
2. The composition of `PoolManager`, which starts UDS servers, with `UdsServer`,
   which serves one: a pod gets its descriptors in the end.
