---------------------------- MODULE PoolManager ----------------------------
(***************************************************************************)
(* The device plugin's pools between the kubelet and the pods: main        *)
(* (cmd/deviceplugin/main.go) initialises one pool manager after another   *)
(* (internal/deviceplugin/poolManager.go), each of which serves a socket,  *)
(* registers with the kubelet, and lists its devices once, when Init meets *)
(* the kubelet's ListAndWatch on the channel UpdateSignal.  From then on   *)
(* the kubelet calls Allocate.                                             *)
(*                                                                         *)
(* Init runs on the main goroutine, ListAndWatch and Allocate each on one  *)
(* of their own.  The kubelet may restart, a stream may break, any call    *)
(* may fail and the process may die; the DaemonSet starts it again.        *)
(* How a map is pinned is in BpfMaps, what a UDS server does once it is    *)
(* started in UdsServer.                                                   *)
(***************************************************************************)
EXTENDS Naturals

CONSTANTS
  NumPools,   \* pools, in the order of the configuration
  Devices,
  NoDevice,
  PoolOf,     \* PoolOf[d]: the pool of device d
  UdsPools,   \* pools with UdsServerDisable off,
  PinPools,   \* ... with BpfMapPinningEnable on; README.md has these disjoint,
              \* but no code enforces it
  Pods,
  MaxFaults,  \* bound: calls that fail, restarts of the kubelet, deaths
  MaxLives    \* bound: starts of the plugin process

Pools == 1..NumPools

ASSUME PoolAssumption ==
  /\ NumPools \in Nat \ {0}
  /\ NoDevice \notin Devices
  /\ PoolOf \in [Devices -> Pools] /\ \A q \in Pools : \E d \in Devices : PoolOf[d] = q
  /\ UdsPools \subseteq Pools /\ PinPools \subseteq Pools
  /\ MaxFaults \in Nat /\ MaxLives \in Nat

VARIABLES
  main,       \* the step of main, or of Init for the pool it is at
  at,         \* that pool
  kept,       \* pools that are initialised: dp.pools
  socket,     \* pools whose socket file is there,
  serving,    \* ... that have a gRPC server,
  manager,    \* ... and a map manager
  kubelet,    \* kubelet[q]: how far the kubelet is with pool q
  ghosts,     \* pools with a ListAndWatch whose stream is broken
  pod,        \* pod[p]: where the kubelet is with pod p
  handler,    \* handler[p]: the step of Allocate for p
  from,       \* from[p]: the pool that p has devices of,
  want,       \* want[p]: these devices,
  left,       \* left[p]: those that Allocate has not come to,
  current,    \* current[p]: the one it is at,
  passed,     \* passed[p]: those it has passed over,
  served,     \* served[p]: those that the UDS server of p has a descriptor for
  uds,        \* uds[p]: that server
  hurt,       \* something went wrong in this life of the process
  faults, lives

plugin   == <<at, kept, socket, serving, manager>>
requests == <<pod, handler, from, want, left, current, passed, served, uds>>
counters == <<hurt, faults, lives>>
vars     == <<main, plugin, kubelet, ghosts, requests, counters>>

Init ==
  /\ main = "down" /\ at = 1
  /\ kept = {} /\ socket = {} /\ serving = {} /\ manager = {}
  /\ kubelet = [q \in Pools |-> "none"] /\ ghosts = {}
  /\ pod = [p \in Pods |-> "new"]
  /\ handler = [p \in Pods |-> "none"]
  /\ from = [p \in Pods |-> 1]
  /\ want = [p \in Pods |-> {}] /\ left = [p \in Pods |-> {}]
  /\ current = [p \in Pods |-> NoDevice]
  /\ passed = [p \in Pods |-> {}] /\ served = [p \in Pods |-> {}]
  /\ uds = [p \in Pods |-> "none"]
  /\ hurt = FALSE /\ faults = 0 /\ lives = 0

Fault   == faults < MaxFaults /\ faults' = faults + 1 /\ hurt' = TRUE /\ UNCHANGED lives
NoFault == UNCHANGED counters

\* The connections between the kubelet and these pools break: the kubelet takes
\* their devices off its list and a request it waits for as failed.
Disconnect(Q) ==
  /\ kubelet' = [q \in Pools |-> IF q \in Q THEN "none" ELSE kubelet[q]]
  /\ pod' = [p \in Pods |-> IF pod[p] = "waiting" /\ from[p] \in Q
                            THEN "rejected" ELSE pod[p]]

\* Their ListAndWatch does not notice: it waits on, for the signal.
Ghosts(Q) ==
  ghosts \cup {q \in Q : kubelet[q] \in {"watching", "signalled", "listed"}}

\* The process is gone, and its goroutines with it; its socket files stay.
Die ==
  /\ main' = "down" /\ at' = 1
  /\ kept' = {} /\ serving' = {} /\ manager' = {} /\ ghosts' = {}
  /\ Disconnect(Pools)
  /\ handler' = [p \in Pods |-> "none"]
  /\ uds' = [p \in Pods |-> IF uds[p] = "none" THEN "none" ELSE "gone"]
  /\ left' = [p \in Pods |-> {}] /\ current' = [p \in Pods |-> NoDevice]
  /\ UNCHANGED <<socket, from, want, passed, served>>

-----------------------------------------------------------------------------
(***************************************************************************)
(* main, and Init of the pool it is at.                                    *)
(***************************************************************************)
\* Faulty variants: the map manager is created after the pool was listed; the
\* signal is sent before the kubelet knows of the pool.
AfterManagerLast(step, q) ==
  CASE step = "serve"    -> "register"
    [] step = "register" -> "signal"
    [] step = "signal"   -> IF q \in PinPools THEN "manager" ELSE "done"
    [] step = "manager"  -> "done"

AfterSignalFirst(step, q) ==
  CASE step = "serve"    -> "signal"
    [] step = "signal"   -> "register"
    [] step = "register" -> IF q \in PinPools THEN "manager" ELSE "done"
    [] step = "manager"  -> "done"

\* The order of the steps of Init.
After(step, q) ==
  CASE step = "serve"    -> "register"
    [] step = "register" -> IF q \in PinPools THEN "manager" ELSE "signal"
    [] step = "manager"  -> "signal"
    [] step = "signal"   -> "done"

\* Faulty variant: the loop goes one pool too far.
NextPoolOneMore ==
  IF at <= NumPools THEN main' = "serve" /\ at' = at + 1
                    ELSE main' = "wait" /\ at' = at

\* main goes on to the next pool, or to waiting for a signal.
NextPool ==
  IF at < NumPools THEN main' = "serve" /\ at' = at + 1
                   ELSE main' = "wait" /\ at' = at

\* Init goes on, returns, or returns an error, for which the pool is not kept;
\* what it has made by then is left as it is.
Continue ==
  LET step == After(main, at) IN
  IF step = "done" THEN NextPool /\ kept' = kept \cup {at}
                   ELSE main' = step /\ UNCHANGED <<at, kept>>
InitError == NextPool /\ UNCHANGED kept

\* The DaemonSet starts the process.  Anything that fails before the pools ends it,
\* a syncer that cannot start too: main only logs that, but GetPoolConfigs then has
\* no syncer to give the pools and returns an error.
Start ==
  /\ main = "down" /\ lives < MaxLives
  /\ lives' = lives + 1
  /\ \/ main' = "serve" /\ hurt' = FALSE /\ UNCHANGED faults
     \/ /\ UNCHANGED main
        /\ faults < MaxFaults /\ faults' = faults + 1 /\ hurt' = TRUE
  /\ UNCHANGED <<at, kept, socket, serving, manager, kubelet, ghosts, requests>>

\* Faulty variant: the file of an earlier process is left.
CleanupMissing(q) == socket

\* A socket file of this name is removed,
Cleanup(q) == socket \ {q}

\* ... so that the socket can be listened on; then a gRPC server is started and
\* its connection tested.
StartGRPC ==
  /\ main = "serve"
  /\ \/ /\ NoFault
        /\ IF at \in Cleanup(at)
           THEN InitError /\ UNCHANGED <<socket, serving>>
           ELSE Continue /\ socket' = socket \cup {at} /\ serving' = serving \cup {at}
     \/ /\ Fault /\ InitError
        /\ \/ socket' \in {socket, Cleanup(at)} /\ UNCHANGED serving
           \/ socket' = socket \cup {at} /\ serving' = serving \cup {at}
  /\ UNCHANGED <<manager, kubelet, ghosts, requests>>

\* One call of Register, never repeated.  A failing one may have been heard.
RegisterWithKubelet ==
  /\ main = "register"
  /\ \/ NoFault /\ Continue /\ kubelet' = [kubelet EXCEPT ![at] = "called"]
     \/ Fault /\ InitError /\ kubelet' \in {kubelet, [kubelet EXCEPT ![at] = "called"]}
  /\ UNCHANGED <<socket, serving, manager, ghosts, requests>>

\* The manager is made and handed to the syncer.
CreateMapManager ==
  /\ main = "manager"
  /\ \/ NoFault /\ Continue /\ manager' = manager \cup {at}
     \/ Fault /\ InitError /\ UNCHANGED manager
  /\ UNCHANGED <<socket, serving, kubelet, ghosts, requests>>

\* The channel has no buffer: Init waits for a ListAndWatch to take the signal,
\* be its stream alive or broken.  (A pool without devices, for which Init would
\* not wait, is not in the configuration.)
UpdateSignal ==
  /\ main = "signal"
  /\ \/ kubelet[at] = "watching" /\ kubelet' = [kubelet EXCEPT ![at] = "signalled"]
     \/ at \in ghosts /\ UNCHANGED kubelet
  /\ Continue /\ NoFault
  /\ UNCHANGED <<socket, serving, manager, ghosts, requests>>

\* A signal ends the process right away until main waits for it.  Then each pool
\* that was kept is terminated; the first one stops the syncer.
Signal ==
  /\ main = "wait"
  /\ main' = "stop"
  /\ UNCHANGED <<plugin, kubelet, ghosts, requests, counters>>

Terminate(q) ==
  /\ main = "stop" /\ q \in kept \cap serving
  /\ serving' = serving \ {q} /\ socket' = Cleanup(q)
  /\ ghosts' = Ghosts({q}) /\ Disconnect({q})
  /\ NoFault
  /\ UNCHANGED <<main, at, kept, manager,
                 handler, from, want, left, current, passed, served, uds>>

Exit  == main = "stop" /\ kept \cap serving = {} /\ Die /\ NoFault
Crash == main # "down" /\ Die /\ Fault

InitStep   == StartGRPC \/ RegisterWithKubelet \/ CreateMapManager \/ UpdateSignal
PluginStep == Start \/ InitStep \/ Signal \/ (\E q \in Pools : Terminate(q)) \/ Exit \/ Crash

-----------------------------------------------------------------------------
(***************************************************************************)
(* The kubelet.                                                            *)
(***************************************************************************)
\* After a call of Register it connects to the pool and calls ListAndWatch.
Connect(q) ==
  /\ kubelet[q] = "called"
  /\ \/ q \in socket \cap serving /\ NoFault
        /\ kubelet' = [kubelet EXCEPT ![q] = "watching"]
     \/ (Fault \/ (q \notin socket \cap serving /\ NoFault))
        /\ kubelet' = [kubelet EXCEPT ![q] = "none"]
  /\ UNCHANGED <<main, plugin, ghosts, requests>>

\* The list that ListAndWatch sends after the signal; an error is only logged.
ListAndWatch(q) ==
  /\ kubelet[q] = "signalled"
  /\ \/ NoFault /\ kubelet' = [kubelet EXCEPT ![q] = "listed"] /\ UNCHANGED <<ghosts, pod>>
     \/ Fault /\ Disconnect({q}) /\ ghosts' = Ghosts({q})
  /\ UNCHANGED <<main, plugin, handler, from, want, left, current, passed, served, uds>>

StreamBreaks(q) ==
  /\ kubelet[q] \in {"watching", "listed"}
  /\ Disconnect({q}) /\ ghosts' = Ghosts({q}) /\ Fault
  /\ UNCHANGED <<main, plugin, handler, from, want, left, current, passed, served, uds>>

\* A kubelet that starts removes the sockets of all plugins and waits for them to
\* register, which this one does only when it starts.
KubeletRestarts ==
  /\ Disconnect(Pools) /\ ghosts' = Ghosts(Pools) /\ Fault
  /\ socket' = {}
  /\ UNCHANGED <<main, at, kept, serving, manager,
                 handler, from, want, left, current, passed, served, uds>>

KubeletStep ==
  \/ KubeletRestarts
  \/ \E q \in Pools : Connect(q) \/ ListAndWatch(q) \/ StreamBreaks(q)

-----------------------------------------------------------------------------
(***************************************************************************)
(* Allocate.                                                               *)
(***************************************************************************)
\* The UDS server of a request, in a pool that has them.  There is none without a
\* name for its socket: the pool's directory cannot be made or has another mode,
\* or the random names are taken.
CreateServer(p, q) ==
  uds' = [uds EXCEPT ![p] = IF q \in UdsPools THEN "created" ELSE "none"]
NoSocketName(q) == q \in UdsPools /\ Fault

\* The kubelet allocates for one pod at a time, and no device that a pod has.
Allocate(p, q, D) ==
  /\ pod[p] = "new" /\ kubelet[q] = "listed"
  /\ D # {} /\ \A d \in D : PoolOf[d] = q
  /\ \A r \in Pods : pod[r] # "waiting" /\ (pod[r] = "running" => want[r] \cap D = {})
  /\ \/ /\ NoFault
        /\ pod' = [pod EXCEPT ![p] = "waiting"]
        /\ handler' = [handler EXCEPT ![p] = "next"]
        /\ from' = [from EXCEPT ![p] = q]
        /\ want' = [want EXCEPT ![p] = D] /\ left' = [left EXCEPT ![p] = D]
        /\ CreateServer(p, q)
     \/ /\ NoSocketName(q)
        /\ pod' = [pod EXCEPT ![p] = "rejected"]
        /\ UNCHANGED <<handler, from, want, left, uds>>
  /\ UNCHANGED <<main, plugin, kubelet, ghosts, current, passed, served>>

\* An error ends the request.  The UDS server was not started and is dropped.
Fail(p) ==
  /\ handler' = [handler EXCEPT ![p] = "none"]
  /\ uds' = [uds EXCEPT ![p] = "none"]
  /\ pod' = [pod EXCEPT ![p] = IF @ = "waiting" THEN "rejected" ELSE @]
  /\ left' = [left EXCEPT ![p] = {}] /\ current' = [current EXCEPT ![p] = NoDevice]

\* Allocate goes on with device d, or is done with it.
Proceed(p, step, d) ==
  /\ handler' = [handler EXCEPT ![p] = step]
  /\ current' = [current EXCEPT ![p] = IF step = "next" THEN NoDevice ELSE d]
  /\ UNCHANGED <<uds, pod>>

\* The steps for a device, as far as the pool has them.
AfterCycle(q) == IF q \in UdsPools THEN "load" ELSE IF q \in PinPools THEN "pin" ELSE "next"
AfterLoad(q)  == IF q \in PinPools THEN "pin" ELSE "next"

\* Faulty variant: every container gets a UDS server of its own.
NextDeviceNewServer(p, d) ==
  /\ handler[p] = "next" /\ d \in left[p]
  /\ left' = [left EXCEPT ![p] = @ \ {d}]
  /\ served' = [served EXCEPT ![p] = {}]
  /\ Proceed(p, AfterCycle(from[p]), d) /\ NoFault
  /\ UNCHANGED <<main, plugin, kubelet, ghosts, from, want, passed>>

\* ActivateCdqSubfunction fails the request, if there is a subfunction to make.
\* A device that cannot be cycled is only passed over: the pod gets it all the same.
NextDevice(p, d) ==
  /\ handler[p] = "next" /\ d \in left[p]
  /\ \/ /\ NoFault /\ Proceed(p, AfterCycle(from[p]), d)
        /\ left' = [left EXCEPT ![p] = @ \ {d}] /\ UNCHANGED passed
     \/ /\ Fault /\ Proceed(p, "next", d)
        /\ left' = [left EXCEPT ![p] = @ \ {d}]
        /\ passed' = [passed EXCEPT ![p] = @ \cup {d}]
     \/ Fault /\ Fail(p) /\ UNCHANGED passed
  /\ UNCHANGED <<main, plugin, kubelet, ghosts, from, want, served>>

\* The descriptor of the map goes to the UDS server.
LoadBpfSendXskMap(p) ==
  /\ handler[p] = "load"
  /\ \/ /\ NoFault /\ Proceed(p, AfterLoad(from[p]), current[p]) /\ UNCHANGED left
        /\ served' = [served EXCEPT ![p] = @ \cup {current[p]}]
     \/ Fault /\ Fail(p) /\ UNCHANGED served
  /\ UNCHANGED <<main, plugin, kubelet, ghosts, from, want, passed>>

\* The map manager is used without a look whether there is one (AllocateReady).
\* Once the pool is terminated, its directory may be gone.
PinXskMap(p) ==
  /\ handler[p] = "pin"
  /\ \/ NoFault /\ Proceed(p, "next", current[p]) /\ UNCHANGED left
     \/ Fault /\ Fail(p)
     \/ from[p] \notin serving /\ NoFault /\ Fail(p)
  /\ UNCHANGED <<main, plugin, kubelet, ghosts, from, want, passed, served>>

\* With every device done the UDS server is started, on its own goroutine, and
\* the kubelet answered, if it still waits.
Answer(p) ==
  /\ handler[p] = "next" /\ left[p] = {}
  /\ handler' = [handler EXCEPT ![p] = "none"]
  /\ uds' = [uds EXCEPT ![p] = IF from[p] \in UdsPools THEN "started" ELSE @]
  /\ pod' = [pod EXCEPT ![p] = IF @ = "waiting" THEN "running" ELSE @]
  /\ NoFault
  /\ UNCHANGED <<main, plugin, kubelet, ghosts, from, want, left, current, passed, served>>

AllocateStep ==
  \E p \in Pods :
    \/ \E q \in Pools : \E D \in SUBSET Devices : Allocate(p, q, D)
    \/ \E d \in Devices : NextDevice(p, d)
    \/ LoadBpfSendXskMap(p) \/ PinXskMap(p) \/ Answer(p)

Next == PluginStep \/ KubeletStep \/ AllocateStep

Spec == Init /\ [][Next]_vars

(***************************************************************************)
(* Init runs when it can, and a kubelet that was called connects.  Nothing *)
(* is assumed of pods, of signals or of the DaemonSet.                     *)
(***************************************************************************)
FairSpec == Spec /\ WF_vars(InitStep) /\ \A q \in Pools : WF_vars(Connect(q))

-----------------------------------------------------------------------------
\* Every variable stays in its type; what main has not come to is not there.
TypeOK ==
  /\ main \in {"down", "serve", "register", "manager", "signal", "wait", "stop"}
  /\ at \in Pools
  /\ kept \subseteq Pools /\ socket \subseteq Pools
  /\ serving \subseteq Pools /\ manager \subseteq Pools /\ ghosts \subseteq Pools
  /\ kubelet \in [Pools -> {"none", "called", "watching", "signalled", "listed"}]
  /\ pod \in [Pods -> {"new", "waiting", "running", "rejected"}]
  /\ handler \in [Pods -> {"none", "next", "load", "pin"}]
  /\ from \in [Pods -> Pools]
  /\ want \in [Pods -> SUBSET Devices] /\ left \in [Pods -> SUBSET Devices]
  /\ current \in [Pods -> Devices \cup {NoDevice}]
  /\ passed \in [Pods -> SUBSET Devices] /\ served \in [Pods -> SUBSET Devices]
  /\ uds \in [Pods -> {"none", "created", "started", "gone"}]
  /\ hurt \in BOOLEAN /\ faults \in 0..MaxFaults /\ lives \in 0..MaxLives
  /\ main = "down" => kept = {} /\ serving = {} /\ manager = {}

(***************************************************************************)
(* Allocate, which runs from the moment the kubelet has the list, never    *)
(* comes to use a map manager that its pool does not have, although the    *)
(* pool is registered before the manager is created.                       *)
(***************************************************************************)
AllocateReady == \A p \in Pods : handler[p] = "pin" => from[p] \in manager

(***************************************************************************)
(* A pool whose devices the kubelet has on its list is one that main will  *)
(* terminate upon a signal: an Init that fails never leaves a listed pool. *)
(***************************************************************************)
ListedIsKept ==
  \A q \in Pools : kubelet[q] \in {"signalled", "listed"} => q \in kept

(***************************************************************************)
(* The UDS server of a running pod serves exactly the devices that the     *)
(* kubelet says the pod has, which is what it compares before it trusts    *)
(* the pod (UdsServer), if no device was passed over.                      *)
(***************************************************************************)
Provable ==
  \A p \in Pods : pod[p] = "running" /\ from[p] \in UdsPools /\ passed[p] = {} =>
    uds[p] \in {"started", "gone"} /\ served[p] = want[p]

(***************************************************************************)
(* Whatever an earlier process left behind, a life of the process in which *)
(* nothing goes wrong gets every pool initialised.                         *)
(***************************************************************************)
RestartKeepsAll == main = "wait" /\ ~hurt => kept = Pools

(***************************************************************************)
(* It also gets that far: Init does not wait for ever for a ListAndWatch   *)
(* unless something goes wrong.                                            *)
(***************************************************************************)
InitEnds == main = "serve" /\ ~hurt ~> main = "wait" \/ hurt
=============================================================================
