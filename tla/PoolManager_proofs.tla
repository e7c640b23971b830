------------------------- MODULE PoolManager_proofs -------------------------
(***************************************************************************)
(* Proofs about PoolManager, for any number of pools, devices, pods, lives *)
(* and faults.                                                             *)
(***************************************************************************)
EXTENDS PoolManager, TLAPS

USE PoolAssumption

\* The parts of TypeOK.
MainOK  == /\ main \in {"down", "serve", "register", "manager", "signal", "wait", "stop"}
           /\ at \in Pools
FlagOK  == hurt \in BOOLEAN
SetsOK  == /\ kept \subseteq Pools /\ socket \subseteq Pools /\ serving \subseteq Pools
           /\ manager \subseteq Pools /\ ghosts \subseteq Pools
ViewOK  == kubelet \in [Pools -> {"none", "called", "watching", "signalled", "listed"}]
PodsOK  == /\ pod \in [Pods -> {"new", "waiting", "running", "rejected"}]
           /\ handler \in [Pods -> {"none", "next", "load", "pin"}]
           /\ uds \in [Pods -> {"none", "created", "started", "gone"}]
           /\ from \in [Pods -> Pools]
WorkOK  == /\ want \in [Pods -> SUBSET Devices] /\ left \in [Pods -> SUBSET Devices]
           /\ current \in [Pods -> Devices \cup {NoDevice}]
           /\ passed \in [Pods -> SUBSET Devices] /\ served \in [Pods -> SUBSET Devices]
CountOK == faults \in 0..MaxFaults /\ lives \in 0..MaxLives
DownOK  == main = "down" => kept = {} /\ serving = {} /\ manager = {}

Parts == /\ MainOK /\ FlagOK /\ SetsOK /\ ViewOK
         /\ PodsOK /\ WorkOK /\ CountOK /\ DownOK

LEMMA TypeParts == TypeOK <=> Parts
BY DEF TypeOK, Parts, MainOK, FlagOK, SetsOK, ViewOK, PodsOK, WorkOK, CountOK, DownOK

LEMMA TypePartsNext == TypeOK' <=> Parts'
BY DEF TypeOK, Parts, MainOK, FlagOK, SetsOK, ViewOK, PodsOK, WorkOK, CountOK, DownOK

LEMMA InPools == 1 \in Pools /\ \A q \in Pools : q < NumPools => q + 1 \in Pools
BY DEF Pools

-----------------------------------------------------------------------------
(***************************************************************************)
(* The inductive invariant.  A pool is on the kubelet's list only after    *)
(* Init has gone past its last step that can fail, so that it is kept and  *)
(* has what its mode needs; a request has a pool that was on the list.     *)
(***************************************************************************)
KeptOK ==
  /\ ListedIsKept
  /\ kept \cap PinPools \subseteq manager
  /\ main = "signal" /\ at \in PinPools => at \in manager

\* What Allocate has done for p, as far as it has got.
Request(p) ==
  /\ pod[p] = "new" => /\ handler[p] = "none" /\ uds[p] = "none"
                       /\ passed[p] = {} /\ served[p] = {}
  /\ pod[p] = "waiting" => handler[p] # "none"
  /\ pod[p] = "running" => handler[p] = "none"
  /\ handler[p] # "none" => from[p] \in kept
  /\ handler[p] = "load" => current[p] \in Devices
  /\ handler[p] = "pin" => from[p] \in PinPools
  /\ handler[p] # "none" /\ from[p] \in UdsPools =>
       /\ uds[p] = "created"
       /\ want[p] = left[p] \cup served[p] \cup passed[p]
                      \cup (IF handler[p] = "load" THEN {current[p]} ELSE {})

RequestsOK == \A p \in Pods : Request(p)

\* As long as nothing has gone wrong, the pools before the one Init is at are kept.
Undisturbed ==
  /\ main = "down" => at = 1
  /\ main \in {"serve", "register", "manager", "signal"} /\ ~hurt =>
       \A q \in Pools : q < at => q \in kept

IInv == TypeOK /\ KeptOK /\ RequestsOK /\ Provable /\ Undisturbed /\ RestartKeepsAll

-----------------------------------------------------------------------------
(***************************************************************************)
(* What groups of actions do.                                              *)
(***************************************************************************)
\* A step of Init goes on, to the next step or the next pool.
Moves ==
  /\ main' \in {"serve", "register", "manager", "signal", "wait"} /\ at' \in Pools
  /\ kept' \in {kept, kept \cup {at}}

LEMMA InitMoves ==
  ASSUME MainOK, InitStep
  PROVE  Moves /\ main \in {"serve", "register", "manager", "signal"}
<1>1. (Continue \/ InitError) /\ main \in {"serve", "register", "manager", "signal"}
  BY DEF InitStep, StartGRPC, RegisterWithKubelet, CreateMapManager, UpdateSignal
<1> QED
  BY <1>1, InPools DEF Continue, InitError, NextPool, After, Moves, MainOK

\* Everything but Init, start, signal and death leaves main alone.
LEMMA MainStays ==
  ASSUME KubeletStep \/ AllocateStep \/ (\E q \in Pools : Terminate(q))
  PROVE  UNCHANGED <<main, at, kept, manager>>
BY DEF KubeletStep, AllocateStep, Terminate, KubeletRestarts, Connect, ListAndWatch,
       StreamBreaks, Allocate, NextDevice, LoadBpfSendXskMap, PinXskMap, Answer, plugin

LEMMA MainType ==
  ASSUME TypeOK, [Next]_vars
  PROVE  MainOK'
<1>0. MainOK
  BY TypeParts DEF Parts
<1>1. CASE InitStep
  BY <1>0, <1>1, InitMoves, InPools DEF Moves, MainOK
<1>2. CASE Start \/ Signal \/ Exit \/ Crash
  BY <1>0, <1>2, InPools DEF Start, Signal, Exit, Crash, Die, MainOK, plugin
<1>3. CASE KubeletStep \/ AllocateStep \/ (\E q \in Pools : Terminate(q))
  BY <1>0, <1>3, MainStays DEF MainOK
<1>4. CASE UNCHANGED vars
  BY <1>0, <1>4 DEF vars, plugin, MainOK
<1> QED
  BY <1>1, <1>2, <1>3, <1>4 DEF Next, PluginStep

LEMMA CountType ==
  ASSUME TypeOK, [Next]_vars
  PROVE  CountOK'
<1>0. CountOK
  BY TypeParts DEF Parts
<1>1. \/ UNCHANGED <<faults, lives>>
      \/ faults < MaxFaults /\ faults' = faults + 1 /\ UNCHANGED lives
      \/ /\ lives < MaxLives /\ lives' = lives + 1
         /\ UNCHANGED faults \/ (faults < MaxFaults /\ faults' = faults + 1)
  <2>1. CASE InitStep
    BY <2>1 DEF InitStep, StartGRPC, RegisterWithKubelet, CreateMapManager, UpdateSignal,
                Fault, NoFault, counters
  <2>2. CASE Start \/ Signal \/ (\E q \in Pools : Terminate(q)) \/ Exit \/ Crash
    BY <2>2 DEF Start, Signal, Terminate, Exit, Crash, Fault, NoFault, counters
  <2>3. CASE KubeletStep
    BY <2>3 DEF KubeletStep, KubeletRestarts, Connect, ListAndWatch, StreamBreaks,
                Fault, NoFault, counters
  <2>4. CASE AllocateStep
    BY <2>4 DEF AllocateStep, Allocate, NoSocketName, NextDevice, LoadBpfSendXskMap, PinXskMap, Answer,
                Fault, NoFault, counters
  <2>5. CASE UNCHANGED vars
    BY <2>5 DEF vars, counters
  <2> QED
    BY <2>1, <2>2, <2>3, <2>4, <2>5 DEF Next, PluginStep
<1> QED
  BY <1>0, <1>1 DEF CountOK

\* hurt is set to truth values, and to nothing else.
LEMMA FlagType ==
  ASSUME TypeOK, [Next]_vars
  PROVE  FlagOK'
<1>0. FlagOK
  BY TypeParts DEF Parts
<1>1. UNCHANGED hurt \/ hurt' = TRUE \/ hurt' = FALSE
  <2>1. CASE InitStep
    BY <2>1 DEF InitStep, StartGRPC, RegisterWithKubelet, CreateMapManager, UpdateSignal,
                Fault, NoFault, counters
  <2>2. CASE Start \/ Signal \/ (\E q \in Pools : Terminate(q)) \/ Exit \/ Crash
    BY <2>2 DEF Start, Signal, Terminate, Exit, Crash, Fault, NoFault, counters
  <2>3. CASE KubeletStep
    BY <2>3 DEF KubeletStep, KubeletRestarts, Connect, ListAndWatch, StreamBreaks,
                Fault, NoFault, counters
  <2>4. CASE AllocateStep
    BY <2>4 DEF AllocateStep, Allocate, NoSocketName, NextDevice, LoadBpfSendXskMap, PinXskMap, Answer,
                Fault, NoFault, counters
  <2>5. CASE UNCHANGED vars
    BY <2>5 DEF vars, counters
  <2> QED
    BY <2>1, <2>2, <2>3, <2>4, <2>5 DEF Next, PluginStep
<1> QED
  BY <1>0, <1>1, Zenon DEF FlagOK

LEMMA SetsType ==
  ASSUME TypeOK, [Next]_vars
  PROVE  SetsOK'
<1>0. SetsOK /\ MainOK
  BY TypeParts DEF Parts
<1>1. kept' \subseteq Pools
  <2>1. CASE InitStep
    BY <1>0, <2>1, InitMoves DEF Moves, SetsOK, MainOK
  <2>2. CASE Start \/ Signal \/ Exit \/ Crash
    BY <1>0, <2>2 DEF Start, Signal, Exit, Crash, Die, plugin, SetsOK
  <2>3. CASE KubeletStep \/ AllocateStep \/ (\E q \in Pools : Terminate(q))
    BY <1>0, <2>3, MainStays DEF SetsOK
  <2>4. CASE UNCHANGED vars
    BY <1>0, <2>4 DEF vars, plugin, SetsOK
  <2> QED
    BY <2>1, <2>2, <2>3, <2>4 DEF Next, PluginStep
<1>2. /\ socket' \subseteq Pools /\ serving' \subseteq Pools
      /\ manager' \subseteq Pools /\ ghosts' \subseteq Pools
  <2>1. CASE InitStep
    BY <1>0, <2>1 DEF InitStep, StartGRPC, RegisterWithKubelet, CreateMapManager,
                      UpdateSignal, Cleanup, SetsOK, MainOK
  <2>2. CASE Start \/ Signal \/ (\E q \in Pools : Terminate(q)) \/ Exit \/ Crash
    BY <1>0, <2>2 DEF Start, Signal, Terminate, Exit, Crash, Die, Cleanup, Ghosts, plugin, SetsOK
  <2>3. CASE KubeletStep
    BY <1>0, <2>3 DEF KubeletStep, KubeletRestarts, Connect, ListAndWatch, StreamBreaks,
                      Ghosts, plugin, SetsOK
  <2>4. CASE AllocateStep
    BY <1>0, <2>4 DEF AllocateStep, Allocate, NextDevice, LoadBpfSendXskMap, PinXskMap,
                      Answer, plugin, SetsOK
  <2>5. CASE UNCHANGED vars
    BY <1>0, <2>5 DEF vars, plugin, SetsOK
  <2> QED
    BY <2>1, <2>2, <2>3, <2>4, <2>5 DEF Next, PluginStep
<1> QED
  BY <1>1, <1>2 DEF SetsOK

LEMMA ViewType ==
  ASSUME TypeOK, [Next]_vars
  PROVE  ViewOK'
<1>0. ViewOK
  BY TypeParts DEF Parts
<1>1. CASE InitStep
  BY <1>0, <1>1 DEF InitStep, StartGRPC, RegisterWithKubelet, CreateMapManager,
                    UpdateSignal, ViewOK
<1>2. CASE Start \/ Signal \/ (\E q \in Pools : Terminate(q)) \/ Exit \/ Crash
  <2>1. CASE Start \/ Signal
    BY <1>0, <2>1 DEF Start, Signal, ViewOK
  <2>2. CASE \E q \in Pools : Terminate(q)
    BY <1>0, <2>2 DEF Terminate, Disconnect, ViewOK
  <2>3. CASE Exit \/ Crash
    BY <1>0, <2>3 DEF Exit, Crash, Die, Disconnect, ViewOK
  <2> QED
    BY <1>2, <2>1, <2>2, <2>3
<1>3. CASE KubeletStep
  <2>1. CASE KubeletRestarts
    BY <1>0, <2>1 DEF KubeletRestarts, Disconnect, ViewOK
  <2>2. ASSUME NEW q \in Pools, Connect(q) PROVE ViewOK'
    BY <1>0, <2>2 DEF Connect, ViewOK
  <2>3. ASSUME NEW q \in Pools, ListAndWatch(q) \/ StreamBreaks(q) PROVE ViewOK'
    BY <1>0, <2>3 DEF ListAndWatch, StreamBreaks, Disconnect, ViewOK
  <2> QED
    BY <1>3, <2>1, <2>2, <2>3 DEF KubeletStep
<1>4. CASE AllocateStep
  BY <1>0, <1>4 DEF AllocateStep, Allocate, NextDevice, LoadBpfSendXskMap, PinXskMap,
                    Answer, ViewOK
<1>5. CASE UNCHANGED vars
  BY <1>0, <1>5 DEF vars, ViewOK
<1> QED
  BY <1>1, <1>2, <1>3, <1>4, <1>5 DEF Next, PluginStep

LEMMA DownType ==
  ASSUME TypeOK, [Next]_vars
  PROVE  DownOK'
<1>0. DownOK /\ MainOK
  BY TypeParts DEF Parts
<1>1. CASE InitStep
  BY <1>1, <1>0, InitMoves DEF Moves, DownOK
<1>2. CASE Start \/ Signal \/ Exit \/ Crash
  BY <1>0, <1>2 DEF Start, Signal, Exit, Crash, Die, DownOK, plugin
<1>3. CASE \E q \in Pools : Terminate(q)
  BY <1>3 DEF Terminate, DownOK
<1>4. CASE KubeletStep
  BY <1>0, <1>4 DEF KubeletStep, KubeletRestarts, Connect, ListAndWatch, StreamBreaks,
                    plugin, DownOK
<1>5. CASE AllocateStep
  BY <1>0, <1>5 DEF AllocateStep, Allocate, NextDevice, LoadBpfSendXskMap, PinXskMap,
                    Answer, plugin, DownOK
<1>6. CASE UNCHANGED vars
  BY <1>0, <1>6 DEF vars, plugin, DownOK
<1> QED
  BY <1>1, <1>2, <1>3, <1>4, <1>5, <1>6 DEF Next, PluginStep

\* What a step other than Allocate's own does to the requests: nothing, or the
\* kubelet is cut off from some pools, or the process dies.
LEMMA RequestsCut ==
  ASSUME PluginStep \/ KubeletStep \/ UNCHANGED vars
  PROVE  \/ UNCHANGED requests
         \/ /\ \E Q \in SUBSET Pools : Disconnect(Q)
            /\ UNCHANGED <<handler, from, want, left, current, passed, served, uds>>
         \/ Die
<1>1. CASE InitStep
  BY <1>1 DEF InitStep, StartGRPC, RegisterWithKubelet, CreateMapManager, UpdateSignal
<1>2. CASE Start \/ Signal \/ Exit \/ Crash
  BY <1>2 DEF Start, Signal, Exit, Crash
<1>3. ASSUME NEW q \in Pools, Terminate(q) \/ StreamBreaks(q)
      PROVE  /\ Disconnect({q}) /\ {q} \in SUBSET Pools
             /\ UNCHANGED <<handler, from, want, left, current, passed, served, uds>>
  BY <1>3 DEF Terminate, StreamBreaks
<1>4. ASSUME NEW q \in Pools, ListAndWatch(q)
      PROVE  \/ UNCHANGED requests
             \/ /\ Disconnect({q}) /\ {q} \in SUBSET Pools
                /\ UNCHANGED <<handler, from, want, left, current, passed, served, uds>>
  BY <1>4 DEF ListAndWatch, requests
<1>5. CASE KubeletRestarts
  BY <1>5 DEF KubeletRestarts
<1>6. ASSUME NEW q \in Pools, Connect(q) PROVE UNCHANGED requests
  BY <1>6 DEF Connect
<1>7. CASE UNCHANGED vars
  BY <1>7 DEF vars
<1> QED
  BY <1>1, <1>2, <1>3, <1>4, <1>5, <1>6, <1>7 DEF PluginStep, KubeletStep

LEMMA RequestsType ==
  ASSUME TypeOK, RequestsOK, [Next]_vars
  PROVE  PodsOK' /\ WorkOK'
<1>0. PodsOK /\ WorkOK
  BY TypeParts DEF Parts
<1>1. CASE PluginStep \/ KubeletStep \/ UNCHANGED vars
  <2>1. CASE UNCHANGED requests
    BY <1>0, <2>1 DEF requests, PodsOK, WorkOK
  <2>2. ASSUME NEW Q \in SUBSET Pools, Disconnect(Q),
               UNCHANGED <<handler, from, want, left, current, passed, served, uds>>
        PROVE  PodsOK' /\ WorkOK'
    BY <1>0, <2>2 DEF Disconnect, PodsOK, WorkOK
  <2>3. CASE Die
    BY <1>0, <2>3 DEF Die, Disconnect, PodsOK, WorkOK
  <2> QED
    BY <1>1, <2>1, <2>2, <2>3, RequestsCut
<1>2. ASSUME NEW p \in Pods, NEW q \in Pools, NEW D \in SUBSET Devices, Allocate(p, q, D)
      PROVE  PodsOK' /\ WorkOK'
  BY <1>0, <1>2 DEF Allocate, CreateServer, PodsOK, WorkOK
<1>3. ASSUME NEW p \in Pods, NEW d \in Devices, NextDevice(p, d)
      PROVE  PodsOK' /\ WorkOK'
  BY <1>0, <1>3 DEF NextDevice, AfterCycle, Proceed, Fail, PodsOK, WorkOK
<1>4. ASSUME NEW p \in Pods, LoadBpfSendXskMap(p)
      PROVE  PodsOK' /\ WorkOK'
  BY <1>0, <1>4 DEF RequestsOK, Request, LoadBpfSendXskMap, AfterLoad, Proceed, Fail, PodsOK, WorkOK
<1>5. ASSUME NEW p \in Pods, PinXskMap(p)
      PROVE  PodsOK' /\ WorkOK'
  BY <1>0, <1>5 DEF PinXskMap, Proceed, Fail, PodsOK, WorkOK
<1>6. ASSUME NEW p \in Pods, Answer(p)
      PROVE  PodsOK' /\ WorkOK'
  BY <1>0, <1>6 DEF Answer, PodsOK, WorkOK
<1> QED
  BY <1>1, <1>2, <1>3, <1>4, <1>5, <1>6 DEF Next, AllocateStep

LEMMA TypeNext ==
  ASSUME TypeOK, RequestsOK, [Next]_vars
  PROVE  TypeOK'
BY MainType, FlagType, SetsType, ViewType, RequestsType, CountType, DownType,
   TypePartsNext DEF Parts

-----------------------------------------------------------------------------
LEMMA InvInit == Init => IInv
<1> SUFFICES ASSUME Init PROVE IInv
  OBVIOUS
<1>1. Parts
  <2>1. FlagOK
    BY Zenon DEF Init, FlagOK
  <2>2. MainOK /\ SetsOK /\ ViewOK /\ CountOK /\ DownOK
    BY InPools DEF Init, MainOK, SetsOK, ViewOK, CountOK, DownOK
  <2>3. PodsOK /\ WorkOK
    BY InPools DEF Init, PodsOK, WorkOK
  <2> QED
    BY <2>1, <2>2, <2>3 DEF Parts
<1>2. KeptOK
  BY DEF Init, KeptOK, ListedIsKept
<1>3. RequestsOK /\ Provable
  BY DEF Init, RequestsOK, Request, Provable
<1>4. Undisturbed /\ RestartKeepsAll
  BY DEF Init, Undisturbed, RestartKeepsAll
<1> QED
  BY <1>1, <1>2, <1>3, <1>4, TypeParts DEF IInv

LEMMA KeptNext ==
  ASSUME TypeOK, KeptOK, [Next]_vars
  PROVE  KeptOK'
<1>0. MainOK /\ ViewOK
  BY TypeParts DEF Parts
<1> USE DEF KeptOK, ListedIsKept
<1>1. CASE StartGRPC
  BY <1>0, <1>1 DEF StartGRPC, Continue, InitError, NextPool, After, MainOK
<1>2. CASE RegisterWithKubelet
  BY <1>0, <1>2 DEF RegisterWithKubelet, Continue, InitError, NextPool, After, MainOK, ViewOK
<1>3. CASE CreateMapManager
  BY <1>0, <1>3 DEF CreateMapManager, Continue, InitError, NextPool, After, MainOK
<1>4. CASE UpdateSignal
  BY <1>0, <1>4 DEF UpdateSignal, Continue, NextPool, After, MainOK, ViewOK
<1>5. CASE Start \/ Signal \/ Exit \/ Crash
  BY <1>0, <1>5 DEF Start, Signal, Exit, Crash, Die, Disconnect, plugin
<1>6. CASE \E q \in Pools : Terminate(q)
  BY <1>0, <1>6 DEF Terminate, Disconnect
<1>7. CASE KubeletStep
  <2>1. UNCHANGED <<main, at, kept, manager>>
    BY <1>7, MainStays
  <2>2. \A q \in Pools : kubelet'[q] \in {"signalled", "listed"} =>
                          kubelet[q] \in {"signalled", "listed"}
    <3>1. CASE KubeletRestarts
      BY <3>1 DEF KubeletRestarts, Disconnect
    <3>2. ASSUME NEW q \in Pools, Connect(q)
          PROVE  \A r \in Pools : kubelet'[r] \in {"signalled", "listed"} => kubelet'[r] = kubelet[r]
      BY <1>0, <3>2 DEF Connect, ViewOK
    <3>3. ASSUME NEW q \in Pools, ListAndWatch(q)
          PROVE  \A r \in Pools : kubelet'[r] \in {"signalled", "listed"} =>
                                    kubelet[r] \in {"signalled", "listed"}
      BY <1>0, <3>3 DEF ListAndWatch, Disconnect, ViewOK
    <3>4. ASSUME NEW q \in Pools, StreamBreaks(q)
          PROVE  \A r \in Pools : kubelet'[r] \in {"signalled", "listed"} => kubelet'[r] = kubelet[r]
      BY <3>4 DEF StreamBreaks, Disconnect
    <3> QED
      BY <1>7, <3>1, <3>2, <3>3, <3>4 DEF KubeletStep
  <2> QED
    BY <2>1, <2>2
<1>8. CASE AllocateStep
  <2>1. UNCHANGED <<main, at, kept, manager, kubelet>>
    BY <1>8 DEF AllocateStep, Allocate, NextDevice, LoadBpfSendXskMap, PinXskMap, Answer, plugin
  <2> QED
    BY <2>1
<1>9. CASE UNCHANGED vars
  BY <1>9 DEF vars, plugin
<1> QED
  BY <1>1, <1>2, <1>3, <1>4, <1>5, <1>6, <1>7, <1>8, <1>9 DEF Next, PluginStep, InitStep

\* dp.pools only grows, as long as the process lives.
LEMMA KeptGrows ==
  ASSUME TypeOK, [Next]_vars, ~Die
  PROVE  kept \subseteq kept'
<1>0. MainOK /\ DownOK
  BY TypeParts DEF Parts
<1>1. CASE InitStep
  BY <1>0, <1>1, InitMoves DEF Moves
<1>2. CASE Start \/ Signal \/ Exit \/ Crash
  BY <1>0, <1>2 DEF Start, Signal, Exit, Crash, plugin
<1>3. CASE KubeletStep \/ AllocateStep \/ (\E q \in Pools : Terminate(q))
  BY <1>3, MainStays
<1>4. CASE UNCHANGED vars
  BY <1>4 DEF vars, plugin
<1> QED
  BY <1>1, <1>2, <1>3, <1>4 DEF Next, PluginStep

\* The clause of Provable for one pod.
Proved(p) ==
  pod[p] = "running" /\ from[p] \in UdsPools /\ passed[p] = {} =>
    uds[p] \in {"started", "gone"} /\ served[p] = want[p]

LEMMA RequestsCutSound ==
  ASSUME TypeOK, RequestsOK, Provable, [Next]_vars,
         PluginStep \/ KubeletStep \/ UNCHANGED vars
  PROVE  RequestsOK' /\ Provable'
<1>0. PodsOK /\ WorkOK
  BY TypeParts DEF Parts
<1>1. CASE Die
  BY <1>0, <1>1 DEF Die, Disconnect, PodsOK, WorkOK, RequestsOK, Request, Provable
<1>2. CASE ~Die /\ UNCHANGED requests
  BY <1>2, KeptGrows DEF requests, RequestsOK, Request, Provable
<1>3. ASSUME NEW Q \in SUBSET Pools, ~Die, Disconnect(Q),
             UNCHANGED <<handler, from, want, left, current, passed, served, uds>>
      PROVE  RequestsOK' /\ Provable'
  <2>1. \A p \in Pods : pod'[p] = pod[p] \/ (pod[p] = "waiting" /\ pod'[p] = "rejected")
    BY <1>3 DEF Disconnect
  <2> QED
    BY <1>3, <2>1, KeptGrows DEF RequestsOK, Request, Provable
<1> QED
  BY <1>1, <1>2, <1>3, RequestsCut

\* A step of Allocate is about one request: it leaves the others alone, and the
\* process lives.
OneRequest(p) ==
  /\ kept' = kept
  /\ \A r \in Pods \ {p} :
       /\ pod'[r] = pod[r] /\ handler'[r] = handler[r] /\ from'[r] = from[r]
       /\ want'[r] = want[r] /\ left'[r] = left[r] /\ current'[r] = current[r]
       /\ passed'[r] = passed[r] /\ served'[r] = served[r] /\ uds'[r] = uds[r]

LEMMA OneRequestSound ==
  ASSUME RequestsOK, Provable, NEW p \in Pods, OneRequest(p), Request(p)', Proved(p)'
  PROVE  RequestsOK' /\ Provable'
<1>1. ASSUME NEW r \in Pods, r # p PROVE Request(r)' /\ Proved(r)'
  <2>1. Request(r) /\ Proved(r)
    BY DEF RequestsOK, Provable, Proved
  <2> QED
    BY <1>1, <2>1 DEF OneRequest, Request, Proved
<1> QED
  BY <1>1 DEF RequestsOK, Provable, Proved

LEMMA AllocateSound ==
  ASSUME TypeOK, KeptOK, RequestsOK, Provable, AllocateStep
  PROVE  RequestsOK' /\ Provable'
<1>0. PodsOK /\ WorkOK
  BY TypeParts DEF Parts
<1>1. ASSUME NEW p \in Pods, NEW q \in Pools, NEW D \in SUBSET Devices, Allocate(p, q, D)
      PROVE  RequestsOK' /\ Provable'
  <2>1. Request(p)
    BY DEF RequestsOK
  <2>2. OneRequest(p)
    BY <1>0, <1>1 DEF Allocate, CreateServer, OneRequest, PodsOK, WorkOK, plugin
  <2>3. Request(p)'
    BY <1>0, <1>1, <2>1 DEF Allocate, CreateServer, Request, PodsOK, WorkOK, KeptOK, ListedIsKept, plugin
  <2>4. Proved(p)'
    BY <1>0, <1>1 DEF Allocate, CreateServer, Proved, PodsOK
  <2> QED
    BY <2>2, <2>3, <2>4, OneRequestSound
<1>2. ASSUME NEW p \in Pods, NEW d \in Devices, NextDevice(p, d)
      PROVE  RequestsOK' /\ Provable'
  <2>1. Request(p)
    BY DEF RequestsOK
  <2>2. OneRequest(p)
    BY <1>0, <1>2 DEF NextDevice, AfterCycle, Proceed, Fail, OneRequest, PodsOK, WorkOK, plugin
  <2>3. Request(p)'
    <3>1. CASE Fail(p)
      BY <1>0, <1>2, <2>1, <3>1 DEF NextDevice, Fail, Request, PodsOK, WorkOK, plugin
    <3>2. CASE Proceed(p, AfterCycle(from[p]), d) /\ UNCHANGED passed
      BY <1>0, <1>2, <2>1, <3>2 DEF NextDevice, AfterCycle, Proceed, Fail, Request, PodsOK, WorkOK, plugin
    <3>3. CASE Proceed(p, "next", d) /\ passed' = [passed EXCEPT ![p] = @ \cup {d}]
      BY <1>0, <1>2, <2>1, <3>3 DEF NextDevice, Proceed, Fail, Request, PodsOK, WorkOK, plugin
    <3> QED
      BY <1>2, <3>1, <3>2, <3>3 DEF NextDevice
  <2>4. pod'[p] # "running"
    BY <1>0, <1>2, <2>1 DEF NextDevice, Proceed, Fail, Request, PodsOK
  <2> QED
    BY <2>2, <2>3, <2>4, OneRequestSound DEF Proved
<1>3. ASSUME NEW p \in Pods, LoadBpfSendXskMap(p)
      PROVE  RequestsOK' /\ Provable'
  <2>1. Request(p)
    BY DEF RequestsOK
  <2>2. OneRequest(p)
    BY <1>0, <1>3 DEF LoadBpfSendXskMap, Proceed, Fail, OneRequest, PodsOK, WorkOK, plugin
  <2>3. Request(p)'
    <3>1. CASE Fail(p)
      BY <1>0, <1>3, <2>1, <3>1 DEF LoadBpfSendXskMap, Fail, Request, PodsOK, WorkOK, plugin
    <3>2. CASE Proceed(p, AfterLoad(from[p]), current[p]) /\ UNCHANGED left
               /\ served' = [served EXCEPT ![p] = @ \cup {current[p]}]
      BY <1>0, <1>3, <2>1, <3>2 DEF LoadBpfSendXskMap, AfterLoad, Proceed, Request, PodsOK, WorkOK, plugin
    <3> QED
      BY <1>3, <3>1, <3>2 DEF LoadBpfSendXskMap
  <2>4. pod'[p] # "running"
    BY <1>0, <1>3, <2>1 DEF LoadBpfSendXskMap, Proceed, Fail, Request, PodsOK
  <2> QED
    BY <2>2, <2>3, <2>4, OneRequestSound DEF Proved
<1>4. ASSUME NEW p \in Pods, PinXskMap(p)
      PROVE  RequestsOK' /\ Provable'
  <2>1. Request(p)
    BY DEF RequestsOK
  <2>2. OneRequest(p)
    BY <1>0, <1>4 DEF PinXskMap, Proceed, Fail, OneRequest, PodsOK, WorkOK, plugin
  <2>3. Request(p)'
    BY <1>0, <1>4, <2>1 DEF PinXskMap, Proceed, Fail, Request, PodsOK, WorkOK, plugin
  <2>4. pod'[p] # "running"
    BY <1>0, <1>4, <2>1 DEF PinXskMap, Proceed, Fail, Request, PodsOK
  <2> QED
    BY <2>2, <2>3, <2>4, OneRequestSound DEF Proved
<1>5. ASSUME NEW p \in Pods, Answer(p)
      PROVE  RequestsOK' /\ Provable'
  <2>1. Request(p)
    BY DEF RequestsOK
  <2>2. OneRequest(p)
    BY <1>0, <1>5 DEF Answer, OneRequest, PodsOK, plugin
  <2>3. Request(p)'
    BY <1>0, <1>5, <2>1 DEF Answer, Request, PodsOK, plugin
  <2>4. Proved(p)'
    BY <1>0, <1>5, <2>1 DEF Answer, Request, Proved, PodsOK
  <2> QED
    BY <2>2, <2>3, <2>4, OneRequestSound
<1> QED
  BY <1>1, <1>2, <1>3, <1>4, <1>5 DEF AllocateStep

\* What main does to the pools that are kept, in a life in which nothing goes wrong.
LEMMA UndisturbedNext ==
  ASSUME TypeOK, Undisturbed, RestartKeepsAll, [Next]_vars
  PROVE  Undisturbed' /\ RestartKeepsAll'
<1>0. MainOK
  BY TypeParts DEF Parts
<1> USE DEF Undisturbed, RestartKeepsAll
<1>1. CASE InitStep
  <2>1. CASE Fault
    <3>1. hurt'
      BY <2>1 DEF Fault
    <3>2. main' = "down" => at' = 1
      BY <1>0, <1>1, InitMoves DEF Moves
    <3> QED
      BY <3>1, <3>2
  <2>2. CASE NoFault
    <3>1. Continue /\ main \in {"serve", "register", "manager", "signal"}
      <4>1. ~Fault
        <5>1. CountOK
          BY TypeParts DEF Parts
        <5> QED
          BY <2>2, <5>1 DEF Fault, NoFault, counters, CountOK
      <4>2. at \notin Cleanup(at)
        BY DEF Cleanup
      <4> QED
        BY <1>1, <2>2, <4>1, <4>2 DEF InitStep, StartGRPC, RegisterWithKubelet,
                                      CreateMapManager, UpdateSignal
    <3>2. hurt' = hurt
      BY <2>2 DEF NoFault, counters
    <3>3. CASE hurt
      BY <1>0, <3>1, <3>2, <3>3 DEF Continue, NextPool, After
    <3>4. CASE ~hurt
      <4>1. \A q \in Pools : q < at => q \in kept
        BY <3>1, <3>4
      <4>2. CASE After(main, at) = "done"
        <5>1. kept' = kept \cup {at} /\ NextPool
          BY <3>1, <4>2 DEF Continue
        <5>2. main' = "serve" \/ main' = "wait"
          BY <5>1 DEF NextPool
        <5>3. at < NumPools => at' = at + 1 /\ \A q \in Pools : q < at + 1 => q \in kept'
          BY <1>0, <4>1, <5>1 DEF NextPool, MainOK, Pools
        <5>4. ~(at < NumPools) => \A q \in Pools : q \in kept'
          BY <1>0, <4>1, <5>1 DEF MainOK, Pools
        <5>5. kept' \subseteq Pools
          BY <1>0, <5>1, TypeParts DEF Parts, SetsOK, MainOK
        <5> QED
          BY <5>1, <5>2, <5>3, <5>4, <5>5 DEF NextPool
      <4>3. CASE After(main, at) # "done"
        <5>1. UNCHANGED <<at, kept>> /\ main' = After(main, at)
          BY <3>1, <4>3 DEF Continue
        <5>2. main' \in {"register", "manager", "signal"}
          BY <3>1, <4>3, <5>1 DEF After
        <5> QED
          BY <4>1, <5>1, <5>2
      <4> QED
        BY <4>2, <4>3
    <3> QED
      BY <3>3, <3>4
  <2> QED
    BY <1>1, <2>1, <2>2 DEF InitStep, StartGRPC, RegisterWithKubelet,
                                  CreateMapManager, UpdateSignal
<1>2. CASE Start
  BY <1>0, <1>2 DEF Start, MainOK, Pools
<1>3. CASE Exit \/ Crash
  BY <1>3 DEF Exit, Crash, Die
<1>4. CASE Signal
  BY <1>4 DEF Signal
<1>5. CASE UNCHANGED <<main, at, kept>> /\ (hurt' = hurt \/ hurt')
  BY <1>5
<1>6. ASSUME KubeletStep \/ AllocateStep \/ (\E q \in Pools : Terminate(q))
             \/ UNCHANGED vars
      PROVE  UNCHANGED <<main, at, kept>> /\ (hurt' = hurt \/ hurt')
  <2>1. CASE KubeletStep
    BY <2>1, MainStays DEF KubeletStep, KubeletRestarts, Connect, ListAndWatch, StreamBreaks,
                           Fault, NoFault, counters
  <2>2. CASE AllocateStep
    <3>1. ASSUME NEW p \in Pods, NEW q \in Pools, NEW D, Allocate(p, q, D)
          PROVE  hurt' = hurt \/ hurt'
      BY <3>1 DEF Allocate, NoSocketName, Fault, NoFault, counters
    <3>2. ASSUME NEW p \in Pods, NEW d \in Devices, NextDevice(p, d)
          PROVE  hurt' = hurt \/ hurt'
      BY <3>2 DEF NextDevice, Fault, NoFault, counters
    <3>3. ASSUME NEW p \in Pods, LoadBpfSendXskMap(p) \/ PinXskMap(p) \/ Answer(p)
          PROVE  hurt' = hurt \/ hurt'
      BY <3>3 DEF LoadBpfSendXskMap, PinXskMap, Answer, Fault, NoFault, counters
    <3> QED
      BY <2>2, <3>1, <3>2, <3>3, MainStays DEF AllocateStep
  <2>3. CASE \E q \in Pools : Terminate(q)
    BY <2>3 DEF Terminate, NoFault, counters
  <2>4. CASE UNCHANGED vars
    BY <2>4 DEF vars, plugin, counters
  <2> QED
    BY <1>6, <2>1, <2>2, <2>3, <2>4
<1> QED
  BY <1>1, <1>2, <1>3, <1>4, <1>5, <1>6 DEF Next, PluginStep

LEMMA InvHolds == Spec => []IInv
<1>1. ASSUME IInv, [Next]_vars PROVE IInv'
  <2>1. TypeOK' /\ KeptOK' /\ Undisturbed' /\ RestartKeepsAll'
    BY <1>1, TypeNext, KeptNext, UndisturbedNext DEF IInv
  <2>2. RequestsOK' /\ Provable'
    BY <1>1, RequestsCutSound, AllocateSound DEF IInv, Next
  <2> QED
    BY <2>1, <2>2 DEF IInv
<1>2. IInv /\ [Next]_vars => IInv'
  BY <1>1
<1> QED
  BY InvInit, <1>2, PTL DEF Spec

-----------------------------------------------------------------------------
\* Every variable stays in its type, and a process that is gone has nothing
\* (main.go:101-146, poolManager.go).
THEOREM TypeCorrect == Spec => []TypeOK
<1>1. IInv => TypeOK
  BY DEF IInv
<1> QED
  BY InvHolds, <1>1, PTL

\* Allocate never meets a pool without the map manager it needs, in whatever order
\* the kubelet and Init proceed (poolManager.go:91-127, 256-270).
THEOREM ReadySafety == Spec => []AllocateReady
<1>1. IInv => AllocateReady
  BY DEF IInv, KeptOK, RequestsOK, Request, AllocateReady
<1> QED
  BY InvHolds, <1>1, PTL

\* A pool that the kubelet has devices of is one that a signal terminates
\* (main.go:126-145).
THEOREM ListedSafety == Spec => []ListedIsKept
<1>1. IInv => ListedIsKept
  BY DEF IInv, KeptOK
<1> QED
  BY InvHolds, <1>1, PTL

\* The UDS server of a running pod serves the devices that the pod has, if none was
\* passed over (poolManager.go:198-301).
THEOREM ProvableSafety == Spec => []Provable
<1>1. IInv => Provable
  BY DEF IInv
<1> QED
  BY InvHolds, <1>1, PTL

\* A life without trouble initialises every pool, over whatever an earlier life
\* left (poolManager.go:354-400).
THEOREM RestartSafety == Spec => []RestartKeepsAll
<1>1. IInv => RestartKeepsAll
  BY DEF IInv
<1> QED
  BY InvHolds, <1>1, PTL
=============================================================================
