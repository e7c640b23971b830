------------------------------ MODULE BpfMaps ------------------------------
(***************************************************************************)
(* Sharing XSK maps by pinning them.  For every device that Allocate       *)
(* hands to a pod, the map manager of the pool (internal/bpf/mapManager.go)*)
(* makes a directory with a random name, mounts a BPF file system on it    *)
(* and records its path under the name of the device; the map is pinned    *)
(* there.  When the pod ends, the CNI plugin calls DelNetDev of the syncer *)
(* (internal/dpcnisyncerserver), which finds the path and removes it.      *)
(*                                                                         *)
(* Allocate and DelNetDev run on goroutines of two gRPC servers, without a *)
(* lock.  The table of paths is lost with the process, mounts are not.     *)
(*                                                                         *)
(* The random names never repeat, so a path is named by the allocation     *)
(* <<p, d>> of device d to pod p that it was generated for.                *)
(***************************************************************************)
EXTENDS Naturals

CONSTANTS
  Pods,
  NoPod,
  Devices,
  Pools,      \* pools that pin maps
  PoolOf,     \* PoolOf[d]: the pool of device d
  UserPools,  \* pools with a user id other than 0
  MaxFaults,  \* bound: calls that fail without a cause in the model
  MaxLives    \* bound: starts of the plugin process

ASSUME BpfAssumption ==
  /\ NoPod \notin Pods
  /\ PoolOf \in [Devices -> Pools]
  /\ UserPools \subseteq Pools
  /\ MaxFaults \in Nat /\ MaxLives \in Nat

VARIABLES
  pool,       \* pool[q]: what main has done with pool q in this life
  base,       \* pools whose base directory exists
  widened,    \* pools whose base directory was given an access control list
  maps,       \* maps[d]: the pod whose path is recorded for d, or NoPod
  dirs,       \* allocations whose directory exists,
  mounts,     \* ... has a BPF file system mounted on it,
  pins,       \* ... and the map pinned in that
  stage,      \* stage[p]: where pod p is in its life
  late,       \* allocations whose DelNetDev was not done when their device was given on
  prep,       \* prep[a]: how far Allocate is with allocation a
  call,       \* call[a]: the CNI plugin's call of DelNetDev for a
  handler,    \* handler[a]: the step of the server for that call
  target,     \* target[a]: the pod whose path the server is deleting
  faults,     \* calls that failed without a cause so far
  lives       \* starts of the plugin so far

files    == <<dirs, mounts, pins>>
server   == <<handler, target>>
history  == <<late, faults, lives>>
vars == <<pool, base, widened, maps, files, stage, prep, call, server, history>>

Alloc == Pods \X Devices
InPool(q) == {a \in Alloc : PoolOf[a[2]] = q}

\* Steps of the body of Allocate's loop for one device.
Steps == {"mount", "share", "load", "add"}

Init ==
  /\ pool = [q \in Pools |-> "down"]
  /\ base = {} /\ widened = {}
  /\ maps = [d \in Devices |-> NoPod]
  /\ dirs = {} /\ mounts = {} /\ pins = {}
  /\ stage = [p \in Pods |-> "new"]
  /\ prep = [a \in Alloc |-> "none"]
  /\ call = [a \in Alloc |-> "none"]
  /\ handler = [a \in Alloc |-> "none"]
  /\ target = [a \in Alloc |-> NoPod]
  /\ late = {} /\ faults = 0 /\ lives = 0

Fault   == faults < MaxFaults /\ faults' = faults + 1 /\ UNCHANGED <<late, lives>>
NoFault == UNCHANGED history

\* A pool that is initialised has registered its map manager; the first pool
\* that is terminated stops the syncer for all.
Down    == \A q \in Pools : pool[q] = "down"
Manages(q) == pool[q] \in {"listed", "ended"}
Serving == \A q \in Pools : pool[q] \notin {"down", "ended"}

-----------------------------------------------------------------------------
(***************************************************************************)
(* The plugin process.                                                     *)
(***************************************************************************)
Start ==
  /\ Down /\ lives < MaxLives
  /\ pool' = [q \in Pools |-> "starting"]
  /\ lives' = lives + 1
  /\ UNCHANGED <<base, widened, maps, files, stage, prep, call, server, late, faults>>

\* The access control list that setfacl gives a directory widens the mode that
\* Stat shows.  The call may fail before or after that.
GivePermissions(q)      == widened' = widened \cup {q}
GivePermissionsFails(q) == GivePermissions(q) \/ UNCHANGED widened

\* Faulty variant: root is given access to the directory too.
CreateBPFFSBaseDirectoryForAll(q) ==
  /\ base' = base \cup {q}
  /\ IF q \notin base THEN GivePermissions(q) ELSE UNCHANGED widened

\* The base directory of a pool is made, if it is not there, and a user other than
\* root given access to it.
CreateBPFFSBaseDirectory(q) ==
  /\ base' = base \cup {q}
  /\ IF q \in UserPools \ base THEN GivePermissions(q) ELSE UNCHANGED widened

CreateBPFFSBaseDirectoryFails(q) ==
  \/ UNCHANGED <<base, widened>>
  \/ q \in UserPools \ base /\ base' = base \cup {q} /\ GivePermissionsFails(q)

\* Init of a pool: it is listed, or, after an error, passed over.
InitPool(q) ==
  /\ pool[q] = "starting"
  /\ \/ pool' = [pool EXCEPT ![q] = "listed"] /\ CreateBPFFSBaseDirectory(q) /\ NoFault
     \/ pool' = [pool EXCEPT ![q] = "skipped"] /\ CreateBPFFSBaseDirectoryFails(q) /\ Fault
  /\ UNCHANGED <<maps, files, stage, prep, call, server>>

\* The allocations that Allocate has not finished are given up.
GiveUp(A) ==
  prep' = [a \in Alloc |-> IF a \in A /\ prep[a] \in Steps \cup {"todo"}
                           THEN "none" ELSE prep[a]]

\* To the kubelet, the requests of these pools have failed; the CNI plugins that
\* wait for an answer of the syncer get an error.
Disconnect(Q) ==
  /\ stage' = [p \in Pods |->
       IF /\ stage[p] = "allocating"
          /\ \E a \in Alloc : a[1] = p /\ prep[a] # "none" /\ PoolOf[a[2]] \in Q
       THEN "rejected" ELSE stage[p]]
  /\ call' = [a \in Alloc |-> IF call[a] = "calling" THEN "dead" ELSE call[a]]

\* The process is gone: its goroutines and the table with it.
Die ==
  /\ pool' = [q \in Pools |-> "down"]
  /\ maps' = [d \in Devices |-> NoPod]
  /\ GiveUp(Alloc) /\ Disconnect(Pools)
  /\ handler' = [a \in Alloc |-> "none"]
  /\ target' = [a \in Alloc |-> NoPod]
  /\ UNCHANGED <<base, widened, files, history>>

\* RemoveAll empties the file systems but does not unmount them: their directories
\* stay, and with one of them the base.
CleanupMapManager(q) ==
  /\ pins' = pins \ InPool(q)
  /\ dirs' = dirs \ (InPool(q) \ mounts)
  /\ base' = IF InPool(q) \cap mounts = {} THEN base \ {q} ELSE base
  /\ widened' = widened \cap base'

\* Upon a signal every pool that was listed is terminated.  Handlers that run go on.
Terminate(q) ==
  /\ pool[q] = "listed"
  /\ \A r \in Pools : pool[r] # "starting"
  /\ pool' = [pool EXCEPT ![q] = "ended"]
  /\ Disconnect({q}) /\ CleanupMapManager(q)
  /\ UNCHANGED <<maps, mounts, prep, server, history>>

\* main returns when no pool is left; and the process may die at any time.
Exit == (\E q \in Pools : pool[q] = "ended") /\ (\A q \in Pools : pool[q] # "listed") /\ Die
Crash == ~Down /\ Die

PluginStep ==
  \/ Start \/ Exit \/ Crash
  \/ \E q \in Pools : InitPool(q) \/ Terminate(q)

-----------------------------------------------------------------------------
(***************************************************************************)
(* Allocate: the devices of a request, one after another.                  *)
(***************************************************************************)
\* DelNetDev is still to be called for a, is waited for, or was cut off from its
\* caller while the server goes on with it.
Pending(a) ==
  \/ call[a] \in {"due", "calling"}
  \/ call[a] = "dead" /\ handler[a] # "none"

\* The kubelet allocates one pod at a time, and gives a device on as soon as the
\* containers of its pod have ended: it does not wait for the network's DEL.
Request(p, D) ==
  /\ stage[p] = "new" /\ D # {}
  /\ \A r \in Pods : stage[r] # "allocating"
  /\ \E q \in Pools : pool[q] = "listed" /\ \A d \in D : PoolOf[d] = q
  /\ \A a \in Alloc : a[2] \in D /\ stage[a[1]] = "running" => prep[a] = "none"
  /\ stage' = [stage EXCEPT ![p] = "allocating"]
  /\ prep' = [a \in Alloc |-> IF a[1] = p /\ a[2] \in D THEN "todo" ELSE prep[a]]
  /\ late' = late \cup {a \in Alloc : a[2] \in D /\ Pending(a)}
  /\ UNCHANGED <<pool, base, widened, maps, files, call, server, faults, lives>>

\* An error ends the whole request and undoes nothing of it.
Fail(p) ==
  /\ GiveUp({a \in Alloc : a[1] = p})
  /\ stage' = [stage EXCEPT ![p] = IF @ = "allocating" THEN "rejected" ELSE @]

Proceed(a, step) == prep' = [prep EXCEPT ![a] = step] /\ UNCHANGED stage

Begins(a) ==
  /\ prep[a] = "todo"
  /\ \A b \in Alloc : b[1] = a[1] => prep[b] \notin Steps

\* The device may still be in the namespace of an earlier pod, whose DEL has yet to
\* move it back before it calls DelNetDev.
Away(a) == \E b \in Alloc : b[2] = a[2] /\ call[b] = "due"

\* A device that cannot be cycled is passed over.
Skip(a) ==
  /\ Begins(a)
  /\ Fault \/ (Away(a) /\ NoFault)
  /\ Proceed(a, "skipped")
  /\ UNCHANGED <<pool, base, widened, maps, files, call, server>>

\* The steps before CreateBPFFS, and CreateBPFFS up to its mount.  A subfunction
\* that is away cannot be activated.  The base directory must have the mode that it
\* was made with.
MakeDir(a) ==
  LET q == PoolOf[a[2]] IN
  /\ Begins(a)
  /\ \/ q \in base \ widened /\ NoFault /\ dirs' = dirs \cup {a} /\ Proceed(a, "mount")
     \/ q \notin base \ widened /\ NoFault /\ UNCHANGED dirs /\ Fail(a[1])
     \/ Away(a) /\ NoFault /\ UNCHANGED dirs /\ Fail(a[1])
     \/ Fault /\ Fail(a[1])
          /\ dirs' \in IF q \in base \ widened THEN {dirs, dirs \cup {a}} ELSE {dirs}
  /\ UNCHANGED <<pool, base, widened, maps, mounts, pins, call, server>>

\* Faulty variant: a failing mount is only logged.
MountLogged(a) ==
  /\ prep[a] = "mount"
  /\ \/ NoFault /\ mounts' = IF a \in dirs THEN mounts \cup {a} ELSE mounts
     \/ Fault /\ UNCHANGED mounts
  /\ Proceed(a, "share")
  /\ UNCHANGED <<pool, base, widened, maps, dirs, pins, call, server>>

Mount(a) ==
  /\ prep[a] = "mount"
  /\ \/ a \in dirs /\ NoFault /\ mounts' = mounts \cup {a} /\ Proceed(a, "share")
     \/ a \notin dirs /\ NoFault /\ UNCHANGED mounts /\ Fail(a[1])
     \/ Fault /\ UNCHANGED mounts /\ Fail(a[1])
  /\ UNCHANGED <<pool, base, widened, maps, dirs, pins, call, server>>

MakeShared(a) ==
  /\ prep[a] = "share"
  /\ \/ NoFault /\ Proceed(a, "load")
     \/ Fault /\ Fail(a[1])
  /\ UNCHANGED <<pool, base, widened, maps, files, call, server>>

LoadBpfPinXskMap(a) ==
  /\ prep[a] = "load"
  /\ \/ NoFault /\ pins' = pins \cup {a} /\ Proceed(a, "add")
     \/ Fault /\ pins' \in {pins, pins \cup {a}} /\ Fail(a[1])
  /\ UNCHANGED <<pool, base, widened, maps, dirs, mounts, call, server>>

\* Faulty variant: a device that is in the table keeps its entry.
AddMapOnce(a) ==
  /\ prep[a] = "add"
  /\ maps' = [maps EXCEPT ![a[2]] = IF @ = NoPod THEN a[1] ELSE @]
  /\ Proceed(a, "done")
  /\ UNCHANGED <<pool, base, widened, files, call, server, history>>

AddMap(a) ==
  /\ prep[a] = "add"
  /\ maps' = [maps EXCEPT ![a[2]] = a[1]]
  /\ Proceed(a, "done")
  /\ UNCHANGED <<pool, base, widened, files, call, server, history>>

\* The kubelet gets the answer, if it is still there to be had.
Reply(p) ==
  /\ stage[p] = "allocating"
  /\ \A d \in Devices : prep[<<p, d>>] \notin Steps \cup {"todo"}
  /\ stage' = [stage EXCEPT ![p] = "running"]
  /\ UNCHANGED <<pool, base, widened, maps, files, prep, call, server, history>>

AllocateStep(a) ==
  \/ Skip(a) \/ MakeDir(a) \/ Mount(a)
  \/ MakeShared(a) \/ LoadBpfPinXskMap(a) \/ AddMap(a)

-----------------------------------------------------------------------------
(***************************************************************************)
(* DelNetDev, for one device of a pod that ends.                           *)
(***************************************************************************)
Stop(p) ==
  /\ stage[p] = "running"
  /\ stage' = [stage EXCEPT ![p] = "stopping"]
  /\ call' = [a \in Alloc |-> IF a[1] = p /\ prep[a] # "none" THEN "due" ELSE call[a]]
  /\ UNCHANGED <<pool, base, widened, maps, files, prep, server, history>>

\* DEL gets as far as DeleteNetDev, or never does.  An error, such as no server
\* to be reached, is only logged.
DeleteNetDev(a) ==
  /\ call[a] = "due"
  /\ \/ /\ Serving /\ NoFault
        /\ call' = [call EXCEPT ![a] = "calling"]
        /\ handler' = [handler EXCEPT ![a] = "lookup"]
     \/ ~Serving /\ NoFault /\ call' = [call EXCEPT ![a] = "ended"] /\ UNCHANGED handler
     \/ Fault /\ call' = [call EXCEPT ![a] = "ended"] /\ UNCHANGED handler
  /\ UNCHANGED <<pool, base, widened, maps, files, stage, prep, target>>

\* The CNI plugin is killed while it waits; the server does not notice.
CallerDies(a) ==
  /\ call[a] = "calling" /\ Fault
  /\ call' = [call EXCEPT ![a] = "dead"]
  /\ UNCHANGED <<pool, base, widened, maps, files, stage, prep, server>>

Answer(a) ==
  /\ handler' = [handler EXCEPT ![a] = "none"]
  /\ target' = [target EXCEPT ![a] = NoPod]
  /\ call' = [call EXCEPT ![a] = IF @ = "calling" THEN "ended" ELSE @]

Continue(a, step) ==
  /\ handler' = [handler EXCEPT ![a] = step]
  /\ UNCHANGED call

\* Faulty variant: the caller is answered before the path is deleted.
LookupAnswering(a) ==
  /\ handler[a] = "lookup"
  /\ call' = [call EXCEPT ![a] = IF @ = "calling" THEN "ended" ELSE @]
  /\ handler' = [handler EXCEPT ![a] = IF maps[a[2]] # NoPod THEN "read" ELSE "none"]
  /\ UNCHANGED <<pool, base, widened, maps, files, stage, prep, target, history>>

\* The map managers are searched for one that has an entry for the device.
Lookup(a) ==
  /\ handler[a] = "lookup"
  /\ IF Manages(PoolOf[a[2]]) /\ maps[a[2]] # NoPod
     THEN Continue(a, "read") /\ UNCHANGED target ELSE Answer(a)
  /\ UNCHANGED <<pool, base, widened, maps, files, stage, prep, history>>

\* DeleteBPFFS reads the entry again, and looks at the directory.
ReadPath(a) ==
  /\ handler[a] = "read"
  /\ IF <<maps[a[2]], a[2]>> \in dirs
     THEN Continue(a, "unmount") /\ target' = [target EXCEPT ![a] = maps[a[2]]]
     ELSE Answer(a)
  /\ UNCHANGED <<pool, base, widened, maps, files, stage, prep, history>>

\* Faulty variant: the directory is removed first, which fails when it is mounted.
UnmountLast(a) ==
  /\ handler[a] = "unmount"
  /\ Answer(a)
  /\ dirs' = dirs \ ({<<target[a], a[2]>>} \ mounts)
  /\ UNCHANGED <<pool, base, widened, maps, mounts, pins, stage, prep, history>>

\* With its last mount in the host the file system is gone, and the pin with it.
Unmount(a) ==
  LET t == <<target[a], a[2]>> IN
  /\ handler[a] = "unmount"
  /\ \/ /\ t \in mounts /\ NoFault
        /\ mounts' = mounts \ {t} /\ pins' = pins \ {t}
        /\ Continue(a, "remove") /\ UNCHANGED target
     \/ t \notin mounts /\ NoFault /\ UNCHANGED <<mounts, pins>> /\ Answer(a)
     \/ Fault /\ UNCHANGED <<mounts, pins>> /\ Answer(a)
  /\ UNCHANGED <<pool, base, widened, maps, dirs, stage, prep>>

\* The entry of the table is left as it is.
Remove(a) ==
  LET t == <<target[a], a[2]>> IN
  /\ handler[a] = "remove"
  /\ \/ t \notin mounts /\ NoFault /\ dirs' = dirs \ {t}
     \/ t \in mounts /\ NoFault /\ UNCHANGED dirs
     \/ Fault /\ UNCHANGED dirs
  /\ Answer(a)
  /\ UNCHANGED <<pool, base, widened, maps, mounts, pins, stage, prep>>

\* The table is a Go map without a lock: when it is read and written at once the
\* runtime may end the process.
ConcurrentMapAccess(a, b) ==
  /\ prep[a] = "add"
  /\ handler[b] \in {"lookup", "read"} /\ PoolOf[a[2]] = PoolOf[b[2]]
  /\ Die

DelStep(a) ==
  DeleteNetDev(a) \/ Lookup(a) \/ ReadPath(a) \/ Unmount(a) \/ Remove(a)

Next ==
  \/ PluginStep
  \/ \E p \in Pods : Reply(p) \/ Stop(p) \/ \E D \in SUBSET Devices : Request(p, D)
  \/ \E a \in Alloc : AllocateStep(a) \/ DelStep(a) \/ CallerDies(a)
  \/ \E a, b \in Alloc : ConcurrentMapAccess(a, b)

Spec == Init /\ [][Next]_vars

-----------------------------------------------------------------------------
\* Every variable stays in its type; a map is pinned in a mounted file system,
\* and only on a directory that exists is anything mounted.
TypeOK ==
  /\ pool \in [Pools -> {"down", "starting", "listed", "skipped", "ended"}]
  /\ base \subseteq Pools /\ widened \subseteq base
  /\ maps \in [Devices -> Pods \cup {NoPod}]
  /\ dirs \subseteq Alloc /\ mounts \subseteq dirs /\ pins \subseteq mounts
  /\ stage \in [Pods -> {"new", "allocating", "running", "stopping", "rejected"}]
  /\ prep \in [Alloc -> Steps \cup {"none", "todo", "done", "skipped"}]
  /\ call \in [Alloc -> {"none", "due", "calling", "ended", "dead"}]
  /\ handler \in [Alloc -> {"none", "lookup", "read", "unmount", "remove"}]
  /\ target \in [Alloc -> Pods \cup {NoPod}]
  /\ late \subseteq Alloc /\ faults \in 0..MaxFaults /\ lives \in 0..MaxLives

(***************************************************************************)
(* While a pod has a device, and after that until its DelNetDev is done or *)
(* the device was given on, the table does not point to the path of        *)
(* another pod, although entries are never removed and DelNetDev may come  *)
(* for earlier pods.                                                       *)
(***************************************************************************)
Held(a) == /\ prep[a] \in {"done", "skipped"}
           /\ stage[a[1]] = "running" \/ (Pending(a) /\ a \notin late)

EntryOfHolder ==
  \A a \in Alloc : Held(a) /\ prep[a] = "done" => maps[a[2]] \in {a[1], NoPod}

(***************************************************************************)
(* The map of an allocation that is being made or in use is taken away by  *)
(* Terminate, by the DelNetDev of its own pod, or by that of an earlier    *)
(* pod which was not done when the kubelet gave the device on, and then    *)
(* read the entry of the next pod; never by another call.                  *)
(***************************************************************************)
InUse(a) == Held(a) \/ (stage[a[1]] = "allocating" /\ prep[a] # "none")

PinLostFor ==
  [][\A a \in pins \ pins' : InUse(a) =>
       \/ pool[PoolOf[a[2]]] = "listed" /\ pool'[PoolOf[a[2]]] = "ended"
       \/ \E b \in late \cup {a} : handler[b] = "unmount" /\ b[2] = a[2]]_vars

(***************************************************************************)
(* As long as the first process lives and no call fails, every mount       *)
(* belongs to an allocation that is being made, is in use, or is about to  *)
(* be deleted.  What is left behind is the map of a device that was given  *)
(* on before its DelNetDev was done (AddMap forgets its path), and those   *)
(* of a request that another such device made fail.                        *)
(***************************************************************************)
Undisturbed == lives = 1 /\ faults = 0 /\ Serving

NothingLeaks ==
  Undisturbed => \A a \in mounts \ late :
    \/ prep[a] \in Steps
    \/ prep[a] = "done" /\ stage[a[1]] = "allocating"
    \/ Held(a)
    \/ stage[a[1]] = "rejected" /\ late # {}

(***************************************************************************)
(* A request for devices that no pod has is turned down only if something  *)
(* failed or a device is still away, for pools of every user (README:      *)
(* BpfMapPinningEnable).                                                   *)
(***************************************************************************)
RejectedForCause == Undisturbed /\ late = {} => \A p \in Pods : stage[p] # "rejected"

(***************************************************************************)
(* It is the pools of another user alone, and devices that an earlier pod  *)
(* has yet to give back, that make a request fail without a failure of its *)
(* own: nothing that was deleted, or left behind, gets in the way of one   *)
(* for devices of a pool that is root's.                                   *)
(***************************************************************************)
RejectedByUserPool ==
  [][\A p \in Pods : Undisturbed' /\ stage[p] # "rejected" /\ stage'[p] = "rejected" =>
       \E a \in Alloc : /\ a[1] = p /\ prep[a] = "todo"
                        /\ PoolOf[a[2]] \in UserPools \/ Away(a)]_vars
=============================================================================
