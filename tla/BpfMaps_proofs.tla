-------------------------- MODULE BpfMaps_proofs --------------------------
(***************************************************************************)
(* Proofs about BpfMaps, for any pods, devices and pools, any number of    *)
(* starts of the plugin and any number of failing calls.                   *)
(*                                                                         *)
(* Everything rests on one fact: no two allocations of one device are in   *)
(* use at the same time (Exclusive).  One whose request was turned down    *)
(* counts as long as the handler of that request is still at work, one     *)
(* whose pod has ended until its DelNetDev is done or the device given on. *)
(***************************************************************************)
EXTENDS BpfMaps, TLAPS

USE BpfAssumption

\* The handler of the request has not finished with a, or a pod has the device.
Busy(a) == prep[a] \in Steps \cup {"todo"}
Uses(a) == Busy(a) \/ InUse(a)

\* Where a pod, the call made for it and the handler of its request can be, and
\* where its pool is then.
NewClean   == \A a \in Alloc : stage[a[1]] = "new" => prep[a] = "none"
OneRequest == \A p, r \in Pods :
                stage[p] = "allocating" /\ stage[r] = "allocating" => p = r
Listed     == \A a \in Alloc :
                stage[a[1]] = "allocating" /\ prep[a] # "none" => pool[PoolOf[a[2]]] = "listed"
BusyPlaced == \A a \in Alloc : Busy(a) =>
                \/ stage[a[1]] = "allocating"
                \/ stage[a[1]] = "rejected" /\ pool[PoolOf[a[2]]] = "ended"
CallPlaced == \A a \in Alloc :
                /\ call[a] # "none" => stage[a[1]] = "stopping" /\ prep[a] \in {"done", "skipped"}
                /\ handler[a] # "none" => call[a] \in {"calling", "dead"}

OnePoolEach == \A a, b \in Alloc :
                 a[1] = b[1] /\ prep[a] # "none" /\ prep[b] # "none"
                   => PoolOf[a[2]] = PoolOf[b[2]]

Placed == OnePoolEach /\ NewClean /\ OneRequest /\ Listed /\ BusyPlaced /\ CallPlaced

\* What the table and a deletion in progress point to was completed once.
EntriesDone ==
  /\ \A d \in Devices : maps[d] # NoPod => prep[<<maps[d], d>>] = "done"
  /\ \A a \in Alloc : target[a] # NoPod => prep[<<target[a], a[2]>>] = "done"
  /\ \A a \in Alloc : handler[a] \in {"unmount", "remove"} => target[a] # NoPod

\* What is made on what, and what Allocate has mounted stays so until it is done.
Mounted ==
  /\ widened \subseteq base /\ base \subseteq Pools
  /\ dirs \subseteq Alloc /\ mounts \subseteq dirs /\ pins \subseteq mounts
  /\ \A a \in Alloc : prep[a] \in {"share", "load", "add"} => a \in mounts

EntryOfUser == \A a \in Alloc :
                 Uses(a) /\ prep[a] = "done" => maps[a[2]] \in {a[1], NoPod}

Exclusive == \A a, b \in Alloc : Uses(a) /\ Uses(b) /\ a[2] = b[2] => a = b

\* Before the first start nothing has happened.
Fresh == lives = 0 =>
  /\ Down /\ mounts = {}
  /\ \A p \in Pods : stage[p] = "new"
  /\ \A a \in Alloc : prep[a] = "none" /\ call[a] = "none" /\ handler[a] = "none"

\* As long as nothing fails, the table and the file systems agree on the devices
\* that were not given on early.
MapInPlace(a) ==
  /\ prep[a] \in Steps \cup {"done"}
  /\ Uses(a) \/ (stage[a[1]] = "rejected" /\ late # {})
  /\ handler[a] = "unmount" => target[a] = a[1]
  /\ handler[a] # "remove"
CalmAt(a) ==
  /\ call[a] # "dead" /\ (call[a] = "calling" => handler[a] # "none")
  /\ prep[a] # "none" => pool[PoolOf[a[2]]] = "listed"
  /\ prep[a] = "done" => maps[a[2]] # NoPod
  /\ prep[a] \in Steps \cup {"done"} => PoolOf[a[2]] \in base \ widened
  /\ prep[a] = "mount" => a \in dirs
  /\ a \in mounts \ late => MapInPlace(a)
Calm == Undisturbed => \A a \in Alloc : CalmAt(a)

\* The types, but for what relates the variables to each other.
Shape ==
  /\ pool \in [Pools -> {"down", "starting", "listed", "skipped", "ended"}]
  /\ maps \in [Devices -> Pods \cup {NoPod}]
  /\ stage \in [Pods -> {"new", "allocating", "running", "stopping", "rejected"}]
  /\ prep \in [Alloc -> Steps \cup {"none", "todo", "done", "skipped"}]
  /\ call \in [Alloc -> {"none", "due", "calling", "ended", "dead"}]
  /\ handler \in [Alloc -> {"none", "lookup", "read", "unmount", "remove"}]
  /\ target \in [Alloc -> Pods \cup {NoPod}]

Counted == late \subseteq Alloc /\ faults \in 0..MaxFaults /\ lives \in 0..MaxLives

-----------------------------------------------------------------------------
\* Allocations are pairs.
LEMMA AllocPair == \A a \in Alloc : a[1] \in Pods /\ a[2] \in Devices /\ a = <<a[1], a[2]>>
BY DEF Alloc
LEMMA PairAlloc == \A p \in Pods, d \in Devices : <<p, d>> \in Alloc
BY DEF Alloc


\* Only a request makes a DelNetDev late.
LEMMA LateKept ==
  ASSUME Next
  PROVE  late' = late \/ \E p \in Pods, D \in SUBSET Devices : Request(p, D)
<1> USE DEF history, Fault, NoFault
<1>1. CASE PluginStep
  BY <1>1 DEF PluginStep, Start, Exit, Crash, InitPool, Terminate, Die
<1>2. ASSUME NEW p \in Pods, Reply(p) \/ Stop(p) PROVE late' = late
  BY <1>2 DEF Reply, Stop
<1>3. ASSUME NEW a \in Alloc, AllocateStep(a) PROVE late' = late
  BY <1>3 DEF AllocateStep, Skip, MakeDir, Mount, MakeShared, LoadBpfPinXskMap, AddMap
<1>4. ASSUME NEW a \in Alloc, DelStep(a) \/ CallerDies(a) PROVE late' = late
  BY <1>4 DEF DelStep, DeleteNetDev, Lookup, ReadPath, Unmount, Remove, CallerDies
<1>5. ASSUME NEW a \in Alloc, NEW b \in Alloc, ConcurrentMapAccess(a, b) PROVE late' = late
  BY <1>5 DEF ConcurrentMapAccess, Die
<1> QED
  BY <1>1, <1>2, <1>3, <1>4, <1>5 DEF Next

\* A step counts a failing call, a start, or neither.
LEMMA CountStep == Next => Start \/ Fault \/ UNCHANGED <<faults, lives>>
BY DEF Next, PluginStep, Exit, Crash, InitPool, Terminate, Die, Reply, Stop, Request,
    AllocateStep, Skip, MakeDir, Mount, MakeShared, LoadBpfPinXskMap, AddMap, DelStep,
    DeleteNetDev, Lookup, ReadPath, Unmount, Remove, CallerDies, ConcurrentMapAccess,
    NoFault, history

LEMMA CountedStep == ASSUME Counted, Next PROVE Counted'
<1>1. late' \subseteq Alloc
  <2>1. ASSUME NEW p \in Pods, NEW D \in SUBSET Devices, Request(p, D) PROVE late' \subseteq Alloc
    BY <2>1 DEF Counted, Request
  <2> QED
    BY <2>1, LateKept DEF Counted
<1>2. faults' \in 0..MaxFaults /\ lives' \in 0..MaxLives
  <2>1. CASE Start
    BY <2>1 DEF Counted, Start
  <2>2. CASE Fault
    BY <2>2 DEF Counted, Fault
  <2>3. CASE UNCHANGED <<faults, lives>>
    BY <2>3 DEF Counted
  <2> QED
    BY <2>1, <2>2, <2>3, CountStep
<1> QED
  BY <1>1, <1>2 DEF Counted

\* Each step keeps the types, then who is where, and then the rest.
LEMMA ShapeProceed ==
  ASSUME Shape, NEW a \in Alloc, NEW s \in Steps \cup {"done", "skipped"}, Proceed(a, s),
         UNCHANGED <<pool, call, server>>, maps' \in [Devices -> Pods \cup {NoPod}]
  PROVE  Shape'
BY DEF Shape, Proceed, server, Steps

LEMMA ShapeFail ==
  ASSUME Shape, NEW p \in Pods, Fail(p), UNCHANGED <<pool, maps, call, server>>
  PROVE  Shape'
<1>1. prep' \in [Alloc -> Steps \cup {"none", "todo", "done", "skipped"}]
  BY DEF Shape, Fail, GiveUp, Steps
<1>2. stage' \in [Pods -> {"new", "allocating", "running", "stopping", "rejected"}]
  BY DEF Shape, Fail
<1> QED
  BY <1>1, <1>2 DEF Shape, server

LEMMA ShapeAnswer ==
  ASSUME Shape, NEW a \in Alloc, Answer(a), UNCHANGED <<pool, maps, stage, prep>>
  PROVE  Shape'
BY DEF Shape, Answer

LEMMA ShapeContinue ==
  ASSUME Shape, NEW a \in Alloc, NEW s \in {"read", "unmount", "remove"}, Continue(a, s),
         UNCHANGED <<pool, maps, stage, prep>>, target' \in [Alloc -> Pods \cup {NoPod}]
  PROVE  Shape'
BY DEF Shape, Continue

LEMMA ShapeDie == ASSUME Shape, Die PROVE Shape'
<1>1. prep' \in [Alloc -> Steps \cup {"none", "todo", "done", "skipped"}]
  BY DEF Shape, Die, GiveUp, Steps
<1>2. /\ stage' \in [Pods -> {"new", "allocating", "running", "stopping", "rejected"}]
      /\ call' \in [Alloc -> {"none", "due", "calling", "ended", "dead"}]
  BY DEF Shape, Die, Disconnect
<1> QED
  BY <1>1, <1>2 DEF Shape, Die

LEMMA ShapeStep == ASSUME Shape, Next PROVE Shape'
<1>1. CASE PluginStep
  <2>1. CASE Start
    BY <2>1 DEF Shape, Start, server
  <2>2. CASE Exit \/ Crash
    BY <2>2, ShapeDie DEF Exit, Crash
  <2>3. ASSUME NEW q \in Pools, InitPool(q) PROVE Shape'
    BY <2>3 DEF Shape, InitPool, server
  <2>4. ASSUME NEW q \in Pools, Terminate(q) PROVE Shape'
    BY <2>4 DEF Shape, Terminate, Disconnect, server
  <2> QED
    BY <1>1, <2>1, <2>2, <2>3, <2>4 DEF PluginStep
<1>2. ASSUME NEW p \in Pods, Reply(p) PROVE Shape'
  BY <1>2 DEF Shape, Reply, server
<1>3. ASSUME NEW p \in Pods, Stop(p) PROVE Shape'
  BY <1>3 DEF Shape, Stop, server
<1>4. ASSUME NEW p \in Pods, NEW D \in SUBSET Devices, Request(p, D) PROVE Shape'
  BY <1>4 DEF Shape, Request, server
<1>5. ASSUME NEW a \in Alloc, AllocateStep(a) PROVE Shape'
  <2>1. UNCHANGED <<pool, call, server>> /\ a[1] \in Pods /\ a[2] \in Devices
    BY <1>5, AllocPair DEF AllocateStep, Skip, MakeDir, Mount, MakeShared,
        LoadBpfPinXskMap, AddMap
  <2>2. maps' \in [Devices -> Pods \cup {NoPod}]
    BY <1>5, <2>1 DEF Shape, AllocateStep, Skip, MakeDir, Mount, MakeShared,
        LoadBpfPinXskMap, AddMap
  <2>3. \/ \E s \in Steps \cup {"done", "skipped"} : Proceed(a, s)
        \/ Fail(a[1]) /\ maps' = maps
    BY <1>5 DEF AllocateStep, Skip, MakeDir, Mount, MakeShared, LoadBpfPinXskMap, AddMap, Steps
  <2> QED
    BY <2>1, <2>2, <2>3, ShapeProceed, ShapeFail
<1>6. ASSUME NEW a \in Alloc, DelStep(a) \/ CallerDies(a) PROVE Shape'
  <2>1. CASE DeleteNetDev(a) \/ CallerDies(a)
    BY <2>1 DEF Shape, DeleteNetDev, CallerDies, server
  <2>2. CASE Lookup(a)
    BY <2>2, ShapeAnswer, ShapeContinue DEF Lookup, Shape
  <2>3. CASE ReadPath(a)
    <3>1. maps[a[2]] \in Pods \cup {NoPod}
      BY AllocPair DEF Shape
    <3>2. [target EXCEPT ![a] = maps[a[2]]] \in [Alloc -> Pods \cup {NoPod}]
      BY <3>1 DEF Shape
    <3> QED
      BY <2>3, <3>2, ShapeAnswer, ShapeContinue DEF ReadPath
  <2>4. CASE Unmount(a)
    BY <2>4, ShapeAnswer, ShapeContinue DEF Unmount, Shape
  <2>5. CASE Remove(a)
    BY <2>5, ShapeAnswer DEF Remove
  <2> QED
    BY <1>6, <2>1, <2>2, <2>3, <2>4, <2>5 DEF DelStep
<1>7. ASSUME NEW a \in Alloc, NEW b \in Alloc, ConcurrentMapAccess(a, b) PROVE Shape'
  BY <1>7, ShapeDie DEF ConcurrentMapAccess
<1> QED
  BY <1>1, <1>2, <1>3, <1>4, <1>5, <1>6, <1>7 DEF Next

LEMMA PlacedStep == ASSUME Shape, Placed, Next PROVE Placed'
<1> USE AllocPair, PairAlloc DEF Shape, Placed, OnePoolEach, NewClean, OneRequest,
    Listed, BusyPlaced, CallPlaced, Busy, server, history, files, Steps
<1>1. CASE Start
  BY <1>1 DEF Start, Down
<1>2. CASE Die
  BY <1>2 DEF Die, Disconnect, GiveUp
<1>3. ASSUME NEW q \in Pools, InitPool(q) PROVE Placed'
  BY <1>3 DEF InitPool
<1>4. ASSUME NEW q \in Pools, Terminate(q) PROVE Placed'
  <2>1. /\ prep' = prep /\ handler' = handler /\ pool' = [pool EXCEPT ![q] = "ended"]
        /\ pool[q] = "listed"
    BY <1>4 DEF Terminate, CleanupMapManager
  <2>2. \A p \in Pods : stage'[p] = stage[p]
          \/ (/\ stage[p] = "allocating" /\ stage'[p] = "rejected"
              /\ \E a \in Alloc : a[1] = p /\ prep[a] # "none" /\ PoolOf[a[2]] = q)
    BY <1>4 DEF Terminate, Disconnect
  <2>3. \A a \in Alloc : stage'[a[1]] = "allocating" /\ prep[a] # "none" => PoolOf[a[2]] # q
    BY <1>4 DEF Terminate, Disconnect
  <2>4. OnePoolEach' /\ NewClean' /\ OneRequest'
    BY <2>1, <2>2
  <2>5. Listed'
    BY <2>1, <2>2, <2>3
  <2>6. BusyPlaced'
    BY <2>1, <2>2
  <2>7. CallPlaced'
    BY <1>4, <2>1, <2>2 DEF Terminate, Disconnect
  <2> QED
    BY <2>4, <2>5, <2>6, <2>7
<1>5. ASSUME NEW p \in Pods, Reply(p) PROVE Placed'
  BY <1>5 DEF Reply
<1>6. ASSUME NEW p \in Pods, Stop(p) PROVE Placed'
  BY <1>6 DEF Stop
<1>7. ASSUME NEW p \in Pods, NEW D \in SUBSET Devices, Request(p, D) PROVE Placed'
  BY <1>7 DEF Request
<1>8. ASSUME NEW a \in Alloc, AllocateStep(a) PROVE Placed'
  <2>1. Busy(a)
    BY <1>8 DEF AllocateStep, Skip, MakeDir, Mount, MakeShared, LoadBpfPinXskMap,
        AddMap, Begins
  <2>0. UNCHANGED <<pool, call, server>>
    BY <1>8 DEF AllocateStep, Skip, MakeDir, Mount, MakeShared, LoadBpfPinXskMap, AddMap
  <2>2. CASE \E s \in Steps \cup {"done", "skipped"} : Proceed(a, s)
    <3>1. PICK s \in Steps \cup {"done", "skipped"} :
            prep' = [prep EXCEPT ![a] = s] /\ stage' = stage
      BY <2>2 DEF Proceed
    <3>2. OnePoolEach' /\ NewClean' /\ OneRequest'
      BY <2>0, <2>1, <3>1
    <3>3. Listed' /\ BusyPlaced'
      BY <2>0, <2>1, <3>1
    <3>4. CallPlaced'
      BY <2>0, <2>1, <3>1
    <3> QED
      BY <3>2, <3>3, <3>4
  <2>3. CASE Fail(a[1])
    <3>1. \A b \in Alloc : prep'[b] = IF b[1] = a[1] /\ Busy(b) THEN "none" ELSE prep[b]
      BY <2>3 DEF Fail, GiveUp
    <3>2. \A p \in Pods :
            stage'[p] = IF p = a[1] /\ stage[p] = "allocating" THEN "rejected" ELSE stage[p]
      BY <2>3 DEF Fail
    <3>3. OnePoolEach' /\ NewClean' /\ OneRequest'
      BY <2>0, <2>1, <3>1, <3>2
    <3>4. Listed' /\ BusyPlaced'
      BY <2>0, <2>1, <3>1, <3>2
    <3>5. CallPlaced'
      BY <2>0, <2>1, <3>1, <3>2
    <3> QED
      BY <3>3, <3>4, <3>5
  <2> QED
    BY <1>8, <2>2, <2>3 DEF AllocateStep, Skip, MakeDir, Mount, MakeShared,
        LoadBpfPinXskMap, AddMap
<1>9. ASSUME NEW a \in Alloc, DelStep(a) \/ CallerDies(a) PROVE Placed'
  BY <1>9 DEF DelStep, DeleteNetDev, Lookup, ReadPath, Unmount, Remove, CallerDies,
      Answer, Continue
<1> QED
  BY <1>1, <1>2, <1>3, <1>4, <1>5, <1>6, <1>7, <1>8, <1>9
  DEF Next, PluginStep, Exit, Crash, ConcurrentMapAccess

\* Only a request gives a device to a pod.
LEMMA UsesOnlyLess ==
  ASSUME Shape, Placed, Next, NEW a \in Alloc, Uses(a)',
         \A p \in Pods, D \in SUBSET Devices : ~Request(p, D)
  PROVE  Uses(a)
<1> USE AllocPair, PairAlloc DEF Shape, Placed, OnePoolEach, NewClean, OneRequest,
    Listed, BusyPlaced, CallPlaced, Uses, InUse, Held, Pending, Busy, server, files, Steps
<1>0. late' = late
  BY LateKept
<1>1. CASE Start
  BY <1>0, <1>1 DEF Start, Down
<1>2. CASE Die
  BY <1>0, <1>2 DEF Die, Disconnect, GiveUp
<1>3. ASSUME NEW q \in Pools, InitPool(q) PROVE Uses(a)
  BY <1>0, <1>3 DEF InitPool
<1>4. ASSUME NEW q \in Pools, Terminate(q) PROVE Uses(a)
  BY <1>0, <1>4 DEF Terminate, Disconnect
<1>5. ASSUME NEW p \in Pods, Reply(p) PROVE Uses(a)
  BY <1>0, <1>5 DEF Reply
<1>6. ASSUME NEW p \in Pods, Stop(p) PROVE Uses(a)
  BY <1>0, <1>6 DEF Stop
<1>8. ASSUME NEW b \in Alloc, AllocateStep(b) PROVE Uses(a)
  <2>1. Busy(b)
    BY <1>8 DEF AllocateStep, Skip, MakeDir, Mount, MakeShared, LoadBpfPinXskMap,
        AddMap, Begins
  <2>2. CASE \E s \in Steps \cup {"done", "skipped"} : Proceed(b, s)
    BY <1>0, <1>8, <2>1, <2>2 DEF Proceed, AllocateStep, Skip, MakeDir, Mount, MakeShared,
        LoadBpfPinXskMap, AddMap
  <2>3. CASE Fail(b[1])
    BY <1>0, <1>8, <2>1, <2>3 DEF Fail, GiveUp, AllocateStep, Skip, MakeDir, Mount,
        MakeShared, LoadBpfPinXskMap, AddMap
  <2> QED
    BY <1>0, <1>8, <2>2, <2>3 DEF AllocateStep, Skip, MakeDir, Mount, MakeShared,
        LoadBpfPinXskMap, AddMap
<1>9. ASSUME NEW b \in Alloc, DelStep(b) \/ CallerDies(b) PROVE Uses(a)
  BY <1>0, <1>9 DEF DelStep, DeleteNetDev, Lookup, ReadPath, Unmount, Remove, CallerDies,
      Answer, Continue
<1> QED
  BY <1>1, <1>2, <1>3, <1>4, <1>5, <1>6, <1>8, <1>9
  DEF Next, PluginStep, Exit, Crash, ConcurrentMapAccess

\* A request takes its devices from those who are not done with them.
LEMMA RequestUses ==
  ASSUME Shape, Placed, NEW p \in Pods, NEW D \in SUBSET Devices, Request(p, D),
         NEW a \in Alloc, Uses(a)'
  PROVE  /\ a[2] \in D => a[1] = p /\ prep'[a] = "todo"
         /\ a[2] \notin D => Uses(a) /\ prep'[a] = prep[a]
<1> USE AllocPair, PairAlloc DEF Shape, Placed, NewClean, OneRequest, BusyPlaced,
    CallPlaced, Uses, InUse, Held, Pending, Busy, Steps
<1>1. /\ stage[p] = "new" /\ \A q \in Pods : stage[q] # "allocating"
      /\ \E q \in Pools : pool[q] = "listed" /\ \A d \in D : PoolOf[d] = q
      /\ a[2] \in D /\ stage[a[1]] = "running" => prep[a] = "none"
      /\ a[2] \in D /\ Pending(a) => a \in late'
      /\ \A q \in Pods : stage'[q] = IF q = p THEN "allocating" ELSE stage[q]
      /\ prep'[a] = IF a[1] = p /\ a[2] \in D THEN "todo" ELSE prep[a]
      /\ late \subseteq late' /\ UNCHANGED <<pool, call, handler>>
  BY DEF Request, server
<1>2. CASE a[1] = p
  BY <1>1, <1>2
<1>3. CASE a[1] # p
  BY <1>1, <1>3
<1> QED
  BY <1>2, <1>3

\* A device is requested only when no allocation of it is in use.
LEMMA ExclusiveStep == ASSUME Shape, Placed, Exclusive, Next PROVE Exclusive'
<1>1. ASSUME NEW p \in Pods, NEW D \in SUBSET Devices, Request(p, D) PROVE Exclusive'
  BY <1>1, RequestUses, AllocPair DEF Exclusive
<1>2. CASE \A p \in Pods, D \in SUBSET Devices : ~Request(p, D)
  BY <1>2, UsesOnlyLess DEF Exclusive
<1> QED
  BY <1>1, <1>2

\* What Allocate has finished for a device stays finished.
LEMMA DoneStays ==
  ASSUME Shape, Placed, Next, NEW a \in Alloc, prep[a] = "done"
  PROVE  prep'[a] = "done"
<1> USE AllocPair DEF Shape, Steps
<1>1. CASE PluginStep
  <2>1. prep' = prep \/ Die
    BY <1>1 DEF PluginStep, Start, Exit, Crash, InitPool, Terminate
  <2> QED
    BY <2>1 DEF Die, GiveUp
<1>2. ASSUME NEW p \in Pods, NEW D \in SUBSET Devices, Request(p, D) PROVE prep'[a] = "done"
  BY <1>2 DEF Request, Placed, NewClean
<1>3. ASSUME NEW b \in Alloc, AllocateStep(b) PROVE prep'[a] = "done"
  BY <1>3 DEF AllocateStep, Skip, MakeDir, Mount, MakeShared, LoadBpfPinXskMap, AddMap,
              Begins, Proceed, Fail, GiveUp
<1>4. CASE \A p \in Pods, D \in SUBSET Devices, b \in Alloc :
             ~PluginStep /\ ~Request(p, D) /\ ~AllocateStep(b)
  <2>1. prep' = prep \/ \E b, c \in Alloc : ConcurrentMapAccess(b, c)
    BY <1>4 DEF Next, Reply, Stop, DelStep, DeleteNetDev, Lookup, ReadPath, Unmount,
        Remove, CallerDies
  <2> QED
    BY <2>1 DEF ConcurrentMapAccess, Die, GiveUp
<1> QED
  BY <1>1, <1>2, <1>3, <1>4

\* The table gets an entry when an allocation is done, a deletion from the table.
LEMMA EntriesStep == ASSUME Shape, Placed, EntriesDone, Mounted, Next PROVE EntriesDone'
<1> USE AllocPair, PairAlloc, DoneStays DEF Shape, EntriesDone
<1>1. CASE Die
  BY <1>1 DEF Die
<1>2. CASE UNCHANGED <<maps, server>>
  BY <1>2 DEF server
<1>3. ASSUME NEW a \in Alloc, AddMap(a) PROVE EntriesDone'
  <2>1. maps' = [maps EXCEPT ![a[2]] = a[1]] /\ prep'[a] = "done" /\ UNCHANGED server
    BY <1>3 DEF AddMap, Proceed
  <2>2. ASSUME NEW d \in Devices, maps'[d] # NoPod PROVE prep'[<<maps'[d], d>>] = "done"
    <3>1. CASE d = a[2]
      <4>1. <<maps'[d], d>> = a
        BY <2>1, <3>1
      <4> QED
        BY <2>1, <4>1
    <3>2. CASE d # a[2]
      <4>1. maps'[d] = maps[d]
        BY <2>1, <3>2
      <4>2. <<maps[d], d>> \in Alloc /\ prep[<<maps[d], d>>] = "done"
        BY <2>2, <4>1
      <4> QED
        BY <4>1, <4>2
    <3> QED
      BY <3>1, <3>2
  <2> QED
    BY <2>1, <2>2 DEF server
<1>4. ASSUME NEW a \in Alloc, ReadPath(a) PROVE EntriesDone'
  <2>1. CASE Answer(a)
    BY <1>4, <2>1 DEF ReadPath, Answer
  <2>2. CASE Continue(a, "unmount") /\ target' = [target EXCEPT ![a] = maps[a[2]]]
          /\ <<maps[a[2]], a[2]>> \in dirs
    <3>1. maps[a[2]] # NoPod
      BY <2>2 DEF Mounted, Alloc
    <3> QED
      BY <1>4, <2>2, <3>1 DEF ReadPath, Continue
  <2> QED
    BY <1>4, <2>1, <2>2 DEF ReadPath
<1>5. ASSUME NEW a \in Alloc, \/ DeleteNetDev(a) \/ CallerDies(a) \/ Lookup(a)
                              \/ Unmount(a) \/ Remove(a)
      PROVE  EntriesDone'
  <2>1. maps' = maps
    BY <1>5 DEF DeleteNetDev, CallerDies, Lookup, Unmount, Remove
  <2>2. \/ UNCHANGED target
        \/ target' = [target EXCEPT ![a] = NoPod] /\ handler'[a] = "none"
    BY <1>5 DEF DeleteNetDev, CallerDies, Lookup, Unmount, Remove, Answer, server
  <2>3. \A b \in Alloc : handler'[b] \in {"unmount", "remove"} =>
          handler[b] \in {"unmount", "remove"}
    BY <1>5 DEF DeleteNetDev, CallerDies, Lookup, Unmount, Remove, Answer, Continue, server
  <2> QED
    BY <2>1, <2>2, <2>3
<1> QED
  <2>1. CASE PluginStep
    BY <1>1, <1>2, <2>1 DEF PluginStep, Start, Exit, Crash, InitPool, Terminate
  <2>2. ASSUME NEW p \in Pods, NEW D \in SUBSET Devices, Reply(p) \/ Stop(p) \/ Request(p, D)
        PROVE  EntriesDone'
    BY <1>2, <2>2 DEF Reply, Stop, Request
  <2>3. ASSUME NEW a \in Alloc, AllocateStep(a) PROVE EntriesDone'
    BY <1>2, <1>3, <2>3 DEF AllocateStep, Skip, MakeDir, Mount, MakeShared, LoadBpfPinXskMap
  <2> QED
    BY <1>1, <1>4, <1>5, <2>1, <2>2, <2>3 DEF Next, DelStep, ConcurrentMapAccess

\* A file system that is being prepared is mounted.
LEMMA MountedStep == ASSUME Shape, Placed, EntriesDone, Mounted, Next PROVE Mounted'
<1> USE AllocPair, PairAlloc DEF Shape, Mounted, Steps
<1>1. CASE PluginStep
  <2>1. CASE Start
    BY <2>1 DEF Start, files
  <2>2. CASE Die
    BY <2>2 DEF Die, GiveUp, files
  <2>3. ASSUME NEW q \in Pools, InitPool(q) PROVE Mounted'
    BY <2>3 DEF InitPool, CreateBPFFSBaseDirectory, CreateBPFFSBaseDirectoryFails,
                GivePermissions, GivePermissionsFails, files
  <2>4. ASSUME NEW q \in Pools, Terminate(q) PROVE Mounted'
    BY <2>4 DEF Terminate, CleanupMapManager
  <2> QED
    BY <1>1, <2>1, <2>2, <2>3, <2>4 DEF PluginStep, Exit, Crash
<1>2. ASSUME NEW p \in Pods, NEW D \in SUBSET Devices, Reply(p) \/ Stop(p) \/ Request(p, D)
      PROVE  Mounted'
  BY <1>2 DEF Reply, Stop, Request, files
<1>3. ASSUME NEW a \in Alloc, AllocateStep(a) PROVE Mounted'
  <2>1. UNCHANGED <<base, widened>>
    BY <1>3 DEF AllocateStep, Skip, MakeDir, Mount, MakeShared, LoadBpfPinXskMap, AddMap
  <2>2. /\ dirs' \in {dirs, dirs \cup {a}}
        /\ mounts' \in {mounts, mounts \cup ({a} \cap dirs)}
        /\ pins' \in {pins, pins \cup ({a} \cap mounts)}
    BY <1>3 DEF AllocateStep, Skip, MakeDir, Mount, MakeShared, LoadBpfPinXskMap,
        AddMap, files
  <2>3. \A b \in Alloc : prep'[b] \in {"share", "load", "add"} => b = a \/ prep'[b] = prep[b]
    BY <1>3 DEF AllocateStep, Skip, MakeDir, Mount, MakeShared, LoadBpfPinXskMap, AddMap,
                Proceed, Fail, GiveUp
  <2>4. prep'[a] \in {"share", "load", "add"} => a \in mounts'
    BY <1>3 DEF AllocateStep, Skip, MakeDir, Mount, MakeShared, LoadBpfPinXskMap, AddMap,
                Proceed, Fail, GiveUp, Begins, files
  <2> QED
    BY <2>1, <2>2, <2>3, <2>4
<1>4. ASSUME NEW a \in Alloc, DelStep(a) \/ CallerDies(a) PROVE Mounted'
  <2> DEFINE t == <<target[a], a[2]>>
  <2>1. UNCHANGED <<base, widened, prep>>
    BY <1>4 DEF DelStep, DeleteNetDev, Lookup, ReadPath, Unmount, Remove, CallerDies
  <2>2. CASE UNCHANGED files
    BY <2>1, <2>2 DEF files
  <2>3. CASE Unmount(a)
    <3>1. prep[t] = "done"
      BY <2>3 DEF Unmount, EntriesDone
    <3>2. dirs' = dirs /\ \/ UNCHANGED <<mounts, pins>>
                          \/ mounts' = mounts \ {t} /\ pins' = pins \ {t}
      BY <2>3 DEF Unmount
    <3> QED
      BY <2>1, <3>1, <3>2
  <2>4. CASE Remove(a)
    <3>1. UNCHANGED <<mounts, pins>> /\ (dirs' = dirs \/ (t \notin mounts /\ dirs' = dirs \ {t}))
      BY <2>4 DEF Remove
    <3> QED
      BY <2>1, <3>1
  <2> QED
    BY <1>4, <2>2, <2>3, <2>4 DEF DelStep, DeleteNetDev, Lookup, ReadPath, CallerDies
<1>5. ASSUME NEW a \in Alloc, NEW b \in Alloc, ConcurrentMapAccess(a, b) PROVE Mounted'
  BY <1>5 DEF ConcurrentMapAccess, Die, GiveUp, files
<1> QED
  BY <1>1, <1>2, <1>3, <1>4, <1>5 DEF Next

\* A new entry is written for the only user of the device.
LEMMA EntryStep ==
  ASSUME Shape, Placed, Exclusive, EntryOfUser, Next
  PROVE  EntryOfUser'
<1> SUFFICES ASSUME NEW a \in Alloc, Uses(a)', prep'[a] = "done"
             PROVE  maps'[a[2]] \in {a[1], NoPod}
  BY DEF EntryOfUser
<1> USE AllocPair
<1>1. ASSUME NEW p \in Pods, NEW D \in SUBSET Devices, Request(p, D)
      PROVE  maps'[a[2]] \in {a[1], NoPod}
  BY <1>1, RequestUses DEF Request, EntryOfUser
<1>2. CASE \A p \in Pods, D \in SUBSET Devices : ~Request(p, D)
  <2>1. Uses(a)
    BY <1>2, UsesOnlyLess
  <2>2. CASE Die
    BY <2>2 DEF Die
  <2>3. ASSUME NEW b \in Alloc, AddMap(b) PROVE maps'[a[2]] \in {a[1], NoPod}
    <3>1. Uses(b) /\ maps' = [maps EXCEPT ![b[2]] = b[1]] /\ prep' = [prep EXCEPT ![b] = "done"]
      BY <2>3 DEF AddMap, Proceed, Uses, Busy, Steps
    <3>2. a[2] = b[2] => a = b
      BY <2>1, <3>1 DEF Exclusive
    <3> QED
      BY <2>1, <3>1, <3>2 DEF EntryOfUser, Shape
  <2>4. CASE maps' = maps /\ prep[a] = "done"
    BY <2>1, <2>4 DEF EntryOfUser
  <2>5. ASSUME NEW b \in Alloc, AllocateStep(b), ~AddMap(b) PROVE maps' = maps /\ prep[a] = "done"
    BY <2>5 DEF AllocateStep, Skip, MakeDir, Mount, MakeShared, LoadBpfPinXskMap,
                Proceed, Fail, GiveUp, Shape
  <2>6. ASSUME NEW b \in Alloc, DelStep(b) \/ CallerDies(b) PROVE maps' = maps /\ prep[a] = "done"
    BY <2>6 DEF DelStep, DeleteNetDev, Lookup, ReadPath, Unmount, Remove, CallerDies
  <2>7. ASSUME NEW p \in Pods, Reply(p) \/ Stop(p) PROVE maps' = maps /\ prep[a] = "done"
    BY <2>7 DEF Reply, Stop
  <2>8. CASE PluginStep /\ ~Die
    BY <2>4, <2>8 DEF PluginStep, Start, Exit, Crash, InitPool, Terminate
  <2> QED
    BY <1>2, <2>2, <2>3, <2>4, <2>5, <2>6, <2>7, <2>8 DEF Next, PluginStep, Exit,
        Crash, ConcurrentMapAccess
<1> QED
  BY <1>1, <1>2

\* Before the first start only that can happen.
LEMMA FreshStep == ASSUME Shape, Counted, Placed, Fresh, Next PROVE Fresh' /\ (lives = 0 => Start)
<1>1. CASE lives = 0
  <2>1. \A q \in Pools : ~InitPool(q) /\ ~Terminate(q)
    BY <1>1 DEF Fresh, Down, InitPool, Terminate
  <2>2. ~Exit /\ ~Crash
    BY <1>1 DEF Fresh, Down, Exit, Crash
  <2>3. \A p \in Pods : ~Reply(p) /\ ~Stop(p) /\ \A D \in SUBSET Devices : ~Request(p, D)
    BY <1>1 DEF Fresh, Down, Reply, Stop, Request
  <2>4. \A a \in Alloc : ~AllocateStep(a) /\ ~DelStep(a) /\ ~CallerDies(a)
    BY <1>1 DEF Fresh, AllocateStep, Skip, MakeDir, Mount, MakeShared,
        LoadBpfPinXskMap, AddMap,
                Begins, DelStep, DeleteNetDev, Lookup, ReadPath, Unmount, Remove, CallerDies
  <2>5. \A a, b \in Alloc : ~ConcurrentMapAccess(a, b)
    BY <1>1 DEF Fresh, ConcurrentMapAccess
  <2>6. Start
    BY <2>1, <2>2, <2>3, <2>4, <2>5 DEF Next, PluginStep
  <2> QED
    BY <1>1, <2>6 DEF Fresh, Start, Counted
<1>2. CASE lives # 0
  <2>1. lives' = lives + 1 \/ lives' = lives
    BY CountStep DEF Start, Fault
  <2> QED
    BY <1>2, <2>1 DEF Fresh, Counted
<1> QED
  BY <1>1, <1>2

\* A calm step comes from a calm state, or is the first start.
LEMMA CalmBefore ==
  ASSUME Shape, Counted, Placed, Fresh, Next, Undisturbed', NEW a \in Alloc
  PROVE  Start \/ (Undisturbed /\ ~Die /\ faults' = faults)
<1>0. PoolOf[a[2]] \in Pools
  BY AllocPair
<1>1. CASE lives = 0
  BY <1>1, FreshStep
<1>2. CASE Start
  BY <1>2
<1>3. CASE lives # 0 /\ ~Start
  <2>1. ~Die
    BY <1>0 DEF Undisturbed, Serving, Die
  <2>2. lives' = lives /\ faults \in Nat /\ faults' \in {faults, faults + 1}
    <3>1. Fault \/ UNCHANGED <<faults, lives>>
      BY <1>3, CountStep
    <3> QED
      BY <3>1 DEF Fault, Counted
  <2>3. faults = 0 /\ lives = 1
    BY <1>3, <2>2 DEF Undisturbed
  <2>4. CASE PluginStep
    <3>1. \A q \in Pools : ~Terminate(q)
      BY DEF Undisturbed, Serving, Terminate, Shape
    <3>2. PICK q \in Pools : InitPool(q)
      BY <1>3, <2>1, <2>4, <3>1 DEF PluginStep, Exit, Crash
    <3>3. Serving
      BY <3>2 DEF Undisturbed, Serving, InitPool, Shape
    <3> QED
      BY <2>1, <2>2, <2>3, <3>3 DEF Undisturbed
  <2>5. CASE ~PluginStep
    <3>1. pool' = pool
      BY <2>1, <2>5 DEF Next, Reply, Stop, Request,
         AllocateStep, Skip, MakeDir, Mount, MakeShared, LoadBpfPinXskMap, AddMap,
         DelStep, DeleteNetDev, Lookup, ReadPath, Unmount, Remove, CallerDies, ConcurrentMapAccess
    <3> QED
      BY <2>1, <2>2, <2>3, <3>1 DEF Undisturbed, Serving
  <2> QED
    BY <2>4, <2>5
<1> QED
  BY <1>1, <1>2, <1>3

\* A DelNetDev that is pending for a device in use was made for its user, or it was
\* not done when the device was given on.
LEMMA CalledByUser ==
  ASSUME Placed, Exclusive, NEW a \in Alloc, Uses(a),
         NEW b \in Alloc, b[2] = a[2], Pending(b)
  PROVE  b = a \/ b \in late
BY DEF Placed, CallPlaced, Exclusive, Uses, InUse, Held, Pending

\* What a step of DelNetDev for another allocation leaves alone.
LEMMA CalmOther ==
  ASSUME NEW a \in Alloc, CalmAt(a),
         UNCHANGED <<pool, base, widened, maps, stage, prep, late>>,
         call'[a] = call[a], handler'[a] = handler[a], target'[a] = target[a],
         mounts' \subseteq mounts, prep[a] = "mount" /\ a \in dirs => a \in dirs'
  PROVE  CalmAt(a)'
BY DEF CalmAt, MapInPlace, Uses, InUse, Held, Pending, Busy

\* DelNetDev finds, unmounts and removes what it was called for, unless the device
\* was given on.
LEMMA CalmDel ==
  ASSUME Shape, Placed, EntriesDone, Mounted, EntryOfUser, Undisturbed, ~Fault,
         late' = late, NEW b \in Alloc, DelStep(b), NEW a \in Alloc, CalmAt(a)
  PROVE  CalmAt(a)'
<1> USE AllocPair, PairAlloc
<1> DEFINE t == <<target[b], b[2]>>
<1>0. UNCHANGED <<pool, base, widened, maps, stage, prep>>
  BY DEF DelStep, DeleteNetDev, Lookup, ReadPath, Unmount, Remove
<1>1. /\ mounts' \subseteq mounts
      /\ prep[a] = "mount" /\ a \in dirs => a \in dirs'
  <2>1. CASE UNCHANGED <<mounts, dirs>>
    BY <2>1
  <2>2. CASE Unmount(b)
    BY <2>2 DEF Unmount
  <2>3. CASE Remove(b)
    <3>1. prep[t] = "done"
      BY <2>3 DEF Remove, EntriesDone
    <3> QED
      BY <2>3, <3>1 DEF Remove
  <2> QED
    BY <2>1, <2>2, <2>3 DEF DelStep, DeleteNetDev, Lookup, ReadPath, files
<1>2. CASE a # b
  <2>1. call'[a] = call[a] /\ handler'[a] = handler[a] /\ target'[a] = target[a]
    BY <1>2 DEF Shape, DelStep, DeleteNetDev, Lookup, ReadPath, Unmount, Remove, Answer,
        Continue
  <2> QED
    BY <1>0, <1>1, <2>1, CalmOther
<1>3. CASE a = b
  <2> DEFINE Settled ==
        /\ call'[b] # "dead" /\ (call'[b] = "calling" => handler'[b] # "none")
        /\ b \in mounts' \ late => MapInPlace(b)'
  <2>1. Settled => CalmAt(a)'
    BY <1>0, <1>1, <1>3 DEF CalmAt
  <2>2. ASSUME b \in mounts \ late, handler[b] # "none"
        PROVE  /\ call[b] = "calling" /\ stage[b[1]] = "stopping" /\ prep[b] = "done"
               /\ maps[b[2]] = b[1] /\ Manages(PoolOf[b[2]])
    BY <1>3, <2>2 DEF CalmAt, MapInPlace, Placed, CallPlaced, EntryOfUser, Uses, InUse,
        Held, Manages, Steps
  <2>3. CASE DeleteNetDev(b)
    <3>1. call'[b] = "calling" /\ handler'[b] = "lookup" /\ UNCHANGED <<mounts, target>>
      BY <2>3 DEF DeleteNetDev, Undisturbed, files, Shape
    <3>2. stage[b[1]] = "stopping" /\ prep[b] \in {"done", "skipped"}
      BY <2>3 DEF DeleteNetDev, Placed, CallPlaced
    <3>3. b \in mounts \ late => MapInPlace(b)'
      BY <1>0, <1>3, <3>1, <3>2 DEF CalmAt, MapInPlace, Uses, InUse, Held, Pending, Steps
    <3> QED
      BY <2>1, <3>1, <3>3
  <2>4. ASSUME NEW s \in {"read", "unmount"}, Continue(b, s), mounts' = mounts,
               handler[b] # "none", s = "unmount" => target'[b] = b[1] \/ b \notin mounts \ late
        PROVE  Settled
    <3>1. handler'[b] = s /\ call' = call
      BY <2>4 DEF Continue, Shape
    <3>2. b \in mounts \ late => MapInPlace(b)'
      BY <1>0, <1>3, <2>2, <2>4, <3>1 DEF MapInPlace, Uses, InUse, Held, Pending, Steps
    <3> QED
      BY <1>3, <2>4, <3>1, <3>2 DEF CalmAt
  <2>5. ASSUME Answer(b), b \notin mounts' \ late
        PROVE  Settled
    BY <1>3, <2>5 DEF CalmAt, Answer, Shape
  <2>6. CASE Lookup(b)
    <3>1. mounts' = mounts /\ handler[b] # "none"
      BY <2>6 DEF Lookup, files
    <3>2. CASE Continue(b, "read")
      BY <2>1, <2>4, <3>1, <3>2
    <3>3. CASE ~Continue(b, "read")
      <4>1. Answer(b) /\ ~(Manages(PoolOf[b[2]]) /\ maps[b[2]] # NoPod)
        BY <2>6, <3>3 DEF Lookup
      <4>2. b[1] # NoPod
        OBVIOUS
      <4> QED
        BY <2>1, <2>2, <2>5, <3>1, <4>1, <4>2
    <3> QED
      BY <3>2, <3>3
  <2>7. CASE ReadPath(b)
    <3>1. mounts' = mounts /\ handler[b] # "none"
      BY <2>7 DEF ReadPath, files
    <3>2. CASE <<maps[b[2]], b[2]>> \in dirs
      <4>1. Continue(b, "unmount") /\ target'[b] = maps[b[2]]
        BY <2>7, <3>2 DEF ReadPath, Shape
      <4> QED
        BY <2>1, <2>2, <2>4, <3>1, <4>1
    <3>3. CASE <<maps[b[2]], b[2]>> \notin dirs
      <4>1. Answer(b) /\ b \notin mounts \ late
        BY <2>2, <2>7, <3>1, <3>3 DEF ReadPath, Mounted
      <4> QED
        BY <2>1, <2>5, <3>1, <4>1
    <3> QED
      BY <3>2, <3>3
  <2>8. CASE Unmount(b)
    <3>1. b \in mounts \ late => t = b
      BY <1>3, <2>8 DEF Unmount, CalmAt, MapInPlace
    <3>2. CASE t \in mounts
      <4>1. Continue(b, "remove") /\ mounts' = mounts \ {t}
        BY <2>8, <3>2 DEF Unmount
      <4>2. b \notin mounts' \ late /\ call' = call /\ handler'[b] = "remove"
        BY <3>1, <4>1 DEF Continue, Shape
      <4> QED
        BY <1>3, <2>1, <4>2 DEF CalmAt
    <3>3. CASE t \notin mounts
      <4>1. Answer(b) /\ mounts' = mounts
        BY <2>8, <3>3 DEF Unmount
      <4> QED
        BY <2>1, <2>5, <3>1, <3>3, <4>1
    <3> QED
      BY <3>2, <3>3
  <2>9. CASE Remove(b)
    <3>1. b \notin mounts' \ late /\ Answer(b)
      BY <1>3, <2>9 DEF Remove, CalmAt, MapInPlace
    <3> QED
      BY <2>1, <2>5, <3>1
  <2> QED
    BY <2>3, <2>6, <2>7, <2>8, <2>9 DEF DelStep
<1> QED
  BY <1>2, <1>3

\* A request that fails although no call did leaves maps only with one given on.
LEMMA CalmAllocate ==
  ASSUME Shape, Placed, Exclusive, ~Fault, late' = late, NEW b \in Alloc, AllocateStep(b),
         CalmAt(b), NEW a \in Alloc, CalmAt(a)
  PROVE  CalmAt(a)'
<1> USE AllocPair
<1>0. UNCHANGED <<pool, base, widened, call, handler, target>>
  BY DEF AllocateStep, Skip, MakeDir, Mount, MakeShared, LoadBpfPinXskMap, AddMap, server
<1>1. /\ Busy(b) /\ call[b] = "none" /\ handler[b] = "none"
      /\ stage[b[1]] = "allocating" /\ pool[PoolOf[b[2]]] = "listed"
  <2>1. Busy(b)
    BY DEF AllocateStep, Skip, MakeDir, Mount, MakeShared, LoadBpfPinXskMap, AddMap, Begins,
        Busy, Steps
  <2> QED
    BY <2>1 DEF Busy, Steps, Placed, BusyPlaced, CallPlaced, CalmAt
<1>2. CASE \E s \in Steps \cup {"done", "skipped"} : Proceed(b, s)
  <2>1. PICK s \in Steps \cup {"done", "skipped"} :
          prep' = [prep EXCEPT ![b] = s] /\ stage' = stage
    BY <1>2 DEF Proceed
  <2>2. CASE a # b
    <3>1. prep'[a] = prep[a] /\ (a \in mounts' => a \in mounts) /\ dirs \subseteq dirs'
      BY <2>1, <2>2 DEF Shape, AllocateStep, Skip, MakeDir, Mount, MakeShared,
          LoadBpfPinXskMap, AddMap, files
    <3>2. maps[a[2]] # NoPod => maps'[a[2]] # NoPod
      BY DEF Shape, AllocateStep, Skip, MakeDir, Mount, MakeShared, LoadBpfPinXskMap, AddMap
    <3> QED
      BY <1>0, <2>1, <3>1, <3>2 DEF CalmAt, MapInPlace, Uses, InUse, Held, Pending, Busy
  <2>3. CASE a = b
    <3>0. prep'[b] = s /\ \A u \in Steps \cup {"done", "skipped"} : Proceed(b, u) => u = s
      BY <2>1 DEF Shape, Proceed
    <3>1. ~Fail(b[1])
      BY <1>1, <2>1 DEF Fail, Shape
    <3>2. CASE Skip(b)
      <4>1. s = "skipped" /\ prep[b] = "todo" /\ mounts' = mounts
        BY <3>0, <3>2 DEF Skip, Begins, files
      <4> QED
        BY <1>0, <1>1, <2>1, <2>3, <3>0, <4>1 DEF CalmAt, MapInPlace, Steps
    <3>3. CASE MakeDir(b)
      <4>1. s = "mount" /\ b \in dirs' /\ PoolOf[b[2]] \in base \ widened
        BY <3>0, <3>1, <3>3 DEF MakeDir, Steps
      <4> QED
        BY <1>0, <1>1, <2>1, <2>3, <3>0, <4>1 DEF CalmAt, MapInPlace, Uses, Busy, Steps
    <3>4. CASE Mount(b) \/ MakeShared(b) \/ LoadBpfPinXskMap(b)
      <4>1. s \in Steps \ {"mount"} /\ prep[b] \in Steps
        BY <3>0, <3>1, <3>4 DEF Mount, MakeShared, LoadBpfPinXskMap, Steps
      <4> QED
        BY <1>0, <1>1, <2>1, <2>3, <3>0, <4>1 DEF CalmAt, MapInPlace, Uses, Busy, Steps
    <3>5. CASE AddMap(b)
      <4>1. s = "done" /\ prep[b] \in Steps /\ maps'[b[2]] # NoPod
        BY <3>0, <3>5 DEF AddMap, Shape, Steps
      <4> QED
        BY <1>0, <1>1, <2>1, <2>3, <3>0, <4>1 DEF CalmAt, MapInPlace, Uses, InUse, Steps
    <3> QED
      BY <3>2, <3>3, <3>4, <3>5 DEF AllocateStep
  <2> QED
    BY <2>2, <2>3
<1>3. CASE Fail(b[1])
  <2>1. prep'[a] = IF a[1] = b[1] /\ Busy(a) THEN "none" ELSE prep[a]
    BY <1>3 DEF Fail, GiveUp, Busy
  <2>2. \A p \in Pods :
          stage'[p] = IF p = b[1] /\ stage[p] = "allocating" THEN "rejected" ELSE stage[p]
    BY <1>3 DEF Fail, Shape
  <2>0. \A u : ~Proceed(b, u)
    BY <1>1, <2>2 DEF Proceed
  <2>3. \/ MakeDir(b) /\ (PoolOf[b[2]] \notin base \ widened \/ Away(b))
        \/ Mount(b) /\ b \notin dirs
    BY <2>0 DEF AllocateStep, Skip, MakeDir, Mount, MakeShared, LoadBpfPinXskMap, AddMap
  <2>4. /\ MakeDir(b) /\ (PoolOf[b[2]] \notin base \ widened \/ Away(b))
        /\ Begins(b) /\ UNCHANGED <<maps, mounts>> /\ dirs \subseteq dirs'
    BY <2>3 DEF Mount, MakeDir, CalmAt
  <2>5. Away(b) => late # {}
    <3> SUFFICES ASSUME Away(b) PROVE late # {}
      OBVIOUS
    <3>1. PICK c \in Alloc : c[2] = b[2] /\ call[c] = "due"
      BY DEF Away
    <3>2. Uses(b) /\ Pending(c) /\ c # b
      BY <1>1, <3>1 DEF Uses, Pending
    <3> QED
      BY <3>1, <3>2, CalledByUser
  <2>6. a \in mounts \ late /\ a[1] = b[1]
          => prep'[a] = "done" /\ handler[a] = "none" /\ stage'[a[1]] = "rejected" /\ late # {}
    <3> SUFFICES ASSUME a \in mounts \ late, a[1] = b[1]
                 PROVE  prep'[a] = "done" /\ handler[a] = "none" /\ stage'[a[1]] = "rejected"
                          /\ late # {}
      OBVIOUS
    <3>1. prep[a] = "done" /\ prep'[a] = "done"
      BY <2>1, <2>4 DEF CalmAt, MapInPlace, Begins, Busy, Steps
    <3>2. PoolOf[a[2]] = PoolOf[b[2]] /\ PoolOf[a[2]] \in base \ widened
      BY <1>1, <3>1 DEF CalmAt, Placed, OnePoolEach, Busy, Steps
    <3>3. handler[a] = "none" /\ stage'[a[1]] = "rejected"
      BY <1>1, <2>2 DEF Placed, CallPlaced
    <3> QED
      BY <2>4, <2>5, <3>1, <3>2, <3>3
  <2>7. CASE a[1] = b[1]
    BY <1>0, <2>1, <2>4, <2>6, <2>7 DEF CalmAt, MapInPlace, Busy, Steps
  <2>8. CASE a[1] # b[1]
    <3>1. prep'[a] = prep[a] /\ stage'[a[1]] = stage[a[1]]
      BY <2>1, <2>2, <2>8
    <3> QED
      BY <1>0, <2>4, <3>1 DEF CalmAt, MapInPlace, Uses, InUse, Held, Pending, Busy
  <2> QED
    BY <2>7, <2>8
<1> QED
  BY <1>2, <1>3 DEF AllocateStep, Skip, MakeDir, Mount, MakeShared, LoadBpfPinXskMap, AddMap, Steps

\* In a calm state every step keeps it calm.
LEMMA CalmStep ==
  ASSUME Shape, Counted, Placed, Exclusive, EntriesDone, Mounted, EntryOfUser, Fresh, Calm,
         Next, Undisturbed', NEW a \in Alloc
  PROVE  CalmAt(a)'
<1> USE AllocPair
<1>1. CASE Start
  <2>1. lives = 0
    <3>1. lives \in Nat /\ lives' = lives + 1 /\ lives' = 1
      BY <1>1 DEF Start, Undisturbed, Counted
    <3> QED
      BY <3>1
  <2> QED
    BY <1>1, <2>1 DEF Start, Fresh, CalmAt, files, server, Steps
<1> SUFFICES ASSUME Undisturbed, ~Die, ~Start, faults' = faults, \A b \in Alloc : CalmAt(b)
             PROVE  CalmAt(a)'
  BY <1>1, CalmBefore DEF Calm
<1>2. ~Fault
  BY DEF Fault, Counted
<1>3. ASSUME NEW p \in Pods, NEW D \in SUBSET Devices, Request(p, D) PROVE CalmAt(a)'
  <2>1. /\ stage[p] = "new" /\ \A q \in Pods : stage[q] # "allocating"
        /\ \E q \in Pools : pool[q] = "listed" /\ \A d \in D : PoolOf[d] = q
        /\ a[2] \in D /\ stage[a[1]] = "running" => prep[a] = "none"
        /\ a[2] \in D /\ Pending(a) => a \in late'
        /\ \A q \in Pods : stage'[q] = IF q = p THEN "allocating" ELSE stage[q]
        /\ prep'[a] = IF a[1] = p /\ a[2] \in D THEN "todo" ELSE prep[a]
        /\ late \subseteq late' /\ UNCHANGED <<pool, base, widened, maps, files, call, server>>
    BY <1>3 DEF Request, Shape
  <2>2. CASE a[1] = p
    <3>1. prep[a] = "none"
      BY <2>1, <2>2 DEF Placed, NewClean
    <3> QED
      BY <2>1, <2>2, <3>1 DEF CalmAt, MapInPlace, files, server, Steps
  <2>3. CASE a[1] # p
    <3>1. a \in mounts' \ late' => MapInPlace(a)'
      BY <2>1, <2>3 DEF CalmAt, MapInPlace, Uses, InUse, Held, Pending, Busy, Placed,
          BusyPlaced, files, server
    <3> QED
      BY <2>1, <2>3, <3>1 DEF CalmAt, files, server
  <2> QED
    BY <2>2, <2>3
<1> SUFFICES ASSUME late' = late PROVE CalmAt(a)'
  BY <1>3, LateKept
<1>4. ASSUME NEW q \in Pools, InitPool(q) PROVE CalmAt(a)'
  <2>1. /\ pool[q] = "starting" /\ pool' = [pool EXCEPT ![q] = "listed"]
        /\ base \subseteq base' /\ widened' \subseteq widened \cup {q}
        /\ UNCHANGED <<maps, files, stage, prep, call, server>>
    BY <1>2, <1>4 DEF InitPool, CreateBPFFSBaseDirectory, GivePermissions
  <2>2. prep[a] # "none" => PoolOf[a[2]] # q /\ pool'[PoolOf[a[2]]] = "listed"
    BY <2>1 DEF CalmAt, Shape
  <2> QED
    BY <2>1, <2>2 DEF CalmAt, MapInPlace, Uses, InUse, Held, Pending, Busy, files, server, Steps
<1>5. ASSUME NEW q \in Pools, Terminate(q) PROVE FALSE
  BY <1>5 DEF Terminate, Undisturbed, Serving, Shape
<1>6. ASSUME NEW p \in Pods, Reply(p) PROVE CalmAt(a)'
  <2>1. /\ stage[p] = "allocating" /\ (a[1] = p => prep[a] \notin Steps \cup {"todo"})
        /\ \A q \in Pods : stage'[q] = IF q = p THEN "running" ELSE stage[q]
        /\ UNCHANGED <<pool, base, widened, maps, files, prep, call, server>>
    BY <1>6 DEF Reply, Shape
  <2> QED
    BY <2>1 DEF CalmAt, MapInPlace, Uses, InUse, Held, Pending, Busy, files, server, Steps
<1>7. ASSUME NEW p \in Pods, Stop(p) PROVE CalmAt(a)'
  <2>1. /\ stage[p] = "running"
        /\ \A q \in Pods : stage'[q] = IF q = p THEN "stopping" ELSE stage[q]
        /\ call'[a] = IF a[1] = p /\ prep[a] # "none" THEN "due" ELSE call[a]
        /\ UNCHANGED <<pool, base, widened, maps, files, prep, server>>
    BY <1>7 DEF Stop, Shape
  <2> QED
    BY <2>1 DEF CalmAt, MapInPlace, Uses, InUse, Held, Pending, Busy, files, server, Steps
<1>8. ASSUME NEW b \in Alloc, AllocateStep(b) PROVE CalmAt(a)'
  BY <1>2, <1>8, CalmAllocate
<1>9. ASSUME NEW b \in Alloc, DelStep(b) PROVE CalmAt(a)'
  BY <1>2, <1>9, CalmDel
<1> QED
  BY <1>2, <1>3, <1>4, <1>5, <1>6, <1>7, <1>8, <1>9
  DEF Next, PluginStep, Exit, Crash, ConcurrentMapAccess, CallerDies

-----------------------------------------------------------------------------
\* The inductive invariant.
IInv == Shape /\ Counted /\ Placed /\ Exclusive /\ EntriesDone /\ Mounted /\ EntryOfUser /\ Fresh /\ Calm

\* It holds initially, and every step keeps it.
LEMMA InvInit == Init => IInv
<1> SUFFICES ASSUME Init PROVE IInv
  OBVIOUS
<1> USE AllocPair DEF Init, Steps
<1>1. Shape /\ Counted
  BY DEF Shape, Counted
<1>2. Placed
  BY DEF Placed, OnePoolEach, NewClean, OneRequest, Listed, BusyPlaced, CallPlaced, Busy
<1>3. Exclusive /\ EntryOfUser
  BY DEF Exclusive, EntryOfUser, Uses, InUse, Held, Pending, Busy
<1>4. EntriesDone /\ Mounted
  BY DEF EntriesDone, Mounted
<1>5. Fresh /\ Calm
  BY DEF Fresh, Calm, Undisturbed, Down
<1> QED
  BY <1>1, <1>2, <1>3, <1>4, <1>5 DEF IInv

LEMMA InvNext == IInv /\ [Next]_vars => IInv'
<1> SUFFICES ASSUME IInv, [Next]_vars PROVE IInv'
  OBVIOUS
<1>1. CASE Next
  <2>1. Shape' /\ Counted' /\ Placed' /\ Exclusive'
    BY <1>1, ShapeStep, CountedStep, PlacedStep, ExclusiveStep DEF IInv
  <2>2. EntriesDone' /\ Mounted' /\ EntryOfUser' /\ Fresh'
    BY <1>1, EntriesStep, MountedStep, EntryStep, FreshStep DEF IInv
  <2>3. Calm'
    <3> SUFFICES ASSUME Undisturbed', NEW a \in Alloc PROVE CalmAt(a)'
      BY DEF Calm
    <3> QED
      BY <1>1, CalmStep DEF IInv
  <2> QED
    BY <2>1, <2>2, <2>3 DEF IInv
<1>2. CASE UNCHANGED vars
  BY <1>2 DEF vars, files, server, history, IInv, Shape, Counted, Placed, OnePoolEach,
      NewClean, OneRequest,
     Listed, BusyPlaced, CallPlaced, Exclusive, EntriesDone, Mounted, EntryOfUser, Fresh, Calm,
     CalmAt, MapInPlace, Undisturbed, Serving, Down, Uses, InUse, Held, Pending, Busy
<1> QED
  BY <1>1, <1>2

\* The inductive invariant holds throughout.
THEOREM Invariance == Spec => []IInv
BY InvInit, InvNext, PTL DEF Spec

\* The types of the variables, and the order of directory, mount and pin.
THEOREM TypeCorrect == Spec => []TypeOK
<1>1. IInv => TypeOK
  BY DEF IInv, Shape, Counted, Mounted, TypeOK
<1> QED
  BY <1>1, Invariance, PTL

\* While a pod has a device, and until its DelNetDev is done or the device given on,
\* the table does not point to the path of another (AddMap).
THEOREM EntrySafety == Spec => []EntryOfHolder
<1>1. IInv => EntryOfHolder
  BY DEF IInv, EntryOfUser, Uses, InUse, EntryOfHolder
<1> QED
  BY <1>1, Invariance, PTL

\* Without a failure or a restart every mount belongs to an allocation that is
\* being made, is in use, or is about to be deleted, or its device was given on
\* before its DelNetDev was done, or the request failed for such a device.
THEOREM LeakFreedom == Spec => []NothingLeaks
<1>1. IInv => NothingLeaks
  BY DEF IInv, Calm, CalmAt, MapInPlace, NothingLeaks, Uses, InUse, Busy, Steps, Mounted
<1> QED
  BY <1>1, Invariance, PTL

\* The map of an allocation in use is lost to Terminate, to the DelNetDev of its
\* own pod, or to one that was not done when the device was given on.
THEOREM PinSafety == Spec => PinLostFor
<1> DEFINE Kept == \A a \in pins \ pins' : InUse(a) =>
      \/ pool[PoolOf[a[2]]] = "listed" /\ pool'[PoolOf[a[2]]] = "ended"
      \/ \E b \in late \cup {a} : handler[b] = "unmount" /\ b[2] = a[2]
<1>1. ASSUME IInv, Next PROVE Kept
  <2> SUFFICES ASSUME NEW a \in pins \ pins', InUse(a)
               PROVE  \/ pool[PoolOf[a[2]]] = "listed" /\ pool'[PoolOf[a[2]]] = "ended"
                      \/ \E b \in late \cup {a} : handler[b] = "unmount" /\ b[2] = a[2]
    OBVIOUS
  <2>1. a \in Alloc
    BY <1>1 DEF IInv, Mounted
  <2>2. CASE \E q \in Pools : Terminate(q)
    BY <1>1, <2>1, <2>2 DEF Terminate, CleanupMapManager, InPool, IInv, Shape
  <2>3. ASSUME NEW b \in Alloc, Unmount(b)
        PROVE  handler[b] = "unmount" /\ b[2] = a[2] /\ (b = a \/ b \in late)
    <3>1. a = <<target[b], b[2]>> /\ handler[b] = "unmount"
      BY <2>3 DEF Unmount
    <3>2. Pending(b)
      BY <1>1, <3>1 DEF IInv, Placed, CallPlaced, Pending
    <3>3. Uses(a) /\ b[2] = a[2]
      BY <3>1 DEF Uses
    <3> QED
      BY <1>1, <2>1, <3>1, <3>2, <3>3, CalledByUser DEF IInv
  <2>4. CASE ~(\E q \in Pools : Terminate(q)) /\ ~(\E b \in Alloc : Unmount(b))
    <3>1. pins \subseteq pins'
      BY <1>1, <2>4 DEF Next, PluginStep, Start, Exit, Crash, InitPool, Die, Reply,
          Stop, Request,
         AllocateStep, Skip, MakeDir, Mount, MakeShared, LoadBpfPinXskMap, AddMap,
         DelStep, DeleteNetDev, Lookup, ReadPath, Remove, CallerDies, ConcurrentMapAccess, files
    <3> QED
      BY <3>1
  <2> QED
    BY <2>2, <2>3, <2>4
<1>2. IInv /\ [Next]_vars => [Kept]_vars
  BY <1>1
<1> QED
  BY <1>2, Invariance, PTL DEF Spec, PinLostFor

-----------------------------------------------------------------------------
\* A pool that is listed has its base directory, and only that of another user's
\* pool has an access control list.
ScopeInv == widened \subseteq UserPools /\ \A q \in Pools : pool[q] = "listed" => q \in base

\* The directories, and that only an allocation can be turned down.
LEMMA ScopeKept ==
  ASSUME Shape, ScopeInv, Next
  PROVE  ScopeInv'
<1>1. widened' \subseteq UserPools
  BY DEF ScopeInv, Next, PluginStep, Start, Exit, Crash, Die, InitPool, GivePermissionsFails,
     GivePermissions, CreateBPFFSBaseDirectory, CreateBPFFSBaseDirectoryFails, Terminate,
     CleanupMapManager, Reply, Stop, Request, AllocateStep, Skip, MakeDir, Mount, MakeShared,
     LoadBpfPinXskMap, AddMap, DelStep, DeleteNetDev, Lookup, ReadPath, Unmount, Remove,
     CallerDies, ConcurrentMapAccess
<1>2. ASSUME NEW q \in Pools, pool'[q] = "listed" PROVE q \in base'
  <2>1. CASE PluginStep
    <3>1. ASSUME NEW r \in Pools, InitPool(r) PROVE q \in base'
      BY <1>2, <3>1 DEF ScopeInv, Shape, InitPool, CreateBPFFSBaseDirectory,
         CreateBPFFSBaseDirectoryFails
    <3>2. ASSUME NEW r \in Pools, Terminate(r) PROVE q \in base'
      BY <1>2, <3>2 DEF ScopeInv, Shape, Terminate, CleanupMapManager
    <3> QED
      BY <1>2, <2>1, <3>1, <3>2 DEF PluginStep, Start, Exit, Crash, Die
  <2>2. CASE ~PluginStep
    <3>1. Die \/ UNCHANGED <<pool, base>>
      BY <2>2 DEF Next, Reply, Stop, Request, AllocateStep, Skip, MakeDir, Mount, MakeShared,
         LoadBpfPinXskMap, AddMap, DelStep, DeleteNetDev, Lookup, ReadPath, Unmount, Remove,
         CallerDies, ConcurrentMapAccess
    <3> QED
      BY <1>2, <3>1 DEF ScopeInv, Die
  <2> QED
    BY <2>1, <2>2
<1> QED
  BY <1>1, <1>2 DEF ScopeInv

\* Only an allocation is turned down, by its own step or with its pool.
LEMMA RejectedByStep ==
  ASSUME Shape, Next, NEW p \in Pods, stage'[p] = "rejected", stage[p] # "rejected"
  PROVE  /\ \/ Die \/ (\E q \in Pools : Terminate(q))
            \/ (\E b \in Alloc : AllocateStep(b))
         /\ Alloc # {}
<1>1. Die \/ (\E q \in Pools : Terminate(q)) \/ (\E b \in Alloc : AllocateStep(b))
  <2>1. ASSUME NEW r \in Pods, Reply(r) \/ Stop(r) \/ \E D \in SUBSET Devices : Request(r, D)
        PROVE  stage'[p] = "rejected" => stage[p] = "rejected"
    BY <2>1 DEF Shape, Reply, Stop, Request
  <2>2. ASSUME NEW b \in Alloc, DelStep(b) \/ CallerDies(b) PROVE stage' = stage
    BY <2>2 DEF DelStep, DeleteNetDev, Lookup, ReadPath, Unmount, Remove, CallerDies
  <2>3. ASSUME PluginStep
        PROVE  Die \/ (\E q \in Pools : Terminate(q)) \/ stage' = stage
    BY <2>3 DEF PluginStep, Start, Exit, Crash, InitPool
  <2>4. ASSUME NEW a \in Alloc, NEW b \in Alloc, ConcurrentMapAccess(a, b) PROVE Die
    BY <2>4 DEF ConcurrentMapAccess
  <2> QED
    BY <2>1, <2>2, <2>3, <2>4 DEF Next
<1>2. Alloc # {}
  BY <1>1 DEF Die, Terminate, Disconnect
<1> QED
  BY <1>1, <1>2

\* A request that no failure befalls goes through every step of Allocate, but for
\* a base directory that does not have its mode and a device that is away.
LEMMA CalmServes ==
  ASSUME Shape, ScopeInv, ~Fault, NEW b \in Alloc, CalmAt(b), AllocateStep(b),
         NEW p \in Pods, stage'[p] # stage[p]
  PROVE  b[1] = p /\ prep[b] = "todo" /\ (PoolOf[b[2]] \in UserPools \/ Away(b))
<1>1. PoolOf[b[2]] \in Pools
  BY AllocPair
<1>2. CASE MakeDir(b)
  <2>1. prep[b] = "todo" /\ PoolOf[b[2]] \in base
    BY <1>1, <1>2 DEF MakeDir, Begins, CalmAt, ScopeInv
  <2>2. (PoolOf[b[2]] \in widened \/ Away(b)) /\ Fail(b[1])
    BY <1>2, <2>1 DEF MakeDir, Proceed
  <2>3. b[1] = p
    BY <2>2 DEF Fail, Shape
  <2> QED
    BY <2>1, <2>2, <2>3 DEF ScopeInv
<1>3. CASE Mount(b)
  BY <1>3 DEF Mount, Proceed, CalmAt
<1>4. CASE Skip(b) \/ MakeShared(b) \/ LoadBpfPinXskMap(b) \/ AddMap(b)
  BY <1>4 DEF Skip, MakeShared, LoadBpfPinXskMap, AddMap, Proceed
<1> QED
  BY <1>2, <1>3, <1>4 DEF AllocateStep

(***************************************************************************)
(* The access control list of the base directory, which the run BpfUser    *)
(* shows, and a device that an earlier pod has yet to give back are the    *)
(* only things that turn a request down without a failure (Allocate,       *)
(* generateRandomBpffsName).                                               *)
(***************************************************************************)
THEOREM UserPoolsOnly == Spec => RejectedByUserPool
<1> DEFINE Turned(p) == Undisturbed' /\ stage[p] # "rejected" /\ stage'[p] = "rejected"
           ForUser(p) == \E a \in Alloc : /\ a[1] = p /\ prep[a] = "todo"
                                          /\ PoolOf[a[2]] \in UserPools \/ Away(a)
<1>1. Init => ScopeInv
  BY DEF Init, ScopeInv
<1>2. ASSUME IInv, ScopeInv, [Next]_vars PROVE ScopeInv'
  <2>1. CASE UNCHANGED vars
    BY <1>2, <2>1 DEF vars, ScopeInv
  <2> QED
    BY <1>2, <2>1, ScopeKept DEF IInv
<1>3. ASSUME IInv, ScopeInv, Next, NEW p \in Pods, Turned(p) PROVE ForUser(p)
  <2>1. Shape /\ Counted /\ Placed /\ Fresh /\ Calm
    BY <1>3 DEF IInv
  <2>2. PICK a \in Alloc : TRUE
    BY <1>3, <2>1, RejectedByStep
  <2>3. ~Start
    BY <1>3 DEF Start
  <2>4. Undisturbed /\ ~Die /\ ~Fault
    BY <1>3, <2>1, <2>3, CalmBefore DEF Fault, Counted
  <2>5. \A q \in Pools : ~Terminate(q)
    BY <1>3, <2>1 DEF Terminate, Undisturbed, Serving, Shape
  <2>6. PICK b \in Alloc : AllocateStep(b)
    BY <1>3, <2>1, <2>4, <2>5, RejectedByStep
  <2>7. stage'[p] # stage[p] /\ CalmAt(b)
    BY <1>3, <2>1, <2>4 DEF Calm
  <2> QED
    BY <1>3, <2>1, <2>4, <2>6, <2>7, CalmServes
<1>4. IInv /\ ScopeInv /\ [Next]_vars => [\A p \in Pods : Turned(p) => ForUser(p)]_vars
  BY <1>3
<1>5. IInv /\ ScopeInv /\ [Next]_vars => ScopeInv'
  BY <1>2
<1> QED
  BY <1>1, <1>4, <1>5, Invariance, PTL DEF Spec, RejectedByUserPool
=============================================================================
