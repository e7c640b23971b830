-------------------------- MODULE CniPlugin_proofs --------------------------
(***************************************************************************)
(* Proofs about CniPlugin, for any pods, any set of configurations and any *)
(* number of failing calls.                                                *)
(*                                                                         *)
(* The calls made for different pods interleave and name the same device,  *)
(* so the invariant says of each step of a call what the steps before it   *)
(* have established and no call made for another pod can undo.             *)
(***************************************************************************)
EXTENDS CniPlugin, TLAPS

USE CniAssumption

\* Once moved by ADD the device stays in the pod, and comes up there.
Held  == \A p \in Pods : pc[p] \in {"addUp", "addAddress"} => place = p
Ready == \A p \in Pods : pc[p] = "addAddress" => up

\* The lease is taken before anything is done to the device.
Paid   == \A p \in Pods :
            pc[p] \in {"addFilters", "addMove", "addUp", "addAddress"} /\ conf.ipam
              => p \in leases
Unpaid == ~conf.ipam => leases = {}

\* DEL leaves each thing behind it in turn: the device, the lease, the program.
Left     == \A p \in Pods : pc[p] \in DelSteps \ {"delFind"} => place # p
Released == \A p \in Pods :
              pc[p] \in {"delMaps", "delBpf", "delFilters", "delSubfunction"}
                => p \notin leases
Unloaded == \A p \in Pods :
              pc[p] \in {"delFilters", "delSubfunction"} => conf.skip \/ program # p

\* A pod that has the device is the one the kubelet gave it to last; any other that
\* still holds on to it is late.
Holding == \A p \in Pods : Has(p) => holder = p
Early   == \A p \in Pods : place = p \/ pc[p] \in DelSteps \ {"delFind"}
                           => p = holder \/ p \in late

IInv == /\ TypeOK /\ AddressLeased
        /\ Holding /\ Early
        /\ Held /\ Ready
        /\ Paid /\ Unpaid
        /\ Left /\ Released /\ Unloaded

\* The parts of TypeOK: the calls, the device and what is set up, the faults.
CallsOK ==
  /\ stage \in [Pods -> {"new", "allocated", "running", "stopping", "gone"}]
  /\ pc \in [Pods -> AddSteps \cup DelSteps \cup {"idle"}]
  /\ \A p \in Pods : /\ pc[p] \in AddSteps => stage[p] = "allocated"
                     /\ pc[p] \in DelSteps => stage[p] = "stopping"
DataOK ==
  /\ conf \in Confs
  /\ place \in Pods \cup {"host", "none", "inactive"}
  /\ up \in BOOLEAN
  /\ address \in Pods \cup {NoPod}
  /\ leases \subseteq Pods
  /\ holder \in Pods \cup {NoPod} /\ late \subseteq Pods
  /\ filters \in Pods \cup {NoPod}
  /\ program \in Pods \cup {NoPod}
  /\ maps \in Pods \cup {NoPod}
FaultsOK == faults \in 0..MaxFaults

-----------------------------------------------------------------------------
\* The initial states.
LEMMA InvInit == Init => IInv
<1> SUFFICES ASSUME Init PROVE IInv
  OBVIOUS
<1>1. TypeOK
  <2>1. CallsOK
    BY DEF Init, CallsOK, AddSteps, DelSteps
  <2>2. DataOK
    BY DEF Init, DataOK
  <2>3. FaultsOK
    BY DEF Init, FaultsOK
  <2> QED
    BY <2>1, <2>2, <2>3 DEF TypeOK, CallsOK, DataOK, FaultsOK
<1>2. AddressLeased /\ Unpaid
  BY DEF Init, AddressLeased, Unpaid
<1>3. Held /\ Ready /\ Paid /\ Left /\ Released /\ Unloaded /\ Holding
  BY DEF Init, Held, Ready, Paid, Left, Released, Unloaded, DelSteps, Holding, Has
<1>4. Early
  BY DEF Init, Early, DelSteps
<1> QED
  BY <1>1, <1>2, <1>3, <1>4 DEF IInv

\* The kubelet and the runtime keep the types.
LEMMA KubeletType ==
  ASSUME TypeOK, NEW p \in Pods, KubeletStep(p)
  PROVE  TypeOK'
<1> USE DEF TypeOK, AddSteps, DelSteps, given, device, setup
<1>1. CASE Allocate(p)
  <2>1. CallsOK'
    BY <1>1 DEF CallsOK, Allocate, Allocatable
  <2>2. conf.pinned \in BOOLEAN
    BY DEF Conf
  <2>3. DataOK'
    BY <1>1, <2>2 DEF DataOK, Allocate, Allocatable, ActivateCdqSubfunction, CycleDevice, NotDone
  <2>4. FaultsOK'
    BY <1>1 DEF FaultsOK, Allocate, Fault, NoFault
  <2> QED
    BY <2>1, <2>3, <2>4 DEF CallsOK, DataOK, FaultsOK
<1>2. CASE AllocateFails(p)
  <2>1. CallsOK'
    BY <1>2 DEF CallsOK, AllocateFails, Allocatable
  <2>2. DataOK'
    BY <1>2 DEF DataOK, AllocateFails, Allocatable, ActivateCdqSubfunction,
       CycleDevice, HalfMade
  <2>3. FaultsOK'
    BY <1>2 DEF FaultsOK, AllocateFails, Fault
  <2> QED
    BY <2>1, <2>2, <2>3 DEF CallsOK, DataOK, FaultsOK
<1>3. CASE CallAdd(p)
  <2>1. CallsOK'
    BY <1>3 DEF CallsOK, CallAdd, Go
  <2>2. DataOK'
    BY <1>3 DEF DataOK, CallAdd
  <2>3. FaultsOK'
    BY <1>3 DEF FaultsOK, CallAdd
  <2> QED
    BY <2>1, <2>2, <2>3 DEF CallsOK, DataOK, FaultsOK
<1>4. CASE Stop(p)
  <2>1. CallsOK'
    BY <1>4 DEF CallsOK, Stop
  <2>2. DataOK'
    BY <1>4 DEF DataOK, Stop
  <2>3. FaultsOK'
    BY <1>4 DEF FaultsOK, Stop
  <2> QED
    BY <2>1, <2>2, <2>3 DEF CallsOK, DataOK, FaultsOK
<1>5. CASE CallDel(p)
  <2>1. CallsOK'
    BY <1>5 DEF CallsOK, CallDel, Go
  <2>2. DataOK'
    BY <1>5 DEF DataOK, CallDel
  <2>3. FaultsOK'
    BY <1>5 DEF FaultsOK, CallDel
  <2> QED
    BY <2>1, <2>2, <2>3 DEF CallsOK, DataOK, FaultsOK
<1>6. CASE Recreate(p)
  <2>1. CallsOK'
    BY <1>6 DEF CallsOK, Recreate
  <2>2. DataOK'
    BY <1>6 DEF DataOK, Recreate
  <2>3. FaultsOK'
    BY <1>6 DEF FaultsOK, Recreate
  <2> QED
    BY <2>1, <2>2, <2>3 DEF CallsOK, DataOK, FaultsOK
<1> QED
  BY <1>1, <1>2, <1>3, <1>4, <1>5, <1>6 DEF KubeletStep

\* A reboot keeps everything: nothing is under way and nothing is set up.
LEMMA RebootKeeps ==
  ASSUME IInv, Reboot
  PROVE  IInv'
<1> USE DEF IInv, TypeOK, given
<1>1. CallsOK'
  BY DEF CallsOK, Reboot, AddSteps, DelSteps
<1>2. DataOK'
  BY DEF DataOK, Reboot
<1>3. FaultsOK'
  BY DEF FaultsOK, Reboot, Fault
<1>4. (AddressLeased /\ Unpaid)'
  BY DEF Reboot, AddressLeased, Unpaid
<1>5. (Held /\ Ready /\ Paid /\ Left /\ Released /\ Unloaded)'
  BY DEF Reboot, Held, Ready, Paid, Left, Released, Unloaded, AddSteps, DelSteps
<1>6. (Holding /\ Early)'
  BY DEF Reboot, Holding, Early, Has, DelSteps
<1> QED
  BY <1>1, <1>2, <1>3, <1>4, <1>5, <1>6 DEF CallsOK, DataOK, FaultsOK

\* The steps of ADD keep the types.
LEMMA AddType ==
  ASSUME TypeOK, NEW p \in Pods, AddStep(p)
  PROVE  TypeOK'
<1> USE DEF TypeOK, AddSteps, DelSteps, given, device, setup
<1>1. CASE AddFind(p)
  <2>1. CallsOK'
    BY <1>1 DEF CallsOK, AddFind, Go, Error
  <2>2. DataOK'
    BY <1>1 DEF DataOK, AddFind
  <2>3. FaultsOK'
    BY <1>1 DEF FaultsOK, AddFind, Fault, NoFault
  <2> QED
    BY <2>1, <2>2, <2>3 DEF CallsOK, DataOK, FaultsOK
<1>2. CASE AddIpam(p)
  <2>1. CallsOK'
    BY <1>2 DEF CallsOK, AddIpam, Go, Error
  <2>2. DataOK'
    BY <1>2 DEF DataOK, AddIpam
  <2>3. FaultsOK'
    BY <1>2 DEF FaultsOK, AddIpam, Fault, NoFault
  <2> QED
    BY <2>1, <2>2, <2>3 DEF CallsOK, DataOK, FaultsOK
<1>3. CASE AddFilters(p)
  <2>1. CallsOK'
    <3>1. pc[p] = "addFilters" /\ (Go(p, "addMove") \/ Error(p))
      BY <1>3 DEF AddFilters, SetEthtool
    <3> QED
      BY <3>1 DEF CallsOK, Go, Error
  <2>2. DataOK'
    <3>1. filters' \in {filters, p}
      BY <1>3 DEF AddFilters, SetEthtool
    <3>2. UNCHANGED <<conf, holder, late, place, up, address, leases, program, maps>>
      BY <1>3 DEF AddFilters
    <3> QED
      BY <3>1, <3>2 DEF DataOK
  <2>3. Fault \/ NoFault
    BY <1>3 DEF AddFilters, SetEthtool
  <2>4. FaultsOK'
    BY <2>3 DEF FaultsOK, Fault, NoFault
  <2> QED
    BY <2>1, <2>2, <2>4 DEF CallsOK, DataOK, FaultsOK
<1>4. CASE AddMove(p)
  <2>1. CallsOK'
    BY <1>4 DEF CallsOK, AddMove, Go, Error
  <2>2. DataOK'
    BY <1>4 DEF DataOK, AddMove, MoveTo
  <2>3. FaultsOK'
    BY <1>4 DEF FaultsOK, AddMove, Fault, NoFault
  <2> QED
    BY <2>1, <2>2, <2>3 DEF CallsOK, DataOK, FaultsOK
<1>5. CASE AddUp(p)
  <2>1. CallsOK'
    BY <1>5 DEF CallsOK, AddUp, Go, Error
  <2>2. DataOK'
    BY <1>5 DEF DataOK, AddUp
  <2>3. FaultsOK'
    BY <1>5 DEF FaultsOK, AddUp, Fault, NoFault
  <2> QED
    BY <2>1, <2>2, <2>3 DEF CallsOK, DataOK, FaultsOK
<1>6. CASE AddAddress(p)
  <2>1. CallsOK'
    BY <1>6 DEF CallsOK, AddAddress, Error, Success
  <2>2. DataOK'
    BY <1>6 DEF DataOK, AddAddress, SetIPAM
  <2>3. FaultsOK'
    BY <1>6 DEF FaultsOK, AddAddress, Fault, NoFault
  <2> QED
    BY <2>1, <2>2, <2>3 DEF CallsOK, DataOK, FaultsOK
<1> QED
  BY <1>1, <1>2, <1>3, <1>4, <1>5, <1>6 DEF AddStep

\* The steps of DEL keep the types.
LEMMA DelType ==
  ASSUME TypeOK, NEW p \in Pods, DelStep(p)
  PROVE  TypeOK'
<1> USE DEF TypeOK, AddSteps, DelSteps, given, device, setup
<1>1. CASE DelFind(p)
  <2>1. CallsOK'
    BY <1>1 DEF CallsOK, DelFind, Go, Error
  <2>2. DataOK'
    BY <1>1 DEF DataOK, DelFind, MoveTo
  <2>3. FaultsOK'
    BY <1>1 DEF FaultsOK, DelFind, Fault, NoFault
  <2> QED
    BY <2>1, <2>2, <2>3 DEF CallsOK, DataOK, FaultsOK
<1>2. CASE DelIpam(p)
  <2>1. CallsOK'
    BY <1>2 DEF CallsOK, DelIpam, Go, Error
  <2>2. DataOK'
    BY <1>2 DEF DataOK, DelIpam
  <2>3. FaultsOK'
    BY <1>2 DEF FaultsOK, DelIpam, Fault, NoFault
  <2> QED
    BY <2>1, <2>2, <2>3 DEF CallsOK, DataOK, FaultsOK
<1>3. CASE DelMaps(p)
  <2>1. CallsOK'
    BY <1>3 DEF CallsOK, DelMaps, Go
  <2>2. DataOK'
    BY <1>3 DEF DataOK, DelMaps
  <2>3. FaultsOK'
    BY <1>3 DEF FaultsOK, DelMaps, Fault, NoFault
  <2> QED
    BY <2>1, <2>2, <2>3 DEF CallsOK, DataOK, FaultsOK
<1>4. CASE DelBpf(p)
  <2>1. CallsOK'
    BY <1>4 DEF CallsOK, DelBpf, Go, Error
  <2>2. DataOK'
    BY <1>4 DEF DataOK, DelBpf, Clean_bpf
  <2>3. FaultsOK'
    BY <1>4 DEF FaultsOK, DelBpf, Fault, NoFault
  <2> QED
    BY <2>1, <2>2, <2>3 DEF CallsOK, DataOK, FaultsOK
<1>5. CASE DelFilters(p)
  <2>1. CallsOK'
    BY <1>5 DEF CallsOK, DelFilters, Go, Error
  <2>2. DataOK'
    BY <1>5 DEF DataOK, DelFilters, DeleteEthtool
  <2>3. FaultsOK'
    BY <1>5 DEF FaultsOK, DelFilters, Fault, NoFault
  <2> QED
    BY <2>1, <2>2, <2>3 DEF CallsOK, DataOK, FaultsOK
<1>6. CASE DelSubfunction(p)
  <2>1. CallsOK'
    BY <1>6 DEF CallsOK, DelSubfunction, Success
  <2>2. DataOK'
    BY <1>6 DEF DataOK, DelSubfunction, DeleteCdqSubfunction, MoveTo
  <2>3. FaultsOK'
    BY <1>6 DEF FaultsOK, DelSubfunction, DeleteCdqSubfunction, Fault, NoFault
  <2> QED
    BY <2>1, <2>2, <2>3 DEF CallsOK, DataOK, FaultsOK
<1> QED
  BY <1>1, <1>2, <1>3, <1>4, <1>5, <1>6 DEF DelStep

\* The kubelet and the runtime keep what the calls have established.
LEMMA KubeletKeeps ==
  ASSUME IInv, NEW p \in Pods, KubeletStep(p)
  PROVE  (AddressLeased /\ Held /\ Ready /\ Paid /\ Unpaid
           /\ Left /\ Released /\ Unloaded /\ Holding /\ Early)'
<1> USE DEF IInv, TypeOK, AddressLeased, Held, Ready, Paid, Unpaid, Left, Released,
       Unloaded, Holding, Early, Has, AddSteps, DelSteps, given, device, setup
<1>1. CASE Allocate(p)
  BY <1>1 DEF Allocate, Allocatable, ActivateCdqSubfunction, CycleDevice, NotDone
<1>2. CASE AllocateFails(p)
  BY <1>2 DEF AllocateFails, Allocatable, ActivateCdqSubfunction, CycleDevice, HalfMade
<1>3. CASE CallAdd(p)
  BY <1>3 DEF CallAdd, Go
<1>4. CASE Stop(p)
  BY <1>4 DEF Stop
<1>5. CASE CallDel(p)
  BY <1>5 DEF CallDel, Go
<1>6. CASE Recreate(p)
  BY <1>6 DEF Recreate
<1> QED
  BY <1>1, <1>2, <1>3, <1>4, <1>5, <1>6 DEF KubeletStep

\* So do the steps of ADD.
LEMMA AddKeeps ==
  ASSUME IInv, NEW p \in Pods, AddStep(p)
  PROVE  (AddressLeased /\ Held /\ Ready /\ Paid /\ Unpaid
           /\ Left /\ Released /\ Unloaded /\ Holding /\ Early)'
<1> USE DEF IInv, TypeOK, AddressLeased, Held, Ready, Paid, Unpaid, Left, Released,
       Unloaded, Holding, Early, Has, AddSteps, DelSteps, given, device, setup
<1>1. CASE AddFind(p)
  BY <1>1 DEF AddFind, Go, Error
<1>2. CASE AddIpam(p)
  BY <1>2 DEF AddIpam, Go, Error
<1>3. CASE AddFilters(p)
  <2>1. UNCHANGED <<conf, holder, late, place, up, address, leases, program>>
    BY <1>3 DEF AddFilters
  <2>2. pc[p] = "addFilters" /\ (Go(p, "addMove") \/ Error(p))
    BY <1>3 DEF AddFilters, SetEthtool
  <2> QED
    BY <2>1, <2>2 DEF Go, Error
<1>4. CASE AddMove(p)
  BY <1>4 DEF AddMove, Go, Error, MoveTo
<1>5. CASE AddUp(p)
  BY <1>5 DEF AddUp, Go, Error
<1>6. CASE AddAddress(p)
  BY <1>6 DEF AddAddress, SetIPAM, Error, Success
<1> QED
  BY <1>1, <1>2, <1>3, <1>4, <1>5, <1>6 DEF AddStep

\* So do the steps of DEL.
LEMMA DelKeeps ==
  ASSUME IInv, NEW p \in Pods, DelStep(p)
  PROVE  (AddressLeased /\ Held /\ Ready /\ Paid /\ Unpaid
           /\ Left /\ Released /\ Unloaded /\ Holding /\ Early)'
<1> USE DEF IInv, TypeOK, AddressLeased, Held, Ready, Paid, Unpaid, Left, Released,
       Unloaded, Holding, Early, Has, AddSteps, DelSteps, given, device, setup
<1>1. CASE DelFind(p)
  BY <1>1 DEF DelFind, Go, Error, MoveTo
<1>2. CASE DelIpam(p)
  BY <1>2 DEF DelIpam, Go, Error
<1>3. CASE DelMaps(p)
  BY <1>3 DEF DelMaps, Go
<1>4. CASE DelBpf(p)
  BY <1>4 DEF DelBpf, Clean_bpf, Go, Error
<1>5. CASE DelFilters(p)
  BY <1>5 DEF DelFilters, DeleteEthtool, WantsFilters, Go, Error
<1>6. CASE DelSubfunction(p)
  BY <1>6 DEF DelSubfunction, IsCdqSubfunction, DeleteCdqSubfunction, Success, MoveTo
<1> QED
  BY <1>1, <1>2, <1>3, <1>4, <1>5, <1>6 DEF DelStep

\* Every step keeps the invariant, and so does none.
LEMMA InvNext == IInv /\ [Next]_vars => IInv'
<1> SUFFICES ASSUME IInv, [Next]_vars PROVE IInv'
  OBVIOUS
<1>1. TypeOK
  BY DEF IInv
<1>2. CASE UNCHANGED vars
  BY <1>2 DEF vars, given, device, setup, IInv, TypeOK, AddressLeased, Held, Ready, Paid,
     Unpaid, Left, Released, Unloaded, Holding, Early, Has
<1>3. ASSUME NEW p \in Pods, KubeletStep(p) PROVE IInv'
  BY <1>1, <1>3, KubeletType, KubeletKeeps DEF IInv
<1>4. ASSUME NEW p \in Pods, AddStep(p) PROVE IInv'
  BY <1>1, <1>4, AddType, AddKeeps DEF IInv
<1>5. ASSUME NEW p \in Pods, DelStep(p) PROVE IInv'
  BY <1>1, <1>5, DelType, DelKeeps DEF IInv
<1> QED
  BY <1>2, <1>3, <1>4, <1>5, RebootKeeps DEF Next

LEMMA Invariance == Spec => []IInv
BY InvInit, InvNext, PTL DEF Spec

-----------------------------------------------------------------------------
(***************************************************************************)
(* Types: every call is at a step of its own, at the stage of its pod that *)
(* it belongs to.                                                          *)
(***************************************************************************)
THEOREM TypeCorrect == Spec => []TypeOK
<1>1. IInv => TypeOK
  BY DEF IInv
<1> QED
  BY <1>1, Invariance, PTL

(***************************************************************************)
(* No device answers for an address whose lease is over.                   *)
(***************************************************************************)
THEOREM AddressSafety == Spec => []AddressLeased
<1>1. IInv => AddressLeased
  BY DEF IInv
<1> QED
  BY <1>1, Invariance, PTL

(***************************************************************************)
(* Nothing but a pod's own DEL takes the device away from it.              *)
(***************************************************************************)
THEOREM OwnDelOnly == Spec => OnlyOwnDel
<1> DEFINE Own == \A p \in Pods : place = p /\ place' # p => pc[p] = "delFind" \/ Reboot
<1>1. ASSUME NEW q \in Pods, KubeletStep(q) PROVE Own
  BY <1>1 DEF KubeletStep, Allocate, ActivateCdqSubfunction, AllocateFails, CallAdd, Stop,
     CallDel, Recreate, device
<1>2. ASSUME NEW q \in Pods, AddStep(q) PROVE Own
  BY <1>2 DEF AddStep, AddFind, AddIpam, AddFilters, AddMove, AddUp, AddAddress, MoveTo,
     device
<1>3. ASSUME NEW q \in Pods, DelStep(q) PROVE Own
  <2>1. CASE DelFind(q)
    BY <2>1 DEF DelFind, MoveTo, device
  <2>2. CASE DelSubfunction(q)
    BY <2>2 DEF DelSubfunction, IsCdqSubfunction, DeleteCdqSubfunction, MoveTo, device
  <2>3. CASE DelIpam(q) \/ DelMaps(q) \/ DelBpf(q) \/ DelFilters(q)
    BY <2>3 DEF DelIpam, DelMaps, DelBpf, DelFilters, device
  <2> QED
    BY <1>3, <2>1, <2>2, <2>3 DEF DelStep
<1>4. [Next]_vars => [Own]_vars
  BY <1>1, <1>2, <1>3 DEF Next
<1> QED
  BY <1>4, PTL DEF Spec, OnlyOwnDel

\* Only the last step of ADD makes a pod run, and only when it succeeds.
LEMMA RunningBy ==
  ASSUME TypeOK, Next, NEW p \in Pods, stage[p] # "running", stage'[p] = "running"
  PROVE  AddAddress(p) /\ NoFault
<1> USE DEF TypeOK
<1>1. ASSUME NEW q \in Pods, KubeletStep(q) PROVE FALSE
  BY <1>1 DEF KubeletStep, Allocate, AllocateFails, CallAdd, Stop, CallDel,
     Recreate, Go
<1>2. ASSUME NEW q \in Pods, DelStep(q) PROVE FALSE
  BY <1>2 DEF DelStep, DelFind, DelIpam, DelMaps, DelBpf, DelFilters, DelSubfunction,
     Go, Error, Success
<1>3. ASSUME NEW q \in Pods, AddFind(q) \/ AddIpam(q) \/ AddMove(q) \/ AddUp(q)
      PROVE FALSE
  BY <1>3 DEF AddFind, AddIpam, AddMove, AddUp, Go, Error
<1>4. ASSUME NEW q \in Pods, AddFilters(q) PROVE FALSE
  <2>1. Go(q, "addMove") \/ Error(q)
    BY <1>4 DEF AddFilters, SetEthtool
  <2> QED
    BY <2>1 DEF Go, Error
<1>5. ASSUME NEW q \in Pods, AddAddress(q) PROVE q = p /\ NoFault
  BY <1>5 DEF AddAddress, Error, Success
<1>6. ~Reboot
  BY DEF Reboot
<1> QED
  BY <1>1, <1>2, <1>3, <1>4, <1>5, <1>6 DEF Next, AddStep

\* Only the last step of DEL ends a pod.
LEMMA GoneBy ==
  ASSUME TypeOK, Next, NEW p \in Pods, stage[p] # "gone", stage'[p] = "gone"
  PROVE  DelSubfunction(p)
<1> USE DEF TypeOK
<1>1. ASSUME NEW q \in Pods, KubeletStep(q) PROVE FALSE
  BY <1>1 DEF KubeletStep, Allocate, AllocateFails, CallAdd, Stop, CallDel,
     Recreate, Go
<1>2. ASSUME NEW q \in Pods, AddStep(q) PROVE FALSE
  <2>1. CASE AddFilters(q)
    <3>1. Go(q, "addMove") \/ Error(q)
      BY <2>1 DEF AddFilters, SetEthtool
    <3> QED
      BY <3>1 DEF Go, Error
  <2>2. CASE AddFind(q) \/ AddIpam(q) \/ AddMove(q) \/ AddUp(q) \/ AddAddress(q)
    BY <2>2 DEF AddFind, AddIpam, AddMove, AddUp, AddAddress, Go, Error, Success
  <2> QED
    BY <1>2, <2>1, <2>2 DEF AddStep
<1>3. ASSUME NEW q \in Pods, DelFind(q) \/ DelIpam(q) \/ DelMaps(q) \/ DelBpf(q)
      PROVE FALSE
  BY <1>3 DEF DelFind, DelIpam, DelMaps, DelBpf, Go, Error
<1>4. ASSUME NEW q \in Pods, DelFilters(q) PROVE FALSE
  <2>1. Go(q, "delSubfunction") \/ Error(q)
    BY <1>4 DEF DelFilters
  <2> QED
    BY <2>1 DEF Go, Error
<1>5. ASSUME NEW q \in Pods, DelSubfunction(q) PROVE q = p
  BY <1>5 DEF DelSubfunction, Success
<1>6. ~Reboot
  BY DEF Reboot
<1> QED
  BY <1>1, <1>2, <1>3, <1>4, <1>5, <1>6 DEF Next, DelStep

(***************************************************************************)
(* A pod for which ADD succeeded has its device, up and with its address:  *)
(* each step of ADD stands when the last one is taken.                     *)
(***************************************************************************)
THEOREM AddSafety == Spec => AddUsable
<1> DEFINE Usable(p) == stage[p] # "running" /\ stage'[p] = "running" =>
                          place' = p /\ up' /\ (conf.ipam => address' = p)
<1>1. ASSUME IInv, Next, NEW p \in Pods PROVE Usable(p)
  <2>1. SUFFICES ASSUME stage[p] # "running", stage'[p] = "running"
                 PROVE  place' = p /\ up' /\ (conf.ipam => address' = p)
    OBVIOUS
  <2>2. AddAddress(p) /\ NoFault
    BY <1>1, <2>1, RunningBy DEF IInv
  <2>3. pc[p] = "addAddress" /\ UNCHANGED <<place, up>>
    BY <2>2 DEF AddAddress
  <2>4. place = p /\ up
    BY <1>1, <2>3 DEF IInv, Held, Ready
  <2>5. conf.ipam => address' = p
    BY <1>1, <2>2 DEF AddAddress, SetIPAM, NoFault, Fault, IInv, TypeOK
  <2> QED
    BY <2>3, <2>4, <2>5
<1>2. IInv /\ [Next]_vars => [\A p \in Pods : Usable(p)]_vars
  BY <1>1
<1> QED
  BY <1>2, Invariance, PTL DEF Spec, AddUsable

(***************************************************************************)
(* A pod for which DEL succeeded has neither the device nor a lease, and   *)
(* leaves no program behind that is not meant to stay.                     *)
(***************************************************************************)
THEOREM DelSafety == Spec => DelReleases
<1> DEFINE Freed(p) == stage[p] # "gone" /\ stage'[p] = "gone" =>
                         place' # p /\ p \notin leases' /\ (conf.skip \/ program' # p)
<1>1. ASSUME IInv, Next, NEW p \in Pods PROVE Freed(p)
  <2>1. SUFFICES ASSUME stage[p] # "gone", stage'[p] = "gone"
                 PROVE  place' # p /\ p \notin leases' /\ (conf.skip \/ program' # p)
    OBVIOUS
  <2>2. DelSubfunction(p)
    BY <1>1, <2>1, GoneBy DEF IInv
  <2>3. place # p /\ p \notin leases /\ (conf.skip \/ program # p)
    BY <1>1, <2>2 DEF DelSubfunction, IInv, Left, Released, Unloaded, DelSteps
  <2>4. place' # p
    BY <2>2, <2>3 DEF DelSubfunction, IsCdqSubfunction, DeleteCdqSubfunction, MoveTo, device
  <2>5. leases' = leases /\ (program' = program \/ program' = NoPod)
    BY <2>2 DEF DelSubfunction
  <2> QED
    BY <2>3, <2>4, <2>5
<1>2. IInv /\ [Next]_vars => [\A p \in Pods : Freed(p)]_vars
  BY <1>1
<1> QED
  BY <1>2, Invariance, PTL DEF Spec, DelReleases

(***************************************************************************)
(* Nothing that is set up for a pod is taken down while it has the device, *)
(* but by a reboot or by a DEL that was late: whoever takes something away *)
(* is in the middle of a DEL, so it is not the holder.                     *)
(***************************************************************************)
THEOREM SetupSafety == Spec => SetupLostTo
<1> DEFINE Taken(p) == /\ Has(p)
                       /\ \/ program = p /\ program' # p
                          \/ filters = p /\ filters' # p
                          \/ maps = p /\ maps' # p
<1> DEFINE ByLate == \E q \in late : pc[q] \in DelSteps \ {"delFind"}
<1>1. ASSUME IInv, NEW p \in Pods, Taken(p), NEW q \in Pods, KubeletStep(q)
      PROVE  ByLate
  <2>1. ~Allocatable(q)
    BY <1>1 DEF Allocatable, Has
  <2> QED
    BY <1>1, <2>1 DEF KubeletStep, Allocate, AllocateFails, CallAdd, Stop, CallDel, Recreate,
       setup
<1>2. ASSUME IInv, NEW p \in Pods, Taken(p), NEW q \in Pods, AddStep(q)
      PROVE  ByLate
  <2>1. CASE AddFilters(q)
    <3>1. Has(q)
      BY <2>1, <1>2 DEF AddFilters, IInv, TypeOK, AddSteps, Has
    <3>2. q = p
      BY <3>1, <1>2 DEF IInv, Holding
    <3> QED
      BY <2>1, <3>2, <1>2 DEF AddFilters, SetEthtool
  <2>2. CASE AddFind(q) \/ AddIpam(q) \/ AddMove(q) \/ AddUp(q) \/ AddAddress(q)
    BY <2>2, <1>2 DEF AddFind, AddIpam, AddMove, AddUp, AddAddress, setup
  <2> QED
    BY <1>2, <2>1, <2>2 DEF AddStep
<1>3. ASSUME IInv, NEW p \in Pods, Taken(p), NEW q \in Pods, DelStep(q)
      PROVE  ByLate
  <2>1. ~DelFind(q) /\ ~DelIpam(q)
    BY <1>3 DEF DelFind, DelIpam, setup
  <2>2. pc[q] \in DelSteps \ {"delFind"}
    BY <1>3, <2>1 DEF DelStep, DelMaps, DelBpf, DelFilters, DelSubfunction, DelSteps
  <2>3. q # p /\ q # holder
    BY <1>3, <2>2 DEF IInv, TypeOK, Has, Holding, DelSteps
  <2> QED
    BY <1>3, <2>2, <2>3 DEF IInv, Early
<1>4. IInv /\ [Next]_vars => [\A p \in Pods : Taken(p) => Reboot \/ ByLate]_vars
  BY <1>1, <1>2, <1>3 DEF Next
<1> QED
  BY <1>4, Invariance, PTL DEF Spec, SetupLostTo

-----------------------------------------------------------------------------
\* A step of the kubelet, the runtime or a call, made for pod p.
Step(p) == KubeletStep(p) \/ AddStep(p) \/ DelStep(p)

\* What is done for one pod leaves the call, the lease and the device of another.
LEMMA CallsApart ==
  ASSUME TypeOK, NEW p \in Pods, NEW q \in Pods, q # p, Step(q)
  PROVE  /\ pc'[p] = pc[p] /\ (p \in leases' <=> p \in leases)
         /\ place = p => place' = p
<1> USE DEF TypeOK, device
<1>1. CASE KubeletStep(q)
  BY <1>1 DEF KubeletStep, Allocate, ActivateCdqSubfunction, AllocateFails, CallAdd, Stop,
     CallDel, Recreate, Go
<1>2. CASE AddStep(q)
  <2>1. pc'[p] = pc[p]
    BY <1>2 DEF AddStep, AddFind, AddIpam, AddFilters, SetEthtool, AddMove, AddUp,
       AddAddress, Go, Error, Success
  <2>2. p \in leases' <=> p \in leases
    BY <1>2 DEF AddStep, AddFind, AddIpam, AddFilters, AddMove, AddUp, AddAddress
  <2>3. place = p => place' = p
    BY <1>2 DEF AddStep, AddFind, AddIpam, AddFilters, AddMove, AddUp, AddAddress
  <2> QED
    BY <2>1, <2>2, <2>3
<1>3. CASE DelStep(q)
  <2>1. pc'[p] = pc[p]
    BY <1>3 DEF DelStep, DelFind, DelIpam, DelMaps, DelBpf, DelFilters, DelSubfunction,
       Go, Error, Success
  <2>2. p \in leases' <=> p \in leases
    BY <1>3 DEF DelStep, DelFind, DelIpam, DelMaps, DelBpf, DelFilters, DelSubfunction
  <2>3. place = p => place' = p
    BY <1>3 DEF DelStep, DelFind, DelIpam, DelMaps, DelBpf, DelFilters, DelSubfunction,
       IsCdqSubfunction, DeleteCdqSubfunction
  <2> QED
    BY <2>1, <2>2, <2>3
<1> QED
  BY <1>1, <1>2, <1>3 DEF Step

\* How the calls for a pod strand its lease: with an error, between lease and device.
LEMMA StrandedByError ==
  ASSUME IInv, NEW p \in Pods, Step(p), ~Stranded(p), Stranded(p)'
  PROVE  \/ AddIpam(p) /\ Fault /\ Error(p)
         \/ AddFilters(p) /\ Fault /\ Error(p)
         \/ AddMove(p) /\ Error(p) /\ (Fault \/ place # "host")
         \/ DelIpam(p) /\ Fault /\ Error(p)
<1> USE DEF IInv, TypeOK, Stranded, device
<1>1. CASE KubeletStep(p)
  BY <1>1 DEF KubeletStep, Allocate, ActivateCdqSubfunction, AllocateFails, CallAdd, Stop,
     CallDel, Recreate, Go
<1>2. CASE AddFind(p)
  BY <1>2 DEF AddFind, Go, Error
<1>3. CASE AddIpam(p)
  BY <1>3 DEF AddIpam, Go
<1>4. CASE AddFilters(p)
  <2>1. leases' = leases /\ place' = place /\ pc[p] = "addFilters"
    BY <1>4 DEF AddFilters
  <2>2. leases # {}
    BY <2>1
  <2>3. conf.ipam
    BY <2>2 DEF Unpaid
  <2>4. Go(p, "addMove") \/ (Fault /\ Error(p))
    BY <1>4, <2>3 DEF AddFilters, SetEthtool
  <2> QED
    BY <1>4, <2>4 DEF Go
<1>5. CASE AddMove(p)
  BY <1>5 DEF AddMove, MoveTo
<1>6. CASE AddUp(p) \/ AddAddress(p)
  BY <1>6 DEF AddUp, AddAddress, Held
<1>7. CASE DelFind(p)
  BY <1>7 DEF DelFind, Go, Error
<1>8. CASE DelIpam(p)
  <2>1. p \in leases /\ place' = place
    BY <1>8 DEF DelIpam
  <2>2. conf.ipam
    BY <2>1 DEF Unpaid
  <2> QED
    BY <1>8, <2>2 DEF DelIpam
<1>9. CASE DelMaps(p) \/ DelBpf(p) \/ DelFilters(p) \/ DelSubfunction(p)
  <2>1. pc[p] \in {"delMaps", "delBpf", "delFilters", "delSubfunction"} /\ leases' = leases
    BY <1>9 DEF DelMaps, DelBpf, DelFilters, DelSubfunction
  <2> QED
    BY <2>1 DEF Released
<1> QED
  BY <1>1, <1>2, <1>3, <1>4, <1>5, <1>6, <1>7, <1>8, <1>9 DEF Step, AddStep, DelStep

(***************************************************************************)
(* Whatever fails and however calls overlap, a lease that no DEL will come *)
(* to is left by an error of the pod's own call between lease and device   *)
(* (CmdAdd after getIPAM, CmdDel in ExecDel), or by a reboot.              *)
(***************************************************************************)
THEOREM StrandedOnlyBy == Spec => LeaseStrandedBy
<1> DEFINE Failed(p) == /\ pc[p] \in {"addIpam", "addFilters", "addMove", "delIpam"}
                        /\ pc'[p] = "idle" /\ stage'[p] = "stopping"
<1>1. ASSUME IInv, NEW p \in Pods, ~Stranded(p), Stranded(p)', NEW q \in Pods, Step(q)
      PROVE  Failed(p)
  <2>1. q = p
    BY <1>1, CallsApart DEF IInv, Stranded
  <2>2. Error(p) /\ pc[p] \in {"addIpam", "addFilters", "addMove", "delIpam"}
    BY <1>1, <2>1, StrandedByError DEF AddIpam, AddFilters, AddMove, DelIpam
  <2> QED
    BY <1>1, <2>2 DEF Error, IInv, TypeOK
<1>2. ASSUME IInv, Next, NEW p \in Pods, ~Stranded(p), Stranded(p)'
      PROVE  Reboot \/ Failed(p)
  <2>1. Reboot \/ \E q \in Pods : Step(q)
    BY <1>2 DEF Next, Step
  <2> QED
    BY <1>1, <1>2, <2>1
<1>3. IInv /\ [Next]_vars =>
        [\A p \in Pods : ~Stranded(p) /\ Stranded(p)' =>
           \/ Reboot
           \/ Failed(p)]_vars
  BY <1>2
<1> QED
  BY <1>3, Invariance, PTL DEF Spec, LeaseStrandedBy

\* An ADD that is past its first step finds the device still on the host.
OnHost == \A p \in Pods : pc[p] \in {"addIpam", "addFilters", "addMove"} => place = "host"

CalmInv == faults = 0 /\ late = {} => OnHost /\ \A p \in Pods : ~Stranded(p)

\* Faults and late pods are never forgotten.
LEMMA CalmBefore ==
  ASSUME IInv, Next, faults' = 0, late' = {}
  PROVE  /\ faults = 0 /\ late = {} /\ ~Fault
         /\ \E q \in Pods : Step(q)
<1>1. ~Fault /\ faults \in Nat
  BY DEF Fault, IInv, TypeOK
<1>2. PICK q \in Pods : Step(q)
  BY <1>1 DEF Next, Reboot, Step
<1>3. NoFault \/ UNCHANGED faults
  BY <1>1, <1>2 DEF Step, KubeletStep, Allocate, AllocateFails, CallAdd, Stop, CallDel,
     Recreate, AddStep, AddFind, AddIpam, AddFilters, SetEthtool, AddMove, AddUp, AddAddress,
     DelStep, DelFind, DelIpam, DelMaps, DelBpf, DelFilters, DelSubfunction,
     DeleteCdqSubfunction
<1>4. late \subseteq late'
  BY <1>2 DEF given, Step, KubeletStep, Allocate, AllocateFails, CallAdd, Stop, CallDel,
     Recreate, AddStep, AddFind, AddIpam, AddFilters, AddMove, AddUp, AddAddress,
     DelStep, DelFind, DelIpam, DelMaps, DelBpf, DelFilters, DelSubfunction
<1> QED
  BY <1>1, <1>2, <1>3, <1>4 DEF NoFault

\* Nobody but the holder moves a device while nothing goes wrong.
LEMMA OnHostKept ==
  ASSUME IInv, OnHost, late = {}, NEW q \in Pods, Step(q), NEW p \in Pods,
         pc'[p] \in {"addIpam", "addFilters", "addMove"}
  PROVE  place' = "host"
<1> USE DEF IInv, TypeOK, device
<1>1. CASE q = p
  <2>1. CASE AddFind(p)
    BY <2>1 DEF AddFind, Error
  <2>2. CASE AddIpam(p) \/ AddFilters(p)
    BY <2>2 DEF AddIpam, AddFilters, OnHost
  <2>3. CASE AddMove(p) \/ AddUp(p) \/ AddAddress(p)
    BY <2>3 DEF AddMove, AddUp, AddAddress, Go, Error, Success
  <2>4. CASE DelStep(p)
    BY <2>4 DEF DelStep, DelFind, DelIpam, DelMaps, DelBpf, DelFilters, DelSubfunction, Go,
       Error, Success
  <2>5. CASE KubeletStep(p)
    BY <2>5 DEF KubeletStep, Allocate, AllocateFails, Allocatable, CallAdd, Stop, CallDel,
       Recreate, Go, AddSteps
  <2> QED
    BY <1>1, <2>1, <2>2, <2>3, <2>4, <2>5 DEF Step, AddStep
<1>2. CASE q # p
  <2>1. pc[p] \in {"addIpam", "addFilters", "addMove"} /\ place = "host"
    BY <1>2, CallsApart DEF OnHost
  <2>2. stage[p] = "allocated" /\ Has(p) /\ holder = p
    BY <2>1 DEF Has, Holding, AddSteps
  <2>3. CASE KubeletStep(q)
    BY <2>1, <2>2, <2>3 DEF KubeletStep, Allocate, AllocateFails, Allocatable, CallAdd, Stop,
       CallDel, Recreate
  <2>4. CASE AddStep(q)
    <3>1. pc[q] \in AddSteps
      BY <2>4 DEF AddStep, AddFind, AddIpam, AddFilters, AddMove, AddUp, AddAddress, AddSteps
    <3>2. holder = q
      BY <3>1 DEF Has, Holding
    <3> QED
      BY <1>2, <2>2, <3>2
  <2>5. CASE DelStep(q)
    <3>1. pc[q] \notin DelSteps \ {"delFind"}
      BY <1>2, <2>2 DEF Early
    <3>2. DelFind(q)
      BY <2>5, <3>1 DEF DelStep, DelIpam, DelMaps, DelBpf, DelFilters, DelSubfunction, DelSteps
    <3> QED
      BY <2>1, <3>2 DEF DelFind
  <2> QED
    BY <2>3, <2>4, <2>5 DEF Step
<1> QED
  BY <1>1, <1>2

(***************************************************************************)
(* While no call has failed of itself and no device was given on too early *)
(* DEL comes to every lease: ADD takes one only when it has found the      *)
(* device, and until it has moved it nobody else can.                      *)
(***************************************************************************)
THEOREM CalmSafety == Spec => []CalmStrandsNone
<1>1. Init => CalmInv
  BY DEF Init, CalmInv, OnHost, Stranded
<1>2. IInv /\ CalmInv /\ [Next]_vars => CalmInv'
  <2> SUFFICES ASSUME IInv, CalmInv, [Next]_vars, faults' = 0, late' = {}
               PROVE  (OnHost /\ \A p \in Pods : ~Stranded(p))'
    BY DEF CalmInv
  <2>1. CASE UNCHANGED vars
    BY <2>1 DEF vars, given, device, CalmInv, OnHost, Stranded
  <2>2. CASE Next
    <3>1. /\ ~Fault /\ late = {} /\ OnHost
          /\ \A p \in Pods : ~Stranded(p)
      BY <2>2, CalmBefore DEF CalmInv
    <3>2. PICK q \in Pods : Step(q)
      BY <2>2, CalmBefore
    <3>3. OnHost'
      BY <3>1, <3>2, OnHostKept DEF OnHost
    <3>4. ASSUME NEW p \in Pods, Stranded(p)' PROVE FALSE
      <4>1. q = p
        BY <3>1, <3>2, <3>4, CallsApart DEF IInv, Stranded
      <4>2. AddMove(p) /\ place # "host"
        BY <3>1, <3>2, <3>4, <4>1, StrandedByError
      <4> QED
        BY <3>1, <4>2 DEF AddMove, OnHost
    <3> QED
      BY <3>3, <3>4
  <2> QED
    BY <2>1, <2>2
<1>3. CalmInv => CalmStrandsNone
  BY DEF CalmInv, CalmStrandsNone
<1> QED
  BY <1>1, <1>2, <1>3, Invariance, PTL DEF Spec

-----------------------------------------------------------------------------
\* Where the device is, as DeviceLease sees it.
Where == IF place \in Pods THEN place ELSE "host"

\* A step that leaves the device's pod, its address and the leases is none there.
LEMMA PromiseStutter ==
  ASSUME UNCHANGED <<conf, address, leases>>, Where' = Where
  PROVE  UNCHANGED (Promise!vars)
BY DEF Where, Promise!vars

\* Off the pods the device has no address, so moving about there is not seen.
LEMMA OffPods ==
  ASSUME IInv, place \notin Pods, place' \notin Pods,
         UNCHANGED <<conf, leases>>, address' \in {address, NoPod}
  PROVE  UNCHANGED (Promise!vars)
<1>1. address = NoPod
  BY DEF IInv, AddressLeased, TypeOK
<1> QED
  BY <1>1, PromiseStutter DEF Where

\* The kubelet and the runtime are not seen.
LEMMA KubeletPromise ==
  ASSUME IInv, NEW p \in Pods, KubeletStep(p)
  PROVE  UNCHANGED (Promise!vars)
<1>1. CASE CallAdd(p) \/ Stop(p) \/ CallDel(p) \/ Recreate(p)
  BY <1>1, PromiseStutter DEF CallAdd, Stop, CallDel, Recreate, device, Where
<1>2. CASE Allocate(p)
  <2>1. UNCHANGED <<conf, address, leases>>
    BY <1>2 DEF Allocate
  <2>2. place' = place \/ (place = "none" /\ place' = "host")
    BY <1>2 DEF Allocate, ActivateCdqSubfunction
  <2> QED
    BY <2>1, <2>2, PromiseStutter DEF Where
<1>3. CASE AllocateFails(p)
  <2>1. UNCHANGED <<conf, address, leases>>
    BY <1>3 DEF AllocateFails
  <2>2. place \notin Pods /\ place' \in {"host", "none", "inactive"}
    BY <1>3 DEF AllocateFails, ActivateCdqSubfunction, HalfMade
  <2> QED
    BY <2>1, <2>2, PromiseStutter DEF Where
<1> QED
  BY <1>1, <1>2, <1>3 DEF KubeletStep

\* ADD leases, lets the device in and has it answer, in this order.
LEMMA AddPromise ==
  ASSUME IInv, NEW p \in Pods, AddStep(p)
  PROVE  [Promise!Next]_(Promise!vars)
<1> USE DEF Promise!Next
<1>1. CASE AddFind(p) \/ AddUp(p)
  BY <1>1, PromiseStutter DEF AddFind, AddUp, device, Where
<1>2. CASE AddFilters(p)
  BY <1>2, PromiseStutter DEF AddFilters, device, Where
<1>3. CASE AddIpam(p)
  <2>1. UNCHANGED <<conf, address>> /\ Where' = Where
    BY <1>3 DEF AddIpam, device, Where
  <2>2. CASE leases' = leases
    BY <2>1, <2>2, PromiseStutter
  <2>3. CASE conf.ipam /\ leases' = leases \cup {p}
    BY <2>1, <2>3 DEF Promise!Lease, Where
  <2> QED
    BY <1>3, <2>2, <2>3 DEF AddIpam
<1>4. CASE AddMove(p)
  <2>1. CASE UNCHANGED device
    BY <1>4, <2>1, PromiseStutter DEF AddMove, device, Where
  <2>2. CASE place = "host" /\ MoveTo(p)
    <3>1. address = NoPod /\ address' = NoPod
      BY <2>2 DEF IInv, TypeOK, AddressLeased, MoveTo
    <3>2. conf.ipam => p \in leases
      BY <1>4 DEF AddMove, IInv, Paid
    <3> QED
      BY <1>4, <2>2, <3>1, <3>2 DEF AddMove, MoveTo, Promise!Enter
  <2> QED
    BY <1>4, <2>1, <2>2 DEF AddMove
<1>5. CASE AddAddress(p)
  <2>1. place = p /\ (conf.ipam => p \in leases)
    BY <1>5 DEF AddAddress, IInv, Held, Paid
  <2>2. UNCHANGED <<conf, leases, place>>
    BY <1>5 DEF AddAddress
  <2>3. CASE address' = address
    BY <2>2, <2>3, PromiseStutter DEF Where
  <2>4. CASE conf.ipam /\ address' = p
    BY <2>1, <2>2, <2>4 DEF Promise!Answer
  <2> QED
    BY <1>5, <2>3, <2>4 DEF AddAddress, SetIPAM
<1> QED
  BY <1>1, <1>2, <1>3, <1>4, <1>5 DEF AddStep

\* DEL takes the device out and then returns the lease.
LEMMA DelPromise ==
  ASSUME IInv, NEW p \in Pods, DelStep(p)
  PROVE  [Promise!Next]_(Promise!vars)
<1> USE DEF Promise!Next
<1>1. CASE DelMaps(p) \/ DelBpf(p) \/ DelFilters(p)
  BY <1>1, PromiseStutter DEF DelMaps, DelBpf, DelFilters, device, Where
<1>2. CASE DelFind(p)
  <2>1. CASE UNCHANGED device
    BY <1>2, <2>1, PromiseStutter DEF DelFind, device, Where
  <2>2. CASE place = p /\ MoveTo("host")
    BY <1>2, <2>2 DEF DelFind, MoveTo, Promise!Leave
  <2> QED
    BY <1>2, <2>1, <2>2 DEF DelFind
<1>3. CASE DelIpam(p)
  <2>1. UNCHANGED <<conf, address, place>> /\ pc[p] = "delIpam"
    BY <1>3 DEF DelIpam, device
  <2>2. place # p /\ p # "host"
    BY <2>1 DEF IInv, Left, DelSteps
  <2>3. CASE leases' = leases
    BY <2>1, <2>3, PromiseStutter DEF Where
  <2>4. CASE leases' = leases \ {p}
    BY <2>1, <2>2, <2>4 DEF Promise!Return
  <2> QED
    BY <1>3, <2>3, <2>4 DEF DelIpam
<1>4. CASE DelSubfunction(p)
  <2>1. UNCHANGED <<conf, leases>>
    BY <1>4 DEF DelSubfunction
  <2>2. CASE UNCHANGED device
    BY <2>1, <2>2, PromiseStutter DEF device, Where
  <2>3. CASE place = "host" /\ (MoveTo("none") \/ MoveTo("inactive"))
    BY <2>1, <2>3, OffPods DEF MoveTo
  <2> QED
    BY <1>4, <2>2, <2>3 DEF DelSubfunction, IsCdqSubfunction, DeleteCdqSubfunction
<1> QED
  BY <1>1, <1>2, <1>3, <1>4 DEF DelStep

\* With the namespaces goes the pod that the device was in.
LEMMA RebootPromise ==
  ASSUME IInv, Reboot
  PROVE  [Promise!Next]_(Promise!vars)
<1>1. UNCHANGED <<conf, leases>> /\ place' \in {"host", "none"} /\ address' = NoPod
  BY DEF Reboot
<1>2. CASE place \in Pods
  BY <1>1, <1>2 DEF Promise!Next, Promise!Leave
<1>3. CASE place \notin Pods
  BY <1>1, <1>3, OffPods
<1> QED
  BY <1>2, <1>3

(***************************************************************************)
(* The CNI calls for all pods, however they interleave, fail and are       *)
(* repeated, keep the promise of DeviceLease: lease, enter, answer, leave, *)
(* return (CmdAdd and CmdDel, for one device).                             *)
(***************************************************************************)
THEOREM Refinement == Spec => ImplementsDeviceLease
<1>1. Init => Promise!Init
  BY DEF Init, Promise!Init, Conf
<1>2. IInv /\ [Next]_vars => [Promise!Next]_(Promise!vars)
  <2>1. ASSUME UNCHANGED vars PROVE UNCHANGED (Promise!vars)
    BY <2>1, PromiseStutter DEF vars, device, Where
  <2> QED
    BY <2>1, KubeletPromise, AddPromise, DelPromise, RebootPromise DEF Next
<1> QED
  BY <1>1, <1>2, Invariance, PTL DEF Spec, ImplementsDeviceLease, Promise!Spec
=============================================================================
