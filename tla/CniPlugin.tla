----------------------------- MODULE CniPlugin -----------------------------
(***************************************************************************)
(* The CNI plugin (internal/cni/cni.go): CmdAdd moves a network device     *)
(* from the host into the network namespace of a pod, CmdDel moves it back *)
(* and cleans up.  One device is followed through the pods that get it one *)
(* after another: what Allocate (internal/deviceplugin/poolManager.go) has *)
(* set up on it, what the calls for several pods do to each other, and     *)
(* what a reboot of the node leaves.                                       *)
(*                                                                         *)
(* Each call is a process of the runtime and a sequence of steps, any of   *)
(* which may fail; a process that is killed between two steps looks to     *)
(* everyone else like a failure of the next one.  The runtime answers a    *)
(* failed ADD with DEL, retries a DEL that fails, and may make the network *)
(* of a pod anew without another Allocate.                                 *)
(***************************************************************************)
EXTENDS Naturals

CONSTANTS
  Pods,       \* pods that get the device one after another
  NoPod,
  Confs,      \* the network configurations considered
  MaxFaults   \* bound: calls that fail without a cause in the model, reboots

Conf == [mode : {"primary", "cdq"},
         ipam : BOOLEAN,       \* an IPAM plugin is configured
         filters : BOOLEAN,    \* ethtool commands are configured
         ethtool : BOOLEAN,    \* ethtool is installed on the host
         pinned : BOOLEAN,     \* maps are pinned and DPSyncer is set
         skip : BOOLEAN]       \* SkipUnloadBpf

ASSUME CniAssumption ==
  /\ NoPod \notin Pods
  /\ Pods \cap {"host", "none", "inactive"} = {}
  /\ Confs \subseteq Conf
  /\ MaxFaults \in Nat

VARIABLES
  conf,      \* the network configuration
  stage,     \* stage[p]: where pod p is in its life
  holder,    \* the pod that the kubelet has last given the device to
  late,      \* pods that were not done with the device when it was given on
  pc,        \* pc[p]: step of the call made for p, or "idle"
  place,     \* where the device is: "host", a pod's namespace, or, for a
             \* subfunction, "none" or "inactive" (a port without a device)
  up,        \* the device is in the UP state
  address,   \* the pod whose leased address the device carries, or NoPod
  leases,    \* pods for which the IPAM plugin holds an address
  filters,   \* the pod that ethtool filters are set on the device for, or NoPod
  program,   \* the pod that a BPF program was loaded on the device for, or NoPod
  maps,      \* the pod that the map of the device was pinned for, or NoPod
  faults     \* calls that failed without a cause so far

given  == <<holder, late>>
device == <<place, up, address>>
setup  == <<filters, program, maps>>
vars   == <<conf, stage, given, pc, device, leases, setup, faults>>

AddSteps == {"addFind", "addIpam", "addFilters", "addMove", "addUp", "addAddress"}
DelSteps == {"delFind", "delIpam", "delMaps", "delBpf", "delFilters", "delSubfunction"}

Init ==
  /\ conf \in Confs
  /\ stage = [p \in Pods |-> "new"]
  /\ pc = [p \in Pods |-> "idle"]
  /\ place = IF conf.mode = "primary" THEN "host" ELSE "none"
  /\ up = FALSE
  /\ address = NoPod
  /\ leases = {}
  /\ holder = NoPod /\ late = {}
  /\ filters = NoPod /\ program = NoPod /\ maps = NoPod
  /\ faults = 0

-----------------------------------------------------------------------------
(***************************************************************************)
(* How a step ends: with the next one, with an error, or with success.     *)
(***************************************************************************)
Go(p, step) ==
  /\ pc' = [pc EXCEPT ![p] = step]
  /\ UNCHANGED stage

Error(p) ==
  /\ pc' = [pc EXCEPT ![p] = "idle"]
  /\ stage' = [stage EXCEPT ![p] = "stopping"]

Success(p, to) ==
  /\ pc' = [pc EXCEPT ![p] = "idle"]
  /\ stage' = [stage EXCEPT ![p] = to]

Fault   == faults < MaxFaults /\ faults' = faults + 1
NoFault == UNCHANGED faults

\* LinkSetNsFd: the kernel takes the device down and drops its addresses.
MoveTo(where) ==
  /\ place' = where
  /\ up' = FALSE
  /\ address' = NoPod

-----------------------------------------------------------------------------
(***************************************************************************)
(* The kubelet and the runtime.  The device is given to the next pod when  *)
(* the last one is stopping, which is before its DEL has succeeded and may *)
(* be in the middle of it.                                                 *)
(***************************************************************************)
\* Nobody that runs has the device, and it is there or can be made; a subfunction
\* that is elsewhere makes Allocate fail without a trace.
Allocatable(p) ==
  /\ stage[p] = "new"
  /\ \A q \in Pods : stage[q] \in {"new", "stopping", "gone"}
  /\ conf.mode = "cdq" => place \in {"host", "none"}

\* A subfunction that exists is taken as it is, a missing one is made.
ActivateCdqSubfunction == place' = IF place = "none" THEN "host" ELSE place

\* Where CreateCdqSubfunction leaves a subfunction that it cannot make: it adds a
\* port and then activates it.
HalfMade == {"none", "inactive"}

\* The device is set up and then down.
CycleDevice == up' = FALSE

\* Pods whose DEL still has the device to move, or the rest of its work to do.
NotDone(p) ==
  {q \in Pods \ {p} : place = q \/ pc[q] \in DelSteps \ {"delFind"}}

\* Allocate creates a missing subfunction, cycles the device and loads the
\* program.  A device that cannot be cycled, like one that is not on the host,
\* is passed over.
Allocate(p) ==
  /\ Allocatable(p)
  /\ stage' = [stage EXCEPT ![p] = "allocated"]
  /\ holder' = p /\ late' = late \cup NotDone(p)
  /\ ActivateCdqSubfunction
  /\ \/ /\ place' = "host" /\ NoFault /\ CycleDevice
        /\ program' = p /\ maps' = IF conf.pinned THEN p ELSE maps
     \/ place' = "host" /\ Fault /\ up' \in BOOLEAN /\ UNCHANGED <<program, maps>>
     \/ place' # "host" /\ NoFault /\ UNCHANGED <<up, program, maps>>
  /\ UNCHANGED <<conf, pc, address, leases, filters>>

\* The subfunction cannot be created or activated, or the program not loaded or
\* pinned: the pod is turned down, and another one may be tried.
AllocateFails(p) ==
  /\ Allocatable(p) /\ place \in {"host", "none"} /\ Fault
  /\ \/ place = "none" /\ place' \in HalfMade /\ UNCHANGED <<up, program>>
     \/ ActivateCdqSubfunction /\ CycleDevice /\ program' \in {program, p}
  /\ UNCHANGED <<conf, stage, given, pc, address, leases, filters, maps>>

CallAdd(p) ==
  /\ stage[p] = "allocated" /\ pc[p] = "idle"
  /\ Go(p, "addFind")
  /\ UNCHANGED <<conf, given, device, leases, setup, faults>>

Stop(p) ==
  /\ stage[p] = "running"
  /\ stage' = [stage EXCEPT ![p] = "stopping"]
  /\ UNCHANGED <<conf, given, pc, device, leases, setup, faults>>

CallDel(p) ==
  /\ stage[p] = "stopping" /\ pc[p] = "idle"
  /\ Go(p, "delFind")
  /\ UNCHANGED <<conf, given, device, leases, setup, faults>>

\* The network of a pod that still has the device is made anew: an ADD that has
\* failed is tried again, or the sandbox had ended.  The kubelet remembers the
\* device and does not ask the device plugin another time.
Recreate(p) ==
  /\ stage[p] = "gone" /\ holder = p
  /\ stage' = [stage EXCEPT ![p] = "allocated"]
  /\ UNCHANGED <<conf, given, pc, device, leases, setup, faults>>

\* The node reboots: calls, namespaces, subfunctions and all that was set up are
\* gone.  The leases, which IPAM keeps on disk, are not.
Reboot ==
  /\ Fault
  /\ pc' = [p \in Pods |-> "idle"]
  /\ stage' = [p \in Pods |-> IF stage[p] \in {"allocated", "running"}
                             THEN "stopping" ELSE stage[p]]
  /\ place' = IF conf.mode = "primary" THEN "host" ELSE "none"
  /\ up' = FALSE /\ address' = NoPod
  /\ filters' = NoPod /\ program' = NoPod /\ maps' = NoPod
  /\ UNCHANGED <<conf, given, leases>>

-----------------------------------------------------------------------------
(***************************************************************************)
(* CmdAdd.                                                                 *)
(***************************************************************************)
\* Faulty variant: only the move is left to find out where the device is.
AddFindUnchecked(p) ==
  /\ pc[p] = "addFind"
  /\ \/ Go(p, "addIpam") /\ NoFault
     \/ Fault /\ Error(p)
  /\ UNCHANGED <<conf, given, device, leases, setup>>

\* The configuration is loaded and the device looked up on the host.
AddFind(p) ==
  /\ pc[p] = "addFind"
  /\ \/ place = "host" /\ Go(p, "addIpam") /\ NoFault
     \/ place # "host" /\ Error(p) /\ NoFault
     \/ Fault /\ Error(p)
  /\ UNCHANGED <<conf, given, device, leases, setup>>

\* Faulty variant: a pod that gets no address is set up without one.
AddIpamLogged(p) ==
  /\ pc[p] = "addIpam"
  /\ Go(p, "addFilters")
  /\ \/ conf.ipam /\ NoFault /\ leases' = leases \cup {p}
     \/ (IF conf.ipam THEN Fault ELSE NoFault) /\ UNCHANGED leases
  /\ UNCHANGED <<conf, given, device, setup>>

\* getIPAM gives the lease back on its own errors, if that does not fail.
AddIpam(p) ==
  /\ pc[p] = "addIpam"
  /\ \/ ~conf.ipam /\ Go(p, "addFilters") /\ NoFault /\ UNCHANGED leases
     \/ conf.ipam /\ Go(p, "addFilters") /\ NoFault /\ leases' = leases \cup {p}
     \/ conf.ipam /\ Fault /\ Error(p) /\ leases' \in {leases, leases \cup {p}}
  /\ UNCHANGED <<conf, given, device, setup>>

\* The filters need the address: without IPAM there is no result to take it
\* from, and the process panics.
WantsFilters == conf.mode = "primary" /\ conf.filters

\* One after another, up to the first that fails.
SetEthtool(p) ==
  \/ Go(p, "addMove") /\ NoFault /\ filters' = p
  \/ Error(p) /\ Fault /\ filters' \in {filters, p}

AddFilters(p) ==
  /\ pc[p] = "addFilters"
  /\ \/ ~(WantsFilters /\ conf.ethtool) /\ Go(p, "addMove") /\ NoFault /\ UNCHANGED filters
     \/ WantsFilters /\ Fault /\ Go(p, "addMove") /\ UNCHANGED filters
     \/ /\ WantsFilters /\ conf.ethtool
        /\ \/ ~conf.ipam /\ Error(p) /\ NoFault /\ UNCHANGED filters
           \/ conf.ipam /\ SetEthtool(p)
  /\ UNCHANGED <<conf, given, device, leases, program, maps>>

AddMove(p) ==
  /\ pc[p] = "addMove"
  /\ \/ place = "host" /\ MoveTo(p) /\ Go(p, "addUp") /\ NoFault
     \/ place # "host" /\ Error(p) /\ NoFault /\ UNCHANGED device
     \/ Fault /\ Error(p) /\ UNCHANGED device
  /\ UNCHANGED <<conf, given, leases, setup>>

\* Faulty variant: a device that does not come up is only logged.
AddUpLogged(p) ==
  /\ pc[p] = "addUp"
  /\ \/ up' = TRUE /\ NoFault
     \/ Fault /\ UNCHANGED up
  /\ Go(p, "addAddress")
  /\ UNCHANGED <<conf, given, place, address, leases, setup>>

AddUp(p) ==
  /\ pc[p] = "addUp"
  /\ \/ up' = TRUE /\ Go(p, "addAddress") /\ NoFault
     \/ Fault /\ Error(p) /\ UNCHANGED up
  /\ UNCHANGED <<conf, given, place, address, leases, setup>>

\* In the pod's namespace the address is put on the device.
SetIPAM(p) == address' = IF conf.ipam THEN p ELSE address

\* Faulty variant: the call goes on after its result was printed.
AddAddressUnended(p) ==
  /\ pc[p] = "addAddress"
  /\ stage' = [stage EXCEPT ![p] = "running"]
  /\ SetIPAM(p)
  /\ UNCHANGED <<conf, given, pc, place, up, leases, setup, faults>>

\* The address is set, and the result printed, which may fail too.
AddAddress(p) ==
  /\ pc[p] = "addAddress"
  /\ \/ SetIPAM(p) /\ Success(p, "running") /\ NoFault
     \/ (SetIPAM(p) \/ UNCHANGED address) /\ Fault /\ Error(p)
  /\ UNCHANGED <<conf, given, place, up, leases, setup>>

AddStep(p) ==
  \/ AddFind(p) \/ AddIpam(p) \/ AddFilters(p)
  \/ AddMove(p) \/ AddUp(p) \/ AddAddress(p)

-----------------------------------------------------------------------------
(***************************************************************************)
(* CmdDel.                                                                 *)
(***************************************************************************)
\* Faulty variants: the device is taken from wherever it is; or the lease is
\* released before the device is moved.
DelFindAnywhere(p) ==
  /\ pc[p] = "delFind"
  /\ place \in Pods
  /\ MoveTo("host") /\ Go(p, "delIpam")
  /\ UNCHANGED <<conf, given, leases, setup, faults>>

DelFindReleasing(p) ==
  /\ pc[p] = "delFind"
  /\ leases' = leases \ {p}
  /\ \/ place = p /\ MoveTo("host") /\ Go(p, "delIpam") /\ NoFault
     \/ place # p /\ Error(p) /\ NoFault /\ UNCHANGED device
     \/ Fault /\ Error(p) /\ UNCHANGED device
  /\ UNCHANGED <<conf, given, setup>>

\* Faulty variant: a device that is not in the pod is taken for one that was moved
\* before.
DelFindTolerant(p) ==
  /\ pc[p] = "delFind"
  /\ Go(p, "delIpam") /\ NoFault
  /\ \/ place = p /\ MoveTo("host")
     \/ place # p /\ UNCHANGED device
  /\ UNCHANGED <<conf, given, leases, setup>>

\* In the pod's namespace: the device is looked up and moved to the host.  After a
\* reboot there is no namespace to enter, which is an error as well.
DelFind(p) ==
  /\ pc[p] = "delFind"
  /\ \/ place = p /\ MoveTo("host") /\ Go(p, "delIpam") /\ NoFault
     \/ place # p /\ Error(p) /\ NoFault /\ UNCHANGED device
     \/ Fault /\ Error(p) /\ UNCHANGED device
  /\ UNCHANGED <<conf, given, leases, setup>>

\* Faulty variant: an address that cannot be released is only logged.
DelIpamLogged(p) ==
  /\ pc[p] = "delIpam"
  /\ \/ NoFault /\ leases' = leases \ {p}
     \/ conf.ipam /\ Fault /\ UNCHANGED leases
  /\ Go(p, "delMaps")
  /\ UNCHANGED <<conf, given, device, setup>>

\* Faulty variant: the lease is released for whole devices only.
DelIpamPrimary(p) ==
  /\ pc[p] = "delIpam"
  /\ Go(p, "delMaps") /\ NoFault
  /\ leases' = IF conf.ipam /\ conf.mode = "primary" THEN leases \ {p} ELSE leases
  /\ UNCHANGED <<conf, given, device, setup>>

DelIpam(p) ==
  /\ pc[p] = "delIpam"
  /\ \/ ~conf.ipam /\ Go(p, "delMaps") /\ NoFault /\ UNCHANGED leases
     \/ conf.ipam /\ Go(p, "delMaps") /\ NoFault /\ leases' = leases \ {p}
     \/ conf.ipam /\ Fault /\ Error(p) /\ leases' \in {leases, leases \ {p}}
  /\ UNCHANGED <<conf, given, device, setup>>

\* The device plugin is asked to unpin the maps; a failure is only logged.
DelMaps(p) ==
  /\ pc[p] = "delMaps"
  /\ Go(p, "delBpf")
  /\ \/ ~conf.pinned /\ NoFault /\ UNCHANGED maps
     \/ conf.pinned /\ NoFault /\ maps' = NoPod
     \/ conf.pinned /\ Fault /\ UNCHANGED maps
  /\ UNCHANGED <<conf, given, device, leases, filters, program>>

\* Clean_bpf looks the device up by name, on the host, and detaches whatever
\* program there is.
Clean_bpf == place = "host" /\ program' = NoPod

DelBpf(p) ==
  /\ pc[p] = "delBpf"
  /\ \/ conf.skip /\ Go(p, "delFilters") /\ NoFault /\ UNCHANGED program
     \/ /\ ~conf.skip
        /\ \/ Clean_bpf /\ Go(p, "delFilters") /\ NoFault
           \/ place # "host" /\ Error(p) /\ NoFault /\ UNCHANGED program
           \/ Fault /\ Error(p) /\ UNCHANGED program
  /\ UNCHANGED <<conf, given, device, leases, filters, maps>>

\* Whatever filters a device on the host has.
DeleteEthtool == place = "host" /\ filters' = NoPod

\* Failing to look for ethtool is an error, failing to delete the filters is not.
DelFilters(p) ==
  /\ pc[p] = "delFilters"
  /\ \/ ~WantsFilters /\ Go(p, "delSubfunction") /\ NoFault /\ UNCHANGED filters
     \/ /\ WantsFilters
        /\ \/ ~conf.ethtool /\ Go(p, "delSubfunction") /\ NoFault /\ UNCHANGED filters
           \/ conf.ethtool /\ DeleteEthtool /\ NoFault /\ Go(p, "delSubfunction")
           \/ conf.ethtool /\ place # "host" /\ NoFault
                /\ Go(p, "delSubfunction") /\ UNCHANGED filters
           \/ conf.ethtool /\ Fault /\ Go(p, "delSubfunction") /\ UNCHANGED filters
           \/ Fault /\ Error(p) /\ UNCHANGED filters
  /\ UNCHANGED <<conf, given, device, leases, program, maps>>

\* devlink knows the port of a subfunction by the name of its device, which it
\* has on the host only.
IsCdqSubfunction == conf.mode = "cdq" /\ place = "host"

\* The port is made inactive, which takes the device away, and then deleted.
DeleteCdqSubfunction ==
  \/ NoFault /\ MoveTo("none")
  \/ Fault /\ (UNCHANGED device \/ MoveTo("inactive"))

\* The end of DEL, which succeeds whatever becomes of a subfunction.
DelSubfunction(p) ==
  /\ pc[p] = "delSubfunction"
  /\ Success(p, "gone")
  /\ \/ IsCdqSubfunction /\ DeleteCdqSubfunction
     \/ conf.mode = "cdq" /\ ~IsCdqSubfunction /\ Fault /\ UNCHANGED device
     \/ ~IsCdqSubfunction /\ NoFault /\ UNCHANGED device
  /\ program' = IF place' \in {"none", "inactive"} THEN NoPod ELSE program
  /\ UNCHANGED <<conf, given, leases, filters, maps>>

DelStep(p) ==
  \/ DelFind(p) \/ DelIpam(p) \/ DelMaps(p)
  \/ DelBpf(p) \/ DelFilters(p) \/ DelSubfunction(p)

KubeletStep(p) ==
  Allocate(p) \/ AllocateFails(p) \/ CallAdd(p) \/ Stop(p) \/ CallDel(p) \/ Recreate(p)

Next == Reboot \/ \E p \in Pods : KubeletStep(p) \/ AddStep(p) \/ DelStep(p)

Spec == Init /\ [][Next]_vars

(***************************************************************************)
(* A call that was made runs to its end, and the runtime makes the DEL     *)
(* that a stopping pod is due, again if it failed.                         *)
(***************************************************************************)
FairSpec ==
  Spec /\ \A p \in Pods : WF_vars(AddStep(p)) /\ WF_vars(DelStep(p) \/ CallDel(p))

-----------------------------------------------------------------------------
\* Every variable stays in its type, and calls are made at their stage only.
TypeOK ==
  /\ conf \in Confs
  /\ stage \in [Pods -> {"new", "allocated", "running", "stopping", "gone"}]
  /\ pc \in [Pods -> AddSteps \cup DelSteps \cup {"idle"}]
  /\ place \in Pods \cup {"host", "none", "inactive"}
  /\ up \in BOOLEAN
  /\ address \in Pods \cup {NoPod}
  /\ leases \subseteq Pods
  /\ holder \in Pods \cup {NoPod} /\ late \subseteq Pods
  /\ filters \in Pods \cup {NoPod}
  /\ program \in Pods \cup {NoPod}
  /\ maps \in Pods \cup {NoPod}
  /\ faults \in 0..MaxFaults
  /\ \A p \in Pods : /\ pc[p] \in AddSteps => stage[p] = "allocated"
                     /\ pc[p] \in DelSteps => stage[p] = "stopping"

(***************************************************************************)
(* A device carries an address only in the pod that leased it and only     *)
(* while the lease lasts: the order of the steps of DEL never lets IPAM    *)
(* give an address to somebody else that a device still answers for.       *)
(***************************************************************************)
AddressLeased == address # NoPod => place = address /\ address \in leases

(***************************************************************************)
(* Only the DEL of its own pod takes the device out of a pod, whatever     *)
(* late or repeated calls are made for earlier pods, unless the node       *)
(* reboots.                                                                *)
(***************************************************************************)
OnlyOwnDel ==
  [][\A p \in Pods : place = p /\ place' # p => pc[p] = "delFind" \/ Reboot]_vars

(***************************************************************************)
(* What is set up on the device for a pod stays while the pod has it,      *)
(* unless the node reboots or the kubelet gave the device on before an     *)
(* earlier DEL was done with it: a DEL that failed halfway and is retried  *)
(* does no harm to the next pod, however late it comes.                    *)
(***************************************************************************)
Has(p) == stage[p] \in {"allocated", "running"}

SetupLostTo ==
  [][\A p \in Pods :
       /\ Has(p)
       /\ \/ program = p /\ program' # p
          \/ filters = p /\ filters' # p
          \/ maps = p /\ maps' # p
       => Reboot \/ \E q \in late : pc[q] \in DelSteps \ {"delFind"}]_vars

(***************************************************************************)
(* When ADD succeeds the device is in the pod, up and addressed, although  *)
(* the calls made for other pods name the same device.                     *)
(***************************************************************************)
AddUsable ==
  [][\A p \in Pods : stage[p] # "running" /\ stage'[p] = "running" =>
       place' = p /\ up' /\ (conf.ipam => address' = p)]_vars

(***************************************************************************)
(* When DEL succeeds the pod has neither the device nor a lease, and its   *)
(* program is not left on the device unless that was asked for; a DEL that *)
(* was cut short anywhere never counts as one that succeeded.              *)
(***************************************************************************)
DelReleases ==
  [][\A p \in Pods : stage[p] # "gone" /\ stage'[p] = "gone" =>
       place' # p /\ p \notin leases' /\ (conf.skip \/ program' # p)]_vars

(***************************************************************************)
(* A lease is stranded when its pod does not have the device and no call   *)
(* is about to give it the device or the lease back: DEL then fails before *)
(* it comes to the lease.  Only a call for that very pod that ends with an *)
(* error between the lease and the device strands one, or a reboot.        *)
(***************************************************************************)
Stranded(p) ==
  p \in leases /\ place # p /\ pc[p] \notin {"addFilters", "addMove", "delIpam"}

LeaseStrandedBy ==
  [][\A p \in Pods : ~Stranded(p) /\ Stranded(p)' =>
       \/ Reboot
       \/ /\ pc[p] \in {"addIpam", "addFilters", "addMove", "delIpam"}
          /\ pc'[p] = "idle" /\ stage'[p] = "stopping"]_vars

(***************************************************************************)
(* As long as no call has failed of itself and no device was given on too  *)
(* early, no lease is stranded, whichever errors the calls find: a device  *)
(* that is missing is missed before an address is leased for it.           *)
(***************************************************************************)
CalmStrandsNone == faults = 0 /\ late = {} => \A p \in Pods : ~Stranded(p)

(***************************************************************************)
(* Faults being finite, the address leased for a pod that stops is         *)
(* released in the end (cni.go: "Deleting IPAM to prevent IP leak").       *)
(***************************************************************************)
LeaseFreed ==
  \A p \in Pods : (stage[p] = "stopping" /\ p \in leases) ~> p \notin leases

(***************************************************************************)
(* The calls for all pods together keep the promise of DeviceLease: no     *)
(* device without a lease, no lease returned under a device.               *)
(***************************************************************************)
Promise == INSTANCE DeviceLease WITH
             Node <- "host", paying <- conf.ipam, answers <- address,
             where <- IF place \in Pods THEN place ELSE "host"

ImplementsDeviceLease == Promise!Spec
=============================================================================
