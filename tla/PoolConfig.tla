----------------------------- MODULE PoolConfig -----------------------------
(***************************************************************************)
(* GetPoolConfigs (internal/deviceplugin/config.go): from the config file  *)
(* and the network devices of the host to the device pools of this node.   *)
(*                                                                         *)
(* Pools are worked through in the order of the file.  Each collects       *)
(* entries, first the devices the file names and then what its drivers     *)
(* find, and turns them into devices: the primary itself, or subfunctions  *)
(* carved from it.  The assignment marks left on the host devices          *)
(* (internal/networking/device.go) are all that keeps the pools apart.     *)
(*                                                                         *)
(* A device of a pool is <<d, 0>>, host device d as a whole, or <<d, i>>,  *)
(* its i-th subfunction.                                                   *)
(***************************************************************************)
EXTENDS Integers, Sequences, FiniteSets

CONSTANTS
  Hosts,         \* names of the network interfaces of the host
  Facts,         \* Facts[d]: what the host says about d, a Fact
  Drivers,       \* driver names
  CdqDrivers,    \* those that support subfunctions
  Prohibited,    \* interfaces with a globally prohibited prefix
  SecondaryMax,  \* subfunctions a primary can carry
  KindNetwork,   \* TRUE on a Kind cluster with a secondary network
  UnprivBpf,     \* TRUE when the host allows unprivileged BPF
  IpsMayFail,    \* TRUE when listing the addresses of a device may fail
  Configs        \* the config files considered, each a sequence of pools

Fact == [driver : Drivers,
         port : {"physical", "virtual", "error"},  \* IsPhysicalPort
         special : BOOLEAN,                        \* lo, afxdp-kind-br
         oddVeth : BOOLEAN,                        \* odd-numbered veth
         addressed : BOOLEAN]                      \* has an IP address

Modes == {"primary", "cdq"}

(***************************************************************************)
(* The config file.  A device is identified in one of three ways; "dev" is *)
(* the interface that identification resolves to (getDeviceName).  A limit *)
(* of 0 is no limit.  "nodes" says whether the pool lists nodes and this   *)
(* host among them; "node" is the entry of this host, and those of others  *)
(* are taken to be valid.  What no property tells apart (UID, UDS timeout, *)
(* names) is left out.                                                     *)
(***************************************************************************)
ConfigDevice == [by : {"name", "mac", "pci"}, dev : Hosts, sec : Nat]

ConfigDriver == [name : Drivers, primary : Nat, sec : Nat,
                 excluded : SUBSET Hosts, exclAddr : BOOLEAN]

Node == [devices : Seq(ConfigDevice), drivers : Seq(ConfigDriver)]

Pool == [mode : Modes, unpriv : BOOLEAN, nodes : {"none", "others", "this"},
         node : Node, devices : Seq(ConfigDevice), drivers : Seq(ConfigDriver)]

\* Devices of pools, what a pool in the making lists, what is kept of it.
Device == Hosts \X (0..SecondaryMax)

Entry == [slot : Nat, dev : Hosts, sec : Nat]

KeptPool == [of : Nat, devices : SUBSET Device]

ASSUME PoolAssumption ==
  /\ Facts \in [Hosts -> Fact]
  /\ IsFiniteSet(Hosts)
  /\ CdqDrivers \subseteq Drivers
  /\ Prohibited \subseteq Hosts
  /\ SecondaryMax \in Nat
  /\ KindNetwork \in BOOLEAN /\ UnprivBpf \in BOOLEAN /\ IpsMayFail \in BOOLEAN
  /\ Configs \subseteq Seq(Pool)

VARIABLES
  phase,        \* where GetPoolConfigs is
  config,       \* the config file
  hostDevices,  \* host devices left after discovery
  mode,         \* mode[d]: "none" until d is assigned, then the mode of its pool
  full,         \* full[d]: d is marked fully assigned
  taken,        \* taken[d]: the subfunctions of d marked fully assigned
  k,            \* the pool being worked on
  entries,      \* its entries: where listed, which device, what limit
  drivers,      \* its drivers still to be searched for
  devices,      \* the devices it got so far
  pools         \* the pools finished and kept

vars == <<phase, config, hostDevices, mode, full, taken, k, entries, drivers,
          devices, pools>>

hostVars == <<hostDevices, mode, full, taken>>
poolVars == <<k, entries, drivers, devices, pools>>

Init ==
  /\ phase = "read"
  /\ config \in Configs
  /\ hostDevices = {}
  /\ mode = [d \in Hosts |-> "none"]
  /\ full = [d \in Hosts |-> FALSE]
  /\ taken = [d \in Hosts |-> {}]
  /\ k = 0
  /\ entries = {}
  /\ drivers = <<>>
  /\ devices = {}
  /\ pools = <<>>

-----------------------------------------------------------------------------
(***************************************************************************)
(* Reading and validating the file (configFile.go).                        *)
(***************************************************************************)
ListsAny(source) == source.devices # <<>> \/ source.drivers # <<>>

ValidLimits(source) ==
  /\ \A i \in DOMAIN source.devices : source.devices[i].sec <= SecondaryMax
  /\ \A i \in DOMAIN source.drivers : source.drivers[i].sec <= SecondaryMax

ValidPool(pool) ==
  /\ ListsAny(pool) \/ pool.nodes # "none"
  /\ ValidLimits(pool)
  /\ pool.nodes = "this" => ListsAny(pool.node) /\ ValidLimits(pool.node)

ReadConfigFile ==
  /\ phase = "read"
  /\ phase' = IF \A i \in DOMAIN config : ValidPool(config[i])
              THEN "discover" ELSE "failed"
  /\ UNCHANGED <<config, hostVars, poolVars>>

\* The host name or the interfaces cannot be read.
DiscoverFails ==
  /\ phase = "discover"
  /\ phase' = "failed"
  /\ UNCHANGED <<config, hostVars, poolVars>>

\* An interface with a PCI address, other than a subfunction; a port of which that
\* cannot be told is not taken for one.
IsPhysicalPort(d) == Facts[d].port = "physical"

\* What is left of the host's interfaces: candidates for the pools.
Usable(d) ==
  /\ ~Facts[d].special
  /\ IF KindNetwork THEN ~Facts[d].oddVeth ELSE IsPhysicalPort(d)
  /\ d \notin Prohibited

DiscoverDevices ==
  /\ phase = "discover"
  /\ phase' = "pool"
  /\ hostDevices' = {d \in Hosts : Usable(d)}
  /\ k' = 1
  /\ UNCHANGED <<config, mode, full, taken, entries, drivers, devices, pools>>

-----------------------------------------------------------------------------
(***************************************************************************)
(* validateDevice.  "driver" is {} for a device the file names, or holds   *)
(* the driver that found it; "inPool" are the devices the pool has entries *)
(* for.  The addresses of a device come as a slice that is never nil, even *)
(* when empty, unless listing them failed: that alone passes the test.     *)
(***************************************************************************)
InMode(d, m) == mode[d] \in {"none", m}

\* Faulty variant: an assignment is forgotten.
ValidateForgetful(d, m) == d \in hostDevices /\ d \notin Prohibited /\ InMode(d, m)

Validate(d, m) ==
  /\ d \in hostDevices
  /\ ~full[d]
  /\ d \notin Prohibited
  /\ InMode(d, m)

\* Faulty variant: the exclusion list is not consulted.
ValidateForAnyDriver(d, m, driver, inPool, ipsFailed) ==
  Validate(d, m) /\ d \notin inPool

ValidateForDriver(d, m, driver, inPool, ipsFailed) ==
  /\ Validate(d, m)
  /\ d \notin inPool
  /\ d \notin driver.excluded
  /\ driver.exclAddr => ipsFailed

Current == config[k]

\* The configuration of this node, if the pool has one, replaces the general.
Effective(pool) == IF pool.nodes = "this" THEN pool.node ELSE pool

Skipped(pool) == pool.unpriv /\ ~UnprivBpf

SkipPool ==
  /\ phase = "pool"
  /\ k <= Len(config)
  /\ Skipped(Current)
  /\ k' = k + 1
  /\ UNCHANGED <<phase, config, hostVars, entries, drivers, devices, pools>>

(***************************************************************************)
(* The devices the file names.  Only an entry that gives a name is found:  *)
(* the lookup uses the name of the entry and not the one it resolves to.   *)
(***************************************************************************)
Named(pool) ==
  {[slot |-> i, dev |-> pool.devices[i].dev, sec |-> pool.devices[i].sec] :
     i \in {j \in DOMAIN pool.devices : pool.devices[j].by = "name"}}

\* Faulty variant: the devices of the pool before stay on the list.
StartPoolKeeping ==
  /\ phase = "pool"
  /\ k <= Len(config)
  /\ ~Skipped(Current)
  /\ phase' = "drivers"
  /\ entries' = {e \in Named(Effective(Current)) : Validate(e.dev, Current.mode)}
  /\ drivers' = Effective(Current).drivers
  /\ UNCHANGED <<config, hostVars, k, devices, pools>>

StartPool ==
  /\ phase = "pool"
  /\ k <= Len(config)
  /\ ~Skipped(Current)
  /\ phase' = "drivers"
  /\ entries' = {e \in Named(Effective(Current)) : Validate(e.dev, Current.mode)}
  /\ drivers' = Effective(Current).drivers
  /\ devices' = {}
  /\ UNCHANGED <<config, hostVars, k, pools>>

\* Faulty variant: the search stops one device early.
FoundOneFewer(candidates, limit, chosen) ==
  /\ chosen \subseteq candidates
  /\ IF limit = 0 \/ Cardinality(candidates) < limit
     THEN chosen = candidates
     ELSE Cardinality(chosen) = limit - 1

\* Faulty variant: the device that exceeds the limit is the one that breaks.
FoundOneMore(candidates, limit, chosen) ==
  /\ chosen \subseteq candidates
  /\ IF limit = 0 \/ Cardinality(candidates) <= limit
     THEN chosen = candidates
     ELSE Cardinality(chosen) = limit + 1

\* A map is searched, so which devices fill the limit is up to the runtime.
Found(candidates, limit, chosen) ==
  /\ chosen \subseteq candidates
  /\ IF limit = 0 \/ Cardinality(candidates) <= limit
     THEN chosen = candidates
     ELSE Cardinality(chosen) = limit

Candidates(driver, failed) ==
  {d \in hostDevices :
     /\ Facts[d].driver = driver.name
     /\ ValidateForDriver(d, Current.mode, driver, {e.dev : e \in entries},
                          d \in failed)}

SearchDriver ==
  /\ phase = "drivers"
  /\ drivers # <<>>
  /\ LET driver == Head(drivers) IN
     \E failed \in IF IpsMayFail THEN SUBSET hostDevices ELSE {{}} :
     \E chosen \in SUBSET hostDevices :
       /\ Found(Candidates(driver, failed), driver.primary, chosen)
       /\ entries' = entries \cup
            {[slot |-> 0, dev |-> d, sec |-> driver.sec] : d \in chosen}
  /\ drivers' = Tail(drivers)
  /\ UNCHANGED <<phase, config, hostVars, k, devices, pools>>

EndSearch ==
  /\ phase = "drivers"
  /\ drivers = <<>>
  /\ phase' = "assign"
  /\ UNCHANGED <<config, hostVars, poolVars>>

-----------------------------------------------------------------------------
(***************************************************************************)
(* getSecondaryDevices, an entry at a time.  The order does not matter:    *)
(* only entries of one device touch the same state, and what they get      *)
(* together is the same in either order.                                   *)
(***************************************************************************)
AssignAsPrimary(d) ==
  /\ InMode(d, "primary")
  /\ mode' = [mode EXCEPT ![d] = "primary"]
  /\ full' = [full EXCEPT ![d] = TRUE]
  /\ devices' = devices \cup {<<d, 0>>}
  /\ UNCHANGED taken

\* Faulty variant: one subfunction more than a primary can carry.
UnassignedOneOver(d) == (1..SecondaryMax + 1) \ taken[d]

Unassigned(d) == (1..SecondaryMax) \ taken[d]

\* The first "limit" unassigned subfunctions, or all of them.
FirstUnassigned(d, limit) ==
  {i \in Unassigned(d) :
     limit = 0 \/ Cardinality({j \in Unassigned(d) : j < i}) < limit}

\* Faulty variant: the subfunctions handed out are not marked.
AssignCdqUnmarked(d, limit) ==
  /\ Facts[d].driver \in CdqDrivers
  /\ InMode(d, "cdq")
  /\ mode' = [mode EXCEPT ![d] = "cdq"]
  /\ devices' = devices \cup {<<d, i>> : i \in FirstUnassigned(d, limit)}
  /\ UNCHANGED <<full, taken>>

AssignCdqSecondaries(d, limit) ==
  /\ Facts[d].driver \in CdqDrivers
  /\ InMode(d, "cdq")
  /\ mode' = [mode EXCEPT ![d] = "cdq"]
  /\ taken' = [taken EXCEPT ![d] = @ \cup FirstUnassigned(d, limit)]
  /\ devices' = devices \cup {<<d, i>> : i \in FirstUnassigned(d, limit)}
  /\ UNCHANGED full

\* Neither mode check nor driver check lets the device in: it is left out.
Incompatible(d) ==
  \/ ~InMode(d, Current.mode)
  \/ Current.mode = "cdq" /\ Facts[d].driver \notin CdqDrivers

AssignEntry(e) ==
  /\ phase = "assign"
  /\ e \in entries
  /\ entries' = entries \ {e}
  /\ \/ Current.mode = "primary" /\ AssignAsPrimary(e.dev)
     \/ Current.mode = "cdq" /\ AssignCdqSecondaries(e.dev, e.sec)
     \/ Incompatible(e.dev) /\ UNCHANGED <<mode, full, taken, devices>>
  /\ UNCHANGED <<phase, config, hostDevices, k, drivers, pools>>

\* A pool without devices is dropped.
FinishPool ==
  /\ phase = "assign"
  /\ entries = {}
  /\ phase' = "pool"
  /\ k' = k + 1
  /\ pools' = IF devices = {} THEN pools
              ELSE Append(pools, [of |-> k, devices |-> devices])
  /\ UNCHANGED <<config, hostVars, entries, drivers, devices>>

Finish ==
  /\ phase = "pool"
  /\ k > Len(config)
  /\ phase' = "done"
  /\ UNCHANGED <<config, hostVars, poolVars>>

Next ==
  \/ ReadConfigFile \/ DiscoverDevices \/ DiscoverFails
  \/ SkipPool \/ StartPool
  \/ SearchDriver \/ EndSearch
  \/ \E e \in entries : AssignEntry(e)
  \/ FinishPool \/ Finish

Spec == Init /\ [][Next]_vars

-----------------------------------------------------------------------------
\* The variables stay in their types.
TypeOK ==
  /\ phase \in {"read", "discover", "pool", "drivers", "assign", "done", "failed"}
  /\ config \in Configs
  /\ hostDevices \in SUBSET Hosts
  /\ mode \in [Hosts -> Modes \cup {"none"}]
  /\ full \in [Hosts -> BOOLEAN]
  /\ taken \in [Hosts -> SUBSET (1..SecondaryMax)]
  /\ k \in Nat
  /\ phase \in {"pool", "drivers", "assign"} => k > 0
  /\ phase \in {"drivers", "assign"} => k \in DOMAIN config
  /\ entries \subseteq Entry
  /\ drivers \in Seq(ConfigDriver)
  /\ devices \subseteq Device
  /\ pools \in Seq(KeptPool)

(***************************************************************************)
(* No network device is handed to two pools, and one that a pool has as a  *)
(* whole is in no pool as subfunctions: two pods of different pools never  *)
(* get the same queues.                                                    *)
(***************************************************************************)
NoSharedDevice ==
  \A i, j \in DOMAIN pools : \A a \in pools[i].devices, b \in pools[j].devices :
    a[1] = b[1] /\ (a[2] = 0 \/ b[2] = 0 \/ a[2] = b[2]) => i = j /\ a = b

(***************************************************************************)
(* A device that the pool does not name is in it only if a driver of the   *)
(* pool is its driver and does not exclude it.                             *)
(***************************************************************************)
Primaries(devs) == {a[1] : a \in devs}

NamedDevices(source) == {e.dev : e \in Named(source)}

ExcludedStaysOut ==
  \A i \in DOMAIN pools :
    LET source == Effective(config[pools[i].of]) IN
    \A d \in Primaries(pools[i].devices) \ NamedDevices(source) :
      \E n \in DOMAIN source.drivers :
        source.drivers[n].name = Facts[d].driver /\ d \notin source.drivers[n].excluded

(***************************************************************************)
(* Whatever a pool got by its drivers can be put down to them so that each *)
(* primary is of its driver and no driver has more than its limit (README: *)
(* "the maximum number of primary devices this pool will take, per node"), *)
(* also when the same driver is listed twice.                              *)
(***************************************************************************)
LimitRespected ==
  \A i \in DOMAIN pools :
    LET source == Effective(config[pools[i].of])
        found == Primaries(pools[i].devices) \ NamedDevices(source)
    IN \E by \in [found -> DOMAIN source.drivers] :
         \A n \in DOMAIN source.drivers :
           LET its == {d \in found : by[d] = n} IN
           /\ \A d \in its : Facts[d].driver = source.drivers[n].name
           /\ \/ source.drivers[n].primary = 0
              \/ Cardinality(its) <= source.drivers[n].primary

(***************************************************************************)
(* A driver's limit is filled "where available" (README): when a pool is   *)
(* finished, either the pool has as many primaries of the driver as the    *)
(* limit asks for, or no device is left that the driver may take and that  *)
(* the mode of the pool can use.                                           *)
(***************************************************************************)
FreeFor(d, m) ==
  /\ InMode(d, m)
  /\ ~full[d]
  /\ m = "cdq" => Facts[d].driver \in CdqDrivers /\ Unassigned(d) # {}

Filled(driver) ==
  LET ofDriver(d) == Facts[d].driver = driver.name
      has == {d \in Primaries(devices) : ofDriver(d)}
      left == {d \in hostDevices \ has : /\ ofDriver(d)
                                         /\ d \notin driver.excluded
                                         /\ FreeFor(d, Current.mode)}
  IN left = {} \/ (driver.primary > 0 /\ Cardinality(has) >= driver.primary)

EndsPool == phase = "assign" /\ phase' = "pool"

CurrentDrivers ==
  LET source == Effective(Current)
  IN {source.drivers[n] : n \in DOMAIN source.drivers}

\* It is so for pools of whole devices whose drivers take addressed devices.
PrimaryFilled ==
  [][EndsPool /\ Current.mode = "primary" =>
       \A driver \in CurrentDrivers : driver.exclAddr \/ Filled(driver)]_vars

\* It is so for pools of subfunctions (README: "two ice devices per node").
CdqFilled ==
  [][EndsPool /\ Current.mode = "cdq" =>
       \A driver \in CurrentDrivers : driver.exclAddr \/ Filled(driver)]_vars

(***************************************************************************)
(* A device that the pool lists, on this host, free and in a mode the pool *)
(* can use when the pool starts, gets an entry, however it is identified   *)
(* (README: "Name, MAC and PCI").                                          *)
(***************************************************************************)
ListedDeviceTaken ==
  [][phase = "pool" /\ phase' = "drivers" =>
       LET listed == Effective(Current).devices IN
       \A n \in DOMAIN listed :
         Validate(listed[n].dev, Current.mode) =>
           \E e \in entries' : e.slot = n]_vars

(***************************************************************************)
(* GetPoolConfigs shares out the devices as DeviceShares has it: pools in  *)
(* turn, each share once, whole devices apart from divided ones, and what  *)
(* a pool was given stays with it until the pools are returned.            *)
(***************************************************************************)
Kept   == UNION {{pools[i].of} \X pools[i].devices : i \in DOMAIN pools}
InHand == IF phase = "assign" THEN {k} \X devices ELSE {}

Shares == INSTANCE DeviceShares WITH
  Parts <- 1..SecondaryMax, turn <- k, given <- Kept \cup InHand

ImplementsDeviceShares == Shares!Spec
=============================================================================
