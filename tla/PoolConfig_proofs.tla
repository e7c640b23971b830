-------------------------- MODULE PoolConfig_proofs --------------------------
(***************************************************************************)
(* Proofs about PoolConfig, for any host, any config file and any limits:  *)
(* its variables keep their types, no network device is handed out twice,  *)
(* a pool has only devices it names or one of its drivers may take, and    *)
(* all steps together share out the devices as DeviceShares has it.        *)
(*                                                                         *)
(* The second is not inductive by itself.  What keeps the pools apart are  *)
(* the marks on the host devices: whatever a pool was given is marked, as  *)
(* a primary or as a subfunction, and a pool only ever takes what is not.  *)
(***************************************************************************)
EXTENDS PoolConfig, TLAPS

\* Host device a[1] bears the marks of a having been handed out.
Marked(a) ==
  IF a[2] = 0 THEN mode[a[1]] = "primary" /\ full[a[1]]
              ELSE mode[a[1]] = "cdq" /\ a[2] \in taken[a[1]]

PoolsMarked   == \A i \in DOMAIN pools : \A a \in pools[i].devices : Marked(a)
PoolsApart    == \A i, j \in DOMAIN pools :
                   i # j => pools[i].devices \cap pools[j].devices = {}
CurrentMarked == phase = "assign" => \A a \in devices : Marked(a)
CurrentApart  == phase = "assign" =>
                   \A i \in DOMAIN pools : pools[i].devices \cap devices = {}
EntriesFree   == phase \in {"drivers", "assign"} =>
                   \A i \in DOMAIN pools : \A e \in entries :
                     <<e.dev, 0>> \notin pools[i].devices
SearchEmpty   == phase = "drivers" => devices = {}

IInv == /\ TypeOK
        /\ PoolsMarked /\ PoolsApart
        /\ CurrentMarked /\ CurrentApart
        /\ EntriesFree /\ SearchEmpty

-----------------------------------------------------------------------------
\* The pool being worked on is one of the file's, and so are its parts.
LEMMA CurrentType ==
  ASSUME TypeOK, k \in DOMAIN config
  PROVE  /\ Current \in Pool
         /\ Effective(Current).devices \in Seq(ConfigDevice)
         /\ Effective(Current).drivers \in Seq(ConfigDriver)
<1>1. config \in Seq(Pool)
  BY PoolAssumption DEF TypeOK
<1>2. Current \in Pool
  BY <1>1 DEF Current
<1>3. /\ Current.devices \in Seq(ConfigDevice) /\ Current.drivers \in Seq(ConfigDriver)
      /\ Current.node \in Node
  BY <1>2 DEF Pool
<1>4. /\ Current.node.devices \in Seq(ConfigDevice)
      /\ Current.node.drivers \in Seq(ConfigDriver)
  BY <1>3 DEF Node
<1> QED
  BY <1>2, <1>3, <1>4 DEF Effective

\* What the file names becomes entries of the right form.
LEMMA NamedType ==
  ASSUME TypeOK, k \in DOMAIN config
  PROVE  Named(Effective(Current)) \subseteq Entry
<1> DEFINE devs == Effective(Current).devices
<1>1. devs \in Seq(ConfigDevice)
  BY CurrentType
<1> HIDE DEF devs
<1>2. ASSUME NEW i \in DOMAIN devs
      PROVE  i \in Nat /\ devs[i].dev \in Hosts /\ devs[i].sec \in Nat
  <2>1. i \in Nat /\ devs[i] \in ConfigDevice
    BY <1>1
  <2> QED
    BY <2>1 DEF ConfigDevice
<1>3. ASSUME NEW i \in DOMAIN devs
      PROVE  [slot |-> i, dev |-> devs[i].dev, sec |-> devs[i].sec] \in Entry
  BY <1>2 DEF Entry
<1> QED
  BY <1>3 DEF Named, devs

\* The subfunctions an entry gets are new ones of its primary.
LEMMA FirstUnassignedNew ==
  ASSUME NEW d, NEW limit
  PROVE  /\ FirstUnassigned(d, limit) \subseteq 1..SecondaryMax
         /\ FirstUnassigned(d, limit) \cap taken[d] = {}
BY DEF FirstUnassigned, Unassigned

-----------------------------------------------------------------------------
\* The initial states have the types.
LEMMA TypeInit == Init => TypeOK
<1> SUFFICES ASSUME Init PROVE TypeOK
  OBVIOUS
<1> QED
  BY DEF Init, TypeOK, Modes

\* A step keeps the types.
LEMMA TypeStep == TypeOK /\ [Next]_vars => TypeOK'
<1> SUFFICES ASSUME TypeOK, [Next]_vars PROVE TypeOK'
  OBVIOUS
<1> USE DEF TypeOK
<1>1. CASE ReadConfigFile
  BY <1>1 DEF ReadConfigFile, hostVars, poolVars
<1>2. CASE DiscoverDevices
  BY <1>2 DEF DiscoverDevices
<1>3. CASE DiscoverFails
  BY <1>3 DEF DiscoverFails, hostVars, poolVars
<1>4. CASE SkipPool
  BY <1>4 DEF SkipPool, hostVars
<1>5. CASE StartPool
  <2>1. k \in DOMAIN config
    <3>1. config \in Seq(Pool)
      BY PoolAssumption
    <3> QED
      BY <1>5, <3>1 DEF StartPool
  <2>2. entries' \subseteq Entry
    BY <1>5, <2>1, NamedType DEF StartPool
  <2>3. drivers' \in Seq(ConfigDriver)
    BY <1>5, <2>1, CurrentType DEF StartPool
  <2> QED
    BY <1>5, <2>1, <2>2, <2>3 DEF StartPool, hostVars
<1>6. CASE SearchDriver
  <2>1. Head(drivers) \in ConfigDriver /\ Tail(drivers) \in Seq(ConfigDriver)
    BY <1>6 DEF SearchDriver
  <2>2. entries' \subseteq Entry
    BY <1>6, <2>1 DEF SearchDriver, ConfigDriver, Entry
  <2> QED
    BY <1>6, <2>1, <2>2 DEF SearchDriver, hostVars
<1>7. CASE EndSearch
  BY <1>7 DEF EndSearch, hostVars, poolVars
<1>8. ASSUME NEW e \in entries, AssignEntry(e) PROVE TypeOK'
  <2> DEFINE d == e.dev
  <2>1. d \in Hosts /\ SecondaryMax \in Nat
    BY PoolAssumption DEF Entry
  <2>2. CASE Current.mode = "primary" /\ AssignAsPrimary(d)
    <3>1. <<d, 0>> \in Device
      BY <2>1 DEF Device
    <3> QED
      BY <1>8, <2>1, <2>2, <3>1 DEF AssignEntry, AssignAsPrimary, Modes
  <2>3. CASE Current.mode = "cdq" /\ AssignCdqSecondaries(d, e.sec)
    <3>1. devices' \subseteq Device
      BY <2>1, <2>3, FirstUnassignedNew DEF AssignCdqSecondaries, Device
    <3>2. taken' \in [Hosts -> SUBSET (1..SecondaryMax)]
      BY <2>1, <2>3, FirstUnassignedNew DEF AssignCdqSecondaries
    <3> QED
      BY <1>8, <2>1, <2>3, <3>1, <3>2 DEF AssignEntry, AssignCdqSecondaries, Modes
  <2>4. CASE UNCHANGED <<mode, full, taken, devices>>
    BY <1>8, <2>4 DEF AssignEntry
  <2> QED
    BY <1>8, <2>2, <2>3, <2>4 DEF AssignEntry
<1>9. CASE FinishPool
  <2>1. [of |-> k, devices |-> devices] \in KeptPool
    BY DEF KeptPool
  <2>2. pools' \in Seq(KeptPool)
    BY <1>9, <2>1 DEF FinishPool
  <2> QED
    BY <1>9, <2>2 DEF FinishPool, hostVars
<1>10. CASE Finish
  BY <1>10 DEF Finish, hostVars, poolVars
<1>11. CASE UNCHANGED vars
  BY <1>11 DEF vars
<1> QED
  BY <1>1, <1>2, <1>3, <1>4, <1>5, <1>6, <1>7, <1>8, <1>9, <1>10, <1>11 DEF Next

(***************************************************************************)
(* Every variable keeps its type: no subfunction number beyond the maximum *)
(* is handed out and no pool outside the file is worked on.                *)
(***************************************************************************)
THEOREM TypeCorrect == Spec => []TypeOK
<1>1. Init => TypeOK
  BY TypeInit
<1>2. TypeOK /\ [Next]_vars => TypeOK'
  BY TypeStep
<1> QED
  BY <1>1, <1>2, PTL DEF Spec

-----------------------------------------------------------------------------
\* The pools hold devices.
LEMMA PoolDevices ==
  ASSUME TypeOK, NEW i \in DOMAIN pools, NEW a \in pools[i].devices
  PROVE  a \in Device
<1>1. pools[i] \in KeptPool
  BY DEF TypeOK
<1> QED
  BY <1>1 DEF KeptPool

\* Marks that were left stay, and what is marked shares nothing new.
LEMMA MarksStay ==
  ASSUME TypeOK, NEW d \in Hosts, NEW limit, NEW a \in Device, Marked(a),
         AssignAsPrimary(d) \/ AssignCdqSecondaries(d, limit)
  PROVE  Marked(a)'
<1>1. a[1] \in Hosts
  BY DEF Device
<1>2. CASE AssignAsPrimary(d)
  BY <1>1, <1>2 DEF AssignAsPrimary, InMode, Marked, TypeOK
<1>3. CASE AssignCdqSecondaries(d, limit)
  BY <1>1, <1>3 DEF AssignCdqSecondaries, InMode, Marked, TypeOK
<1> QED
  BY <1>2, <1>3

\* What an assignment adds to the pool is marked.
LEMMA NewMarked ==
  ASSUME TypeOK, NEW d \in Hosts, NEW limit,
         AssignAsPrimary(d) \/ AssignCdqSecondaries(d, limit),
         NEW a \in devices' \ devices
  PROVE  Marked(a)'
<1>1. CASE AssignAsPrimary(d)
  BY <1>1 DEF AssignAsPrimary, Marked, TypeOK
<1>2. CASE AssignCdqSecondaries(d, limit)
  <2>1. PICK i \in FirstUnassigned(d, limit) : a = <<d, i>>
    BY <1>2 DEF AssignCdqSecondaries
  <2>2. i \in 1..SecondaryMax /\ i # 0
    BY <2>1, FirstUnassignedNew, PoolAssumption
  <2> QED
    BY <1>2, <2>1, <2>2 DEF AssignCdqSecondaries, Marked, TypeOK
<1> QED
  BY <1>1, <1>2

\* What an assignment adds to the pool was marked by no earlier one, unless
\* it is the whole of a device.
LEMMA NewUnmarked ==
  ASSUME TypeOK, NEW d \in Hosts, NEW limit,
         AssignAsPrimary(d) \/ AssignCdqSecondaries(d, limit),
         NEW a \in devices' \ devices
  PROVE  a = <<d, 0>> \/ ~Marked(a)
<1>1. CASE AssignAsPrimary(d)
  BY <1>1 DEF AssignAsPrimary
<1>2. CASE AssignCdqSecondaries(d, limit)
  <2>1. PICK i \in FirstUnassigned(d, limit) : a = <<d, i>>
    BY <1>2 DEF AssignCdqSecondaries
  <2>2. i # 0 /\ i \notin taken[d]
    BY <2>1, FirstUnassignedNew, PoolAssumption
  <2> QED
    BY <2>1, <2>2 DEF Marked
<1> QED
  BY <1>1, <1>2

\* The invariant holds at the start.
LEMMA SharingInit == Init => IInv
<1> SUFFICES ASSUME Init PROVE IInv
  OBVIOUS
<1>1. TypeOK
  BY TypeInit
<1> QED
  BY <1>1 DEF Init, IInv, PoolsMarked, PoolsApart, CurrentMarked, CurrentApart,
              EntriesFree, SearchEmpty

\* A new entry is of a device that no pool has as a whole.
LEMMA ValidFree ==
  ASSUME PoolsMarked, NEW d, NEW m, Validate(d, m), NEW i \in DOMAIN pools
  PROVE  <<d, 0>> \notin pools[i].devices
BY DEF PoolsMarked, Marked, Validate

\* A step preserves the invariant.
LEMMA SharingStep == IInv /\ [Next]_vars => IInv'
<1> SUFFICES ASSUME IInv, [Next]_vars PROVE IInv'
  OBVIOUS
<1>0. TypeOK /\ TypeOK'
  BY TypeStep DEF IInv
<1> DEFINE Rest == /\ PoolsMarked /\ PoolsApart /\ CurrentMarked
                   /\ CurrentApart /\ EntriesFree /\ SearchEmpty
<1> SUFFICES Rest'
  BY <1>0 DEF IInv
<1>a. Rest
  BY DEF IInv
\* Steps that leave the marks and the pools alone and are not assigning.
<1>b. ASSUME UNCHANGED <<mode, full, taken, pools>>, phase' # "assign",
             phase' = "drivers" => devices' = {},
             EntriesFree'
      PROVE  Rest'
  BY <1>a, <1>b DEF PoolsMarked, PoolsApart, CurrentMarked, CurrentApart,
                    SearchEmpty, Marked
<1>1. CASE ReadConfigFile
  <2>1. UNCHANGED <<mode, full, taken, pools>> /\ phase' \in {"discover", "failed"}
    BY <1>1 DEF ReadConfigFile, hostVars, poolVars
  <2> QED
    BY <1>b, <2>1 DEF EntriesFree
<1>2. CASE DiscoverDevices \/ DiscoverFails
  <2>1. UNCHANGED <<mode, full, taken, pools>> /\ phase' \in {"pool", "failed"}
    BY <1>2 DEF DiscoverDevices, DiscoverFails, hostVars, poolVars
  <2> QED
    BY <1>b, <2>1 DEF EntriesFree
<1>3. CASE SkipPool \/ Finish
  <2>1. UNCHANGED <<mode, full, taken, pools>> /\ phase' \in {"pool", "done"}
    BY <1>3 DEF SkipPool, Finish, hostVars, poolVars
  <2> QED
    BY <1>b, <2>1 DEF EntriesFree
<1>4. CASE StartPool
  <2>1. \A i \in DOMAIN pools : \A e \in entries' : <<e.dev, 0>> \notin pools[i].devices
    <3>1. \A e \in entries' : Validate(e.dev, Current.mode)
      BY <1>4 DEF StartPool
    <3> QED
      BY <1>a, <3>1, ValidFree
  <2>2. /\ UNCHANGED <<mode, full, taken, pools>>
        /\ phase' = "drivers" /\ devices' = {}
    BY <1>4 DEF StartPool, hostVars
  <2> QED
    BY <1>b, <2>1, <2>2 DEF EntriesFree
<1>5. CASE SearchDriver
  <2>1. \A i \in DOMAIN pools : \A e \in entries' : <<e.dev, 0>> \notin pools[i].devices
    <3>1. \A i \in DOMAIN pools : \A e \in entries : <<e.dev, 0>> \notin pools[i].devices
      BY <1>5, <1>a DEF SearchDriver, EntriesFree
    <3>2. \A e \in entries' \ entries : Validate(e.dev, Current.mode)
      <4>1. PICK failed, chosen \in SUBSET hostDevices :
              /\ Found(Candidates(Head(drivers), failed), Head(drivers).primary, chosen)
              /\ entries' = entries \cup
                   {[slot |-> 0, dev |-> d, sec |-> Head(drivers).sec] : d \in chosen}
        BY <1>5 DEF SearchDriver
      <4>2. chosen \subseteq Candidates(Head(drivers), failed)
        BY <4>1 DEF Found
      <4>3. \A d \in chosen : Validate(d, Current.mode)
        BY <4>2 DEF Candidates, ValidateForDriver
      <4> QED
        BY <4>1, <4>3
    <3> QED
      BY <1>a, <3>1, <3>2, ValidFree
  <2>2. /\ UNCHANGED <<mode, full, taken, pools>>
        /\ phase' = "drivers" /\ devices' = {}
    BY <1>5, <1>a DEF SearchDriver, hostVars, SearchEmpty
  <2> QED
    BY <1>b, <2>1, <2>2 DEF EntriesFree
<1>6. CASE EndSearch
  <2>1. /\ UNCHANGED <<mode, full, taken, pools, entries, devices>>
        /\ phase = "drivers" /\ phase' = "assign"
    BY <1>6 DEF EndSearch, hostVars, poolVars
  <2>2. devices' = {}
    BY <1>a, <2>1 DEF SearchEmpty
  <2> QED
    BY <1>a, <2>1, <2>2 DEF PoolsMarked, PoolsApart, CurrentMarked, CurrentApart,
                            EntriesFree, SearchEmpty, Marked
<1>7. ASSUME NEW e \in entries, AssignEntry(e) PROVE Rest'
  <2> DEFINE d == e.dev
  <2>1. d \in Hosts
    BY <1>0 DEF TypeOK, Entry
  <2>2. /\ phase = "assign" /\ phase' = "assign"
        /\ entries' \subseteq entries /\ pools' = pools
    BY <1>7 DEF AssignEntry
  <2>3. EntriesFree' /\ SearchEmpty' /\ PoolsApart'
    BY <1>a, <2>2 DEF EntriesFree, SearchEmpty, PoolsApart
  <2>4. CASE AssignAsPrimary(d) \/ AssignCdqSecondaries(d, e.sec)
    <3>1. PoolsMarked'
      <4> SUFFICES ASSUME NEW i \in DOMAIN pools, NEW a \in pools[i].devices
                   PROVE  Marked(a)'
        BY <2>2 DEF PoolsMarked
      <4>1. a \in Device /\ Marked(a)
        BY <1>0, <1>a, PoolDevices DEF PoolsMarked
      <4> QED
        BY <1>0, <2>1, <2>4, <4>1, MarksStay
    <3>2. CurrentMarked'
      <4> SUFFICES ASSUME NEW a \in devices' PROVE Marked(a)'
        BY DEF CurrentMarked
      <4>1. CASE a \in devices
        <5>1. a \in Device /\ Marked(a)
          BY <1>0, <1>a, <2>2, <4>1 DEF TypeOK, CurrentMarked
        <5> QED
          BY <1>0, <2>1, <2>4, <5>1, MarksStay
      <4>2. CASE a \notin devices
        BY <1>0, <2>1, <2>4, <4>2, NewMarked
      <4> QED
        BY <4>1, <4>2
    <3>3. CurrentApart'
      <4> SUFFICES ASSUME NEW i \in DOMAIN pools, NEW a \in pools[i].devices,
                          a \in devices'
                   PROVE  FALSE
        BY <2>2 DEF CurrentApart
      <4>1. a \notin devices
        BY <1>a, <2>2 DEF CurrentApart
      <4>2. Marked(a)
        BY <1>a DEF PoolsMarked
      <4>3. a = <<d, 0>>
        BY <1>0, <2>1, <2>4, <4>1, <4>2, NewUnmarked
      <4> QED
        BY <1>a, <2>2, <4>3 DEF EntriesFree
    <3> QED
      BY <2>3, <3>1, <3>2, <3>3
  <2>5. CASE UNCHANGED <<mode, full, taken, devices>>
    BY <1>a, <2>2, <2>3, <2>5 DEF PoolsMarked, CurrentMarked, CurrentApart, Marked
  <2> QED
    BY <1>7, <2>4, <2>5 DEF AssignEntry
<1>8. CASE FinishPool
  <2>1. phase = "assign" /\ phase' = "pool" /\ UNCHANGED <<mode, full, taken>>
    BY <1>8 DEF FinishPool, hostVars
  <2>2. EntriesFree' /\ SearchEmpty' /\ CurrentMarked' /\ CurrentApart'
    BY <2>1 DEF EntriesFree, SearchEmpty, CurrentMarked, CurrentApart
  <2>3. CASE pools' = pools
    BY <1>a, <2>1, <2>2, <2>3 DEF PoolsMarked, PoolsApart, Marked
  <2>4. CASE pools' = Append(pools, [of |-> k, devices |-> devices])
    <3>1. /\ DOMAIN pools' = 1..Len(pools) + 1 /\ DOMAIN pools = 1..Len(pools)
          /\ Len(pools) \in Nat
          /\ \A i \in DOMAIN pools : pools'[i] = pools[i]
          /\ pools'[Len(pools) + 1].devices = devices
      BY <1>0, <2>4 DEF TypeOK
    <3>2. PoolsMarked'
      BY <1>a, <2>1, <3>1 DEF PoolsMarked, CurrentMarked, Marked
    <3>3. PoolsApart'
      BY <1>a, <2>1, <3>1 DEF PoolsApart, CurrentApart
    <3> QED
      BY <2>2, <3>2, <3>3
  <2> QED
    BY <1>8, <2>3, <2>4 DEF FinishPool
<1>9. CASE UNCHANGED vars
  BY <1>a, <1>9 DEF vars, PoolsMarked, PoolsApart, CurrentMarked, CurrentApart,
                    EntriesFree, SearchEmpty, Marked
<1> QED
  BY <1>1, <1>2, <1>3, <1>4, <1>5, <1>6, <1>7, <1>8, <1>9 DEF Next

\* The marks make what is shared the same, and the pools apart.
LEMMA SharingFollows == IInv => NoSharedDevice
<1> SUFFICES ASSUME IInv, NEW i \in DOMAIN pools, NEW j \in DOMAIN pools,
                    NEW a \in pools[i].devices, NEW b \in pools[j].devices,
                    a[1] = b[1], a[2] = 0 \/ b[2] = 0 \/ a[2] = b[2]
             PROVE  i = j /\ a = b
  BY DEF NoSharedDevice
<1>1. a \in Device /\ b \in Device
  BY PoolDevices DEF IInv
<1>2. Marked(a) /\ Marked(b)
  BY DEF IInv, PoolsMarked
<1>3. a[2] = b[2]
  BY <1>2 DEF Marked
<1>4. a = b
  BY <1>1, <1>3 DEF Device
<1> QED
  BY <1>4 DEF IInv, PoolsApart

(***************************************************************************)
(* No network device is handed to two pools, whole or in part, whatever    *)
(* the host and the config file (GetPoolConfigs with the assignment marks  *)
(* of device.go).                                                          *)
(***************************************************************************)
THEOREM NothingShared == Spec => []NoSharedDevice
<1>1. Init => IInv
  BY SharingInit
<1>2. IInv /\ [Next]_vars => IInv'
  BY SharingStep
<1>3. IInv => NoSharedDevice
  BY SharingFollows
<1> QED
  BY <1>1, <1>2, <1>3, PTL DEF Spec

-----------------------------------------------------------------------------
\* The pool with this configuration may have device d.
Justified(d, source) ==
  \/ d \in NamedDevices(source)
  \/ \E n \in DOMAIN source.drivers :
       /\ source.drivers[n].name = Facts[d].driver
       /\ d \notin source.drivers[n].excluded

Source == Effective(Current)

DriversLeft      == phase = "drivers" =>
                      \A n \in DOMAIN drivers : \E l \in DOMAIN Source.drivers :
                        Source.drivers[l] = drivers[n]
EntriesJustified == phase \in {"drivers", "assign"} =>
                      \A e \in entries : Justified(e.dev, Source)
CurrentJustified == phase \in {"drivers", "assign"} =>
                      \A a \in devices : Justified(a[1], Source)
PoolsJustified   == \A i \in DOMAIN pools : \A a \in pools[i].devices :
                      Justified(a[1], Effective(config[pools[i].of]))

JInv == DriversLeft /\ EntriesJustified /\ CurrentJustified /\ PoolsJustified

\* A step between pools, or before and after all of them, keeps what is kept.
LEMMA JustifiedBetween ==
  ASSUME JInv, UNCHANGED <<config, pools>>, phase' \notin {"drivers", "assign"}
  PROVE  JInv'
BY DEF JInv, DriversLeft, EntriesJustified, CurrentJustified, PoolsJustified

\* Finished pools stay as justified as they were.
LEMMA PoolsStayJustified ==
  ASSUME PoolsJustified, UNCHANGED <<config, pools>>
  PROVE  PoolsJustified'
BY DEF PoolsJustified

\* A step within a pool brings it only devices it may have.
LEMMA JustifiedWithin ==
  ASSUME JInv, UNCHANGED <<config, k, pools>>, phase' \in {"drivers", "assign"},
         DriversLeft',
         \A e \in entries' : Justified(e.dev, Source),
         \A a \in devices' : Justified(a[1], Source)
  PROVE  JInv'
<1>1. Source' = Source
  BY DEF Source, Current, Effective
<1>2. EntriesJustified' /\ CurrentJustified'
  BY <1>1 DEF EntriesJustified, CurrentJustified
<1>3. PoolsJustified'
  BY PoolsStayJustified DEF JInv
<1> QED
  BY <1>2, <1>3 DEF JInv

\* A step keeps every device justified.
LEMMA JustifiedStep == TypeOK /\ JInv /\ [Next]_vars => JInv'
<1> SUFFICES ASSUME TypeOK, JInv, [Next]_vars PROVE JInv'
  OBVIOUS
<1>1. CASE ReadConfigFile \/ DiscoverDevices \/ DiscoverFails \/ SkipPool \/ Finish
  <2>1. UNCHANGED <<config, pools>> /\ phase' \notin {"drivers", "assign"}
    BY <1>1 DEF ReadConfigFile, DiscoverDevices, DiscoverFails, SkipPool, Finish,
                hostVars, poolVars
  <2> QED
    BY <2>1, JustifiedBetween
<1>2. CASE StartPool
  <2>1. UNCHANGED <<config, k, pools>> /\ phase' = "drivers" /\ devices' = {}
    BY <1>2 DEF StartPool, hostVars
  <2>2. entries' \subseteq Named(Source) /\ drivers' = Source.drivers
    BY <1>2 DEF StartPool, Source
  <2>3. \A e \in entries' : Justified(e.dev, Source)
    BY <2>2 DEF Justified, NamedDevices
  <2>4. Source' = Source
    BY <2>1 DEF Source, Current, Effective
  <2>5. DriversLeft'
    BY <2>2, <2>4 DEF DriversLeft
  <2> QED
    BY <2>1, <2>3, <2>5, JustifiedWithin
<1>3. CASE SearchDriver
  <2>1. UNCHANGED <<config, k, pools, devices>> /\ phase = "drivers" /\ phase' = "drivers"
    BY <1>3 DEF SearchDriver, hostVars
  <2>2. /\ drivers \in Seq(ConfigDriver) /\ drivers # <<>> /\ drivers' = Tail(drivers)
    BY <1>3 DEF SearchDriver, TypeOK
  <2>3. /\ 1 \in DOMAIN drivers /\ Head(drivers) = drivers[1]
        /\ \A n \in DOMAIN Tail(drivers) :
             n + 1 \in DOMAIN drivers /\ Tail(drivers)[n] = drivers[n + 1]
    BY <2>2
  <2>4. Source' = Source
    BY <2>1 DEF Source, Current, Effective
  <2>5. DriversLeft'
    BY <2>1, <2>2, <2>3, <2>4 DEF JInv, DriversLeft
  <2>6. PICK l \in DOMAIN Source.drivers : Source.drivers[l] = Head(drivers)
    BY <2>1, <2>3 DEF JInv, DriversLeft
  <2>7. PICK failed, chosen \in SUBSET hostDevices :
          /\ Found(Candidates(Head(drivers), failed), Head(drivers).primary, chosen)
          /\ entries' = entries \cup
               {[slot |-> 0, dev |-> d, sec |-> Head(drivers).sec] : d \in chosen}
    BY <1>3 DEF SearchDriver
  <2>8. \A d \in chosen : Facts[d].driver = Head(drivers).name
                          /\ d \notin Head(drivers).excluded
    BY <2>7 DEF Found, Candidates, ValidateForDriver
  <2>9. \A d \in chosen : Justified(d, Source)
    BY <2>6, <2>8 DEF Justified
  <2>10. \A e \in entries' : Justified(e.dev, Source)
    BY <2>1, <2>7, <2>9 DEF JInv, EntriesJustified
  <2>11. \A a \in devices' : Justified(a[1], Source)
    BY <2>1 DEF JInv, CurrentJustified
  <2> QED
    BY <2>1, <2>5, <2>10, <2>11, JustifiedWithin
<1>4. CASE EndSearch
  <2>1. /\ UNCHANGED <<config, k, pools, entries, devices>>
        /\ phase = "drivers" /\ phase' = "assign"
    BY <1>4 DEF EndSearch, hostVars, poolVars
  <2>2. /\ \A e \in entries' : Justified(e.dev, Source)
        /\ \A a \in devices' : Justified(a[1], Source)
    BY <2>1 DEF JInv, EntriesJustified, CurrentJustified
  <2>3. DriversLeft'
    BY <2>1 DEF DriversLeft
  <2> QED
    BY <2>1, <2>2, <2>3, JustifiedWithin
<1>5. ASSUME NEW e \in entries, AssignEntry(e) PROVE JInv'
  <2>1. /\ UNCHANGED <<config, k, pools>> /\ phase = "assign" /\ phase' = "assign"
        /\ entries' \subseteq entries
    BY <1>5 DEF AssignEntry
  <2>2. \A a \in devices' : a \in devices \/ a[1] = e.dev
    BY <1>5 DEF AssignEntry, AssignAsPrimary, AssignCdqSecondaries
  <2>3. /\ \A f \in entries : Justified(f.dev, Source)
        /\ \A a \in devices : Justified(a[1], Source)
    BY <2>1 DEF JInv, EntriesJustified, CurrentJustified
  <2>4. DriversLeft'
    BY <2>1 DEF DriversLeft
  <2> QED
    BY <2>1, <2>2, <2>3, <2>4, JustifiedWithin
<1>6. CASE FinishPool
  <2>1. phase = "assign" /\ phase' = "pool" /\ config' = config
    BY <1>6 DEF FinishPool
  <2>2. CASE pools' = pools
    BY <2>1, <2>2, JustifiedBetween
  <2>3. CASE pools' = Append(pools, [of |-> k, devices |-> devices])
    <3>1. /\ DOMAIN pools' = 1..Len(pools) + 1 /\ DOMAIN pools = 1..Len(pools)
          /\ Len(pools) \in Nat
          /\ \A i \in DOMAIN pools : pools'[i] = pools[i]
          /\ pools'[Len(pools) + 1].devices = devices
          /\ pools'[Len(pools) + 1].of = k
      BY <2>3 DEF TypeOK
    <3>2. \A a \in devices : Justified(a[1], Effective(config[k]))
      BY <2>1 DEF JInv, CurrentJustified, Source, Current
    <3>3. \A i \in DOMAIN pools' : \A a \in pools'[i].devices :
            Justified(a[1], Effective(config[pools'[i].of]))
      <4> TAKE i \in DOMAIN pools'
      <4>1. CASE i \in DOMAIN pools
        BY <3>1, <4>1 DEF JInv, PoolsJustified
      <4>2. CASE i = Len(pools) + 1
        BY <3>1, <3>2, <4>2
      <4> QED
        BY <3>1, <4>1, <4>2
    <3>4. PoolsJustified'
      BY <2>1, <3>3 DEF PoolsJustified
    <3> QED
      BY <2>1, <3>4 DEF JInv, DriversLeft, EntriesJustified, CurrentJustified
  <2> QED
    BY <1>6, <2>2, <2>3 DEF FinishPool
<1>7. CASE UNCHANGED vars
  <2>1. UNCHANGED <<phase, config, k, entries, drivers, devices, pools>>
    BY <1>7 DEF vars
  <2>2. CASE phase \in {"drivers", "assign"}
    <3>1. Source' = Source
      BY <2>1 DEF Source, Current, Effective
    <3>2. DriversLeft'
      BY <2>1, <3>1 DEF JInv, DriversLeft
    <3>3. /\ \A e \in entries' : Justified(e.dev, Source)
          /\ \A a \in devices' : Justified(a[1], Source)
      BY <2>1, <2>2 DEF JInv, EntriesJustified, CurrentJustified
    <3> QED
      BY <2>1, <2>2, <3>2, <3>3, JustifiedWithin
  <2>3. CASE phase \notin {"drivers", "assign"}
    BY <2>1, <2>3, JustifiedBetween
  <2> QED
    BY <2>2, <2>3
<1> QED
  BY <1>1, <1>2, <1>3, <1>4, <1>5, <1>6, <1>7 DEF Next

(***************************************************************************)
(* A device that a pool does not name came by a driver that is the         *)
(* device's and does not exclude it, whichever pools and drivers are       *)
(* worked through before (validateDevice, GetPoolConfigs).                 *)
(***************************************************************************)
THEOREM ExclusionSafety == Spec => []ExcludedStaysOut
<1>1. Init => JInv
  BY DEF Init, JInv, DriversLeft, EntriesJustified, CurrentJustified, PoolsJustified
<1>2. JInv => ExcludedStaysOut
  BY DEF JInv, PoolsJustified, Justified, ExcludedStaysOut, Primaries
<1> QED
  BY <1>1, <1>2, JustifiedStep, TypeCorrect, PTL DEF Spec

-----------------------------------------------------------------------------
\* What has been given is a device of a pool, and marked as given.
LEMMA GivenMarked ==
  ASSUME IInv, NEW g \in Kept \cup InHand
  PROVE  /\ Marked(g[2])
         /\ \/ \E i \in DOMAIN pools : g[2] \in pools[i].devices
            \/ phase = "assign" /\ g[2] \in devices
<1>1. CASE g \in Kept
  <2>1. PICK i \in DOMAIN pools : g \in {pools[i].of} \X pools[i].devices
    BY <1>1 DEF Kept
  <2>2. g[2] \in pools[i].devices
    BY <2>1
  <2> QED
    BY <2>2 DEF IInv, PoolsMarked
<1>2. CASE g \in InHand
  <2>1. phase = "assign" /\ g[2] \in devices
    BY <1>2 DEF InHand
  <2> QED
    BY <2>1 DEF IInv, CurrentMarked
<1> QED
  BY <1>1, <1>2

\* A step that leaves the finished pools and what is in hand alone gives nothing.
LEMMA NothingGiven ==
  ASSUME UNCHANGED <<pools, InHand>>
  PROVE  UNCHANGED (Kept \cup InHand)
BY DEF Kept

\* An entry that becomes a whole device takes one that nobody has a share of.
LEMMA WholeGiven ==
  ASSUME IInv, NEW e \in entries, AssignEntry(e), AssignAsPrimary(e.dev)
  PROVE  Shares!GiveWhole(e.dev) \/ UNCHANGED Shares!vars
<1> DEFINE d == e.dev
<1>1. /\ phase = "assign" /\ phase' = "assign" /\ UNCHANGED <<k, pools>>
      /\ mode[d] # "cdq" /\ devices' = devices \cup {<<d, 0>>}
  BY DEF AssignEntry, AssignAsPrimary, InMode
<1>2. Kept' = Kept /\ InHand' = InHand \cup {<<k, <<d, 0>>>>}
  <2>1. Kept' = Kept
    BY <1>1 DEF Kept
  <2>2. InHand = {k} \X devices /\ InHand' = {k} \X (devices \cup {<<d, 0>>})
    BY <1>1 DEF InHand
  <2> QED
    BY <2>1, <2>2
<1>3. CASE <<d, 0>> \in devices
  <2>1. UNCHANGED <<pools, InHand>>
    BY <1>1, <1>3 DEF InHand
  <2> QED
    BY <1>1, <2>1, NothingGiven DEF Shares!vars
<1>4. CASE <<d, 0>> \notin devices
  <2>1. ASSUME NEW i \in 1..SecondaryMax \cup {0}, NEW g \in Kept \cup InHand,
               g[2] = <<d, i>>
        PROVE  FALSE
    <3>1. i = 0
      <4>1. Marked(<<d, i>>)
        BY <2>1, GivenMarked
      <4> QED
        BY <1>1, <4>1 DEF Marked
    <3>2. \A n \in DOMAIN pools : <<d, 0>> \notin pools[n].devices
      BY <1>1 DEF IInv, EntriesFree
    <3> QED
      BY <1>4, <2>1, <3>1, <3>2, GivenMarked
  <2> QED
    BY <1>1, <1>2, <2>1 DEF Shares!GiveWhole, Shares!Given
<1> QED
  BY <1>3, <1>4

\* One that becomes subfunctions takes those that nobody has.
LEMMA PartsGiven ==
  ASSUME IInv, NEW e \in entries, AssignEntry(e), AssignCdqSecondaries(e.dev, e.sec)
  PROVE  \E I \in SUBSET (1..SecondaryMax) : Shares!GiveParts(e.dev, I)
<1> DEFINE d == e.dev
           I == FirstUnassigned(d, e.sec)
<1>1. /\ phase = "assign" /\ phase' = "assign" /\ UNCHANGED <<k, pools>>
      /\ mode[d] # "primary" /\ devices' = devices \cup {<<d, i>> : i \in I}
  BY DEF AssignEntry, AssignCdqSecondaries, InMode
<1>2. I \subseteq 1..SecondaryMax /\ I \cap taken[d] = {}
  BY FirstUnassignedNew
<1> HIDE DEF I
<1>3. Kept' = Kept /\ InHand' = InHand \cup {<<k, <<d, i>>>> : i \in I}
  <2>1. Kept' = Kept
    BY <1>1 DEF Kept
  <2>2. InHand = {k} \X devices /\ InHand' = {k} \X (devices \cup {<<d, i>> : i \in I})
    BY <1>1 DEF InHand
  <2> QED
    BY <2>1, <2>2
<1>4. ASSUME NEW i \in I \cup {0}, NEW g \in Kept \cup InHand, g[2] = <<d, i>>
      PROVE  FALSE
  <2>1. Marked(<<d, i>>)
    BY <1>4, GivenMarked
  <2>2. i \in 1..SecondaryMax /\ i # 0 /\ i \notin taken[d]
    BY <1>1, <1>2, <1>4, <2>1, PoolAssumption DEF Marked
  <2> QED
    BY <2>1, <2>2 DEF Marked
<1>5. Shares!GiveParts(d, I)
  BY <1>1, <1>3, <1>4 DEF Shares!GiveParts, Shares!Given
<1> QED
  BY <1>2, <1>5

\* The pool that is finished keeps what was in hand.
LEMMA FinishedGiven ==
  ASSUME IInv, FinishPool
  PROVE  Shares!NextTurn
<1>1. phase = "assign" /\ phase' = "pool" /\ k' = k + 1
  BY DEF FinishPool
<1>2. InHand = {k} \X devices /\ InHand' = {}
  BY <1>1 DEF InHand
<1>3. Kept' = Kept \cup InHand
  <2>1. CASE devices = {}
    <3>1. pools' = pools /\ InHand = {}
      BY <1>2, <2>1 DEF FinishPool
    <3> QED
      BY <3>1 DEF Kept
  <2>2. CASE devices # {}
    <3>1. pools' = Append(pools, [of |-> k, devices |-> devices])
      BY <2>2 DEF FinishPool
    <3>2. /\ DOMAIN pools' = DOMAIN pools \cup {Len(pools) + 1}
          /\ Len(pools) + 1 \notin DOMAIN pools
          /\ \A i \in DOMAIN pools : pools'[i] = pools[i]
          /\ pools'[Len(pools) + 1] = [of |-> k, devices |-> devices]
      BY <3>1 DEF IInv, TypeOK
    <3>3. DEFINE Of(i) == {pools[i].of} \X pools[i].devices
    <3>4. /\ \A i \in DOMAIN pools : Of(i)' = Of(i)
          /\ {pools'[Len(pools) + 1].of} \X pools'[Len(pools) + 1].devices = InHand
      BY <1>2, <3>2
    <3>5. Kept' = UNION {{pools'[i].of} \X pools'[i].devices : i \in DOMAIN pools'}
      BY DEF Kept
    <3> QED
      BY <3>2, <3>4, <3>5 DEF Kept
  <2> QED
    BY <2>1, <2>2
<1> QED
  BY <1>1, <1>2, <1>3 DEF Shares!NextTurn

\* Before the devices are known no pool has its turn.
NoTurnYet == phase \in {"read", "discover"} => k = 0

LEMMA NoTurnStep == NoTurnYet /\ [Next]_vars => NoTurnYet'
<1> SUFFICES ASSUME NoTurnYet, [Next]_vars PROVE NoTurnYet'
  OBVIOUS
<1>1. CASE phase' \in {"read", "discover"}
  <2>1. ReadConfigFile \/ UNCHANGED vars
    BY <1>1 DEF Next, DiscoverDevices, DiscoverFails, SkipPool, StartPool, SearchDriver,
       EndSearch, AssignEntry, FinishPool, Finish
  <2> QED
    BY <2>1 DEF NoTurnYet, ReadConfigFile, poolVars, vars
<1> QED
  BY <1>1 DEF NoTurnYet

(***************************************************************************)
(* Every behaviour of GetPoolConfigs is one of DeviceShares: over all      *)
(* pools of any file the devices of the host are shared out once and for   *)
(* good, whole or in parts.                                                *)
(***************************************************************************)
THEOREM Refinement == Spec => ImplementsDeviceShares
<1>1. Init => IInv /\ NoTurnYet /\ Shares!Init
  BY SharingInit DEF Init, NoTurnYet, Shares!Init, Kept, InHand
<1>2. IInv /\ NoTurnYet /\ [Next]_vars => IInv' /\ NoTurnYet'
  BY SharingStep, NoTurnStep
<1>3. ASSUME IInv, NoTurnYet, [Next]_vars PROVE [Shares!Next]_(Shares!vars)
  <2>1. ASSUME UNCHANGED <<pools, InHand>>, k' = k \/ k' = k + 1
        PROVE  [Shares!Next]_(Shares!vars)
    BY <2>1, NothingGiven DEF Shares!Next, Shares!NextTurn, Shares!vars
  <2>2. CASE ReadConfigFile \/ DiscoverFails \/ Finish
    BY <2>1, <2>2 DEF ReadConfigFile, DiscoverFails, Finish, poolVars, InHand
  <2>3. CASE DiscoverDevices
    BY <1>3, <2>1, <2>3 DEF DiscoverDevices, NoTurnYet, InHand
  <2>4. CASE SkipPool \/ StartPool \/ SearchDriver
    BY <2>1, <2>4 DEF SkipPool, StartPool, SearchDriver, InHand
  <2>5. CASE EndSearch
    <3>1. devices = {} /\ UNCHANGED <<k, pools, devices>>
      BY <1>3, <2>5 DEF EndSearch, IInv, SearchEmpty, poolVars
    <3>2. UNCHANGED InHand
      BY <3>1 DEF InHand
    <3> QED
      BY <2>1, <3>1, <3>2
  <2>6. ASSUME NEW e \in entries, AssignEntry(e) PROVE [Shares!Next]_(Shares!vars)
    <3>1. e.dev \in Hosts
      BY <1>3, <2>6 DEF IInv, TypeOK, Entry
    <3>2. CASE AssignAsPrimary(e.dev)
      BY <1>3, <2>6, <3>1, <3>2, WholeGiven DEF Shares!Next
    <3>3. CASE AssignCdqSecondaries(e.dev, e.sec)
      BY <1>3, <2>6, <3>1, <3>3, PartsGiven DEF Shares!Next
    <3>4. CASE UNCHANGED devices
      BY <2>1, <2>6, <3>4 DEF AssignEntry, InHand
    <3> QED
      BY <2>6, <3>2, <3>3, <3>4 DEF AssignEntry
  <2>7. CASE FinishPool
    BY <1>3, <2>7, FinishedGiven DEF Shares!Next
  <2>8. CASE UNCHANGED vars
    BY <2>1, <2>8 DEF vars, InHand
  <2> QED
    BY <1>3, <2>2, <2>3, <2>4, <2>5, <2>6, <2>7, <2>8 DEF Next
<1>4. IInv /\ NoTurnYet /\ [Next]_vars => [Shares!Next]_(Shares!vars)
  BY <1>3
<1> QED
  BY <1>1, <1>2, <1>4, PTL DEF Spec, ImplementsDeviceShares, Shares!Spec
=============================================================================
