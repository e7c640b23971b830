-------------------------- MODULE PoolLimit_proofs --------------------------
(***************************************************************************)
(* Proofs about the limits of PoolConfig's drivers, for any host and any   *)
(* config file: no driver brings a pool more primaries than its limit, and *)
(* a pool of whole devices gets what its drivers' limits ask for or all    *)
(* there is.                                                               *)
(*                                                                         *)
(* Both invariants speak of the drivers worked through so far and of what  *)
(* the pool "got": the devices it has entries for and those it has.        *)
(* Assignment only moves devices from the one to the other.                *)
(***************************************************************************)
EXTENDS PoolConfig_proofs, FiniteSetTheorems

Working == phase \in {"drivers", "assign"}

\* The drivers worked through, and the devices the pool got.
Done == Len(Source.drivers) - Len(drivers)

Got == {e.dev : e \in entries} \cup Primaries(devices)

\* What is left to search is the end of the pool's drivers.
Suffix ==
  /\ Working => /\ Len(drivers) <= Len(Source.drivers)
                /\ \A n \in DOMAIN drivers : drivers[n] = Source.drivers[Done + n]
  /\ phase = "assign" => drivers = <<>>

\* "by" puts each device in "found" down to one of the first "upto" drivers.
Attributes(by, found, source, upto) ==
  /\ \A d \in found : /\ by[d] \in 1..upto
                      /\ Facts[d].driver = source.drivers[by[d]].name
  /\ \A n \in 1..upto :
       \/ source.drivers[n].primary = 0
       \/ Cardinality({d \in found : by[d] = n}) <= source.drivers[n].primary

Attributed(found, source, upto) ==
  \E by \in [Hosts -> Nat] : Attributes(by, found, source, upto)

GotAttributed == Working => Attributed(Got \ NamedDevices(Source), Source, Done)

PoolsAttributed ==
  \A i \in DOMAIN pools :
    LET source == Effective(config[pools[i].of])
    IN /\ pools[i].of \in DOMAIN config
       /\ Attributed(Primaries(pools[i].devices) \ NamedDevices(source), source,
                     Len(source.drivers))

LInv == Suffix /\ GotAttributed /\ PoolsAttributed

-----------------------------------------------------------------------------
\* What the pool got are host devices, so they are finitely many.
LEMMA GotType ==
  ASSUME TypeOK
  PROVE  Got \subseteq Hosts
BY DEF TypeOK, Got, Primaries, Entry, Device

LEMMA GotTypeNext == TypeOK' => Got' \subseteq Hosts
BY DEF TypeOK, Got, Primaries, Entry, Device

LEMMA HostSets ==
  ASSUME NEW S \in SUBSET Hosts
  PROVE  IsFiniteSet(S) /\ Cardinality(S) \in Nat
<1>1. IsFiniteSet(S)
  BY PoolAssumption, FS_Subset
<1> QED
  BY <1>1, FS_CardinalityType

LEMMA SmallerSets ==
  ASSUME NEW S \in SUBSET Hosts, NEW R \in SUBSET S
  PROVE  Cardinality(R) <= Cardinality(S)
BY HostSets, FS_Subset

\* Fewer devices can be put down to the same drivers.
LEMMA FewerAttributed ==
  ASSUME NEW found \in SUBSET Hosts, NEW fewer \in SUBSET found,
         NEW source, source.drivers \in Seq(ConfigDriver),
         NEW upto \in Nat, upto <= Len(source.drivers),
         Attributed(found, source, upto)
  PROVE  Attributed(fewer, source, upto)
<1>1. PICK by \in [Hosts -> Nat] : Attributes(by, found, source, upto)
  BY DEF Attributed
<1>2. ASSUME NEW n \in 1..upto, source.drivers[n].primary # 0
      PROVE  Cardinality({d \in fewer : by[d] = n}) <= source.drivers[n].primary
  <2> DEFINE S == {d \in found : by[d] = n}
             R == {d \in fewer : by[d] = n}
  <2>1. R \in SUBSET S /\ S \in SUBSET Hosts /\ R \in SUBSET Hosts
    OBVIOUS
  <2>2. Cardinality(S) <= source.drivers[n].primary
    BY <1>1, <1>2 DEF Attributes
  <2>3. source.drivers[n].primary \in Nat
    <3>1. source.drivers[n] \in ConfigDriver
      BY <1>2
    <3> QED
      BY <3>1 DEF ConfigDriver
  <2> HIDE DEF S, R
  <2>4. Cardinality(R) <= Cardinality(S) /\ Cardinality(R) \in Nat /\ Cardinality(S) \in Nat
    BY <2>1, SmallerSets, HostSets
  <2> QED
    BY <2>2, <2>3, <2>4 DEF R
<1>3. Attributes(by, fewer, source, upto)
  BY <1>1, <1>2 DEF Attributes
<1> QED
  BY <1>3 DEF Attributed

\* What the next driver found is put down to that driver.
LEMMA MoreAttributed ==
  ASSUME NEW found \in SUBSET Hosts, NEW chosen \in SUBSET Hosts,
         NEW source, source.drivers \in Seq(ConfigDriver),
         NEW n \in DOMAIN source.drivers,
         Attributed(found, source, n - 1),
         found \cap chosen = {},
         \A d \in chosen : Facts[d].driver = source.drivers[n].name,
         source.drivers[n].primary = 0
           \/ Cardinality(chosen) <= source.drivers[n].primary
  PROVE  Attributed(found \cup chosen, source, n)
<1>1. PICK by \in [Hosts -> Nat] : Attributes(by, found, source, n - 1)
  BY DEF Attributed
<1> DEFINE new == [d \in Hosts |-> IF d \in chosen THEN n ELSE by[d]]
<1>2. n \in Nat \ {0} /\ new \in [Hosts -> Nat]
  OBVIOUS
<1>3. ASSUME NEW d \in found \cup chosen
      PROVE  new[d] \in 1..n /\ Facts[d].driver = source.drivers[new[d]].name
  <2>1. CASE d \in chosen
    BY <1>2, <2>1
  <2>2. CASE d \in found /\ d \notin chosen
    <3>1. by[d] \in 1..(n - 1) /\ Facts[d].driver = source.drivers[by[d]].name
      BY <1>1, <2>2 DEF Attributes
    <3> QED
      BY <1>2, <2>2, <3>1
  <2> QED
    BY <2>1, <2>2
<1>4. ASSUME NEW m \in 1..n, source.drivers[m].primary # 0
      PROVE  Cardinality({d \in found \cup chosen : new[d] = m})
               <= source.drivers[m].primary
  <2>1. CASE m = n
    <3>1. {d \in found \cup chosen : new[d] = m} = chosen
      <4>1. \A d \in found : by[d] # n
        BY <1>1, <1>2 DEF Attributes
      <4> QED
        BY <2>1, <4>1
    <3> QED
      BY <1>4, <2>1, <3>1
  <2>2. CASE m # n
    <3>1. {d \in found \cup chosen : new[d] = m} = {d \in found : by[d] = m}
      BY <2>2
    <3>2. m \in 1..(n - 1)
      BY <1>2, <2>2
    <3>3. Cardinality({d \in found : by[d] = m}) <= source.drivers[m].primary
      BY <1>1, <1>4, <3>2 DEF Attributes
    <3> QED
      BY <3>1, <3>3
  <2> QED
    BY <2>1, <2>2
<1>5. Attributes(new, found \cup chosen, source, n)
  <2> HIDE DEF new
  <2> QED
    BY <1>3, <1>4 DEF Attributes
<1> QED
  BY <1>2, <1>5 DEF Attributed

\* A search stays within the limit of its driver.
LEMMA FoundWithin ==
  ASSUME NEW candidates \in SUBSET Hosts, NEW limit \in Nat, NEW chosen,
         Found(candidates, limit, chosen)
  PROVE  /\ chosen \subseteq candidates
         /\ limit = 0 \/ Cardinality(chosen) <= limit
         /\ chosen = candidates \/ (limit > 0 /\ Cardinality(chosen) = limit)
BY HostSets DEF Found

-----------------------------------------------------------------------------
(***************************************************************************)
(* The step of the search: which driver it is for and what it adds.        *)
(***************************************************************************)
LEMMA SearchAdds ==
  ASSUME IInv, Suffix, SearchDriver
  PROVE  /\ Done \in Nat /\ Done + 1 \in DOMAIN Source.drivers
         /\ Source.drivers \in Seq(ConfigDriver)
         /\ Source' = Source /\ Done' = Done + 1
         /\ phase = "drivers" /\ phase' = "drivers"
         /\ UNCHANGED <<config, hostDevices, mode, full, k, devices, pools>>
         /\ devices = {}
         /\ Suffix'
         /\ \E failed, chosen \in SUBSET hostDevices :
              /\ Found(Candidates(Source.drivers[Done + 1], failed),
                       Source.drivers[Done + 1].primary, chosen)
              /\ Got' = Got \cup chosen
<1>1. /\ phase = "drivers" /\ phase' = "drivers"
      /\ UNCHANGED <<config, hostDevices, mode, full, k, devices, pools>>
      /\ drivers \in Seq(ConfigDriver) /\ drivers # <<>> /\ drivers' = Tail(drivers)
  BY DEF SearchDriver, hostVars, IInv, TypeOK
<1>2. Source' = Source
  BY <1>1 DEF Source, Current, Effective
<1>3. devices = {}
  BY <1>1 DEF IInv, SearchEmpty
<1>4. Source.drivers \in Seq(ConfigDriver)
  BY <1>1, CurrentType DEF IInv, TypeOK, Source
<1>5. /\ Len(drivers) \in Nat \ {0} /\ Len(drivers') = Len(drivers) - 1
      /\ Len(Source.drivers) \in Nat
      /\ Head(drivers) = drivers[1] /\ 1 \in DOMAIN drivers
      /\ \A n \in DOMAIN drivers' :
           n \in Nat /\ n + 1 \in DOMAIN drivers /\ drivers'[n] = drivers[n + 1]
  BY <1>1, <1>4
<1>6. Len(drivers) <= Len(Source.drivers) /\ Head(drivers) = Source.drivers[Done + 1]
  BY <1>1, <1>5 DEF Suffix, Working
<1>7. Done' = Done + 1 /\ Done \in Nat /\ Done + 1 \in DOMAIN Source.drivers
  BY <1>2, <1>4, <1>5, <1>6 DEF Done
<1>8. Suffix'
  <2>1. \A n \in DOMAIN drivers' : drivers'[n] = Source'.drivers[Done' + n]
    <3> TAKE n \in DOMAIN drivers'
    <3>1. drivers'[n] = Source.drivers[Done + (n + 1)]
      BY <1>1, <1>5 DEF Suffix, Working
    <3>2. Done + (n + 1) = Done' + n
      BY <1>5, <1>7
    <3> QED
      BY <1>2, <3>1, <3>2
  <2>2. Len(drivers') <= Len(Source'.drivers)
    BY <1>2, <1>5, <1>6
  <2> QED
    BY <1>1, <2>1, <2>2 DEF Suffix
<1>9. PICK failed, chosen \in SUBSET hostDevices :
        /\ Found(Candidates(Head(drivers), failed), Head(drivers).primary, chosen)
        /\ entries' = entries \cup
             {[slot |-> 0, dev |-> d, sec |-> Head(drivers).sec] : d \in chosen}
  BY DEF SearchDriver
<1>10. Got' = Got \cup chosen
  <2> DEFINE new == {[slot |-> 0, dev |-> d, sec |-> Head(drivers).sec] : d \in chosen}
  <2>1. {e.dev : e \in new} = chosen
    <3>1. ASSUME NEW d \in chosen PROVE d \in {e.dev : e \in new}
      <4>1. [slot |-> 0, dev |-> d, sec |-> Head(drivers).sec] \in new
        OBVIOUS
      <4>2. [slot |-> 0, dev |-> d, sec |-> Head(drivers).sec].dev = d
        OBVIOUS
      <4> QED
        BY ONLY <4>1, <4>2
    <3>2. ASSUME NEW e \in new PROVE e.dev \in chosen
      OBVIOUS
    <3> QED
      BY ONLY <3>1, <3>2
  <2> HIDE DEF new
  <2>2. {e.dev : e \in entries'} = {e.dev : e \in entries} \cup {e.dev : e \in new}
    BY <1>9 DEF new
  <2>3. Primaries(devices)' = Primaries(devices)
    BY <1>1 DEF Primaries
  <2> QED
    BY <2>1, <2>2, <2>3 DEF Got
<1> QED
  BY <1>1, <1>2, <1>3, <1>4, <1>6, <1>7, <1>8, <1>9, <1>10

\* The other steps at a pool: it starts, its search ends, an entry is assigned.
LEMMA StartAdds ==
  ASSUME TypeOK, TypeOK', StartPool
  PROVE  /\ Source' = Source /\ Source.drivers \in Seq(ConfigDriver)
         /\ UNCHANGED <<config, pools>>
         /\ Done' = 0 /\ Suffix' /\ Working'
         /\ Got' \subseteq NamedDevices(Source)
<1>1. /\ UNCHANGED <<config, k, pools>> /\ phase' = "drivers"
      /\ drivers' = Source.drivers /\ devices' = {}
      /\ entries' \subseteq Named(Source)
  BY DEF StartPool, hostVars, Source
<1>2. Source' = Source
  BY <1>1 DEF Source, Current, Effective
<1>3. Source.drivers \in Seq(ConfigDriver)
  BY <1>1 DEF TypeOK
<1>4. Done' = 0 /\ Len(Source.drivers) \in Nat
  BY <1>1, <1>2, <1>3 DEF Done
<1>5. Suffix'
  BY <1>1, <1>2, <1>3, <1>4 DEF Suffix, Working
<1>6. Got' \subseteq NamedDevices(Source)
  BY <1>1 DEF Got, Primaries, NamedDevices
<1> QED
  BY <1>1, <1>2, <1>3, <1>4, <1>5, <1>6 DEF Working

LEMMA EndSearchAdds ==
  ASSUME IInv, Suffix, EndSearch
  PROVE  /\ Source' = Source
         /\ UNCHANGED <<config, hostDevices, mode, full, k, pools>>
         /\ phase = "drivers" /\ phase' = "assign"
         /\ Done' = Done /\ Suffix' /\ Got' = Got
<1>1. /\ UNCHANGED <<config, hostDevices, mode, full, k, pools, entries, drivers,
                      devices>>
      /\ drivers = <<>> /\ phase = "drivers" /\ phase' = "assign"
  BY DEF EndSearch, hostVars, poolVars
<1>2. Source' = Source
  BY <1>1 DEF Source, Current, Effective
<1>3. Done' = Done /\ Got' = Got
  BY <1>1, <1>2 DEF Done, Got, Primaries
<1> QED
  BY <1>1, <1>2, <1>3 DEF Suffix, Working

LEMMA AssignAdds ==
  ASSUME TypeOK, Suffix, NEW e \in entries, AssignEntry(e)
  PROVE  /\ Source' = Source
         /\ UNCHANGED <<config, hostDevices, k, pools>>
         /\ phase = "assign" /\ phase' = "assign"
         /\ Done' = Done /\ Suffix' /\ Got' \subseteq Got
<1>1. /\ UNCHANGED <<config, hostDevices, k, pools, drivers>>
      /\ phase = "assign" /\ phase' = "assign"
      /\ entries' \subseteq entries
      /\ \A a \in devices' : a \in devices \/ a[1] = e.dev
  BY DEF AssignEntry, AssignAsPrimary, AssignCdqSecondaries
<1>2. Source' = Source
  BY <1>1 DEF Source, Current, Effective
<1>3. Done' = Done
  BY <1>1, <1>2 DEF Done
<1>4. Got' \subseteq Got
  BY <1>1 DEF Got, Primaries
<1> QED
  BY <1>1, <1>2, <1>3, <1>4 DEF Suffix, Working

\* When a pool is finished it has what it got, and all its drivers are done.
LEMMA FinishHas ==
  ASSUME TypeOK, Suffix, FinishPool
  PROVE  /\ Got = Primaries(devices)
         /\ Source.drivers \in Seq(ConfigDriver)
         /\ Done = Len(Source.drivers)
         /\ phase = "assign" /\ phase' = "pool"
<1>1. /\ phase = "assign" /\ phase' = "pool" /\ entries = {} /\ drivers = <<>>
  BY DEF FinishPool, Suffix
<1>2. Source.drivers \in Seq(ConfigDriver)
  BY <1>1, CurrentType DEF TypeOK, Source
<1>3. Len(Source.drivers) \in Nat /\ Len(drivers) = 0
  BY <1>1, <1>2
<1> QED
  BY <1>1, <1>2, <1>3 DEF Got, Done

\* The three steps, and those between the pools, and no other.
LEMMA StepKinds ==
  ASSUME [Next]_vars
  PROVE  \/ StartPool \/ SearchDriver \/ EndSearch \/ FinishPool
         \/ \E e \in entries : AssignEntry(e)
         \/ UNCHANGED vars
         \/ UNCHANGED <<config, pools>> /\ ~Working /\ ~Working'
BY DEF Next, ReadConfigFile, DiscoverDevices, DiscoverFails, SkipPool, Finish,
       hostVars, poolVars, Working

-----------------------------------------------------------------------------
LEMMA LimitInit == Init => LInv
BY DEF Init, LInv, Suffix, GotAttributed, PoolsAttributed, Working

\* A step that finishes no pool leaves those there are.
LEMMA PoolsStayAttributed ==
  ASSUME PoolsAttributed, UNCHANGED <<config, pools>>
  PROVE  PoolsAttributed'
BY DEF PoolsAttributed

\* What a search adds, it adds within the limit of its driver and apart from
\* what the pool got before.
LEMMA SearchAttributed ==
  ASSUME IInv, LInv, SearchDriver
  PROVE  GotAttributed'
<1> DEFINE n == Done + 1
           driver == Source.drivers[n]
           found == Got \ NamedDevices(Source)
<1>1. /\ n \in DOMAIN Source.drivers /\ Source.drivers \in Seq(ConfigDriver)
      /\ Source' = Source /\ Done' = n /\ phase = "drivers" /\ devices = {}
  BY SearchAdds DEF LInv
<1>2. PICK failed, chosen \in SUBSET hostDevices :
        /\ Found(Candidates(driver, failed), driver.primary, chosen)
        /\ Got' = Got \cup chosen
  BY SearchAdds DEF LInv
<1>3. driver \in ConfigDriver /\ driver.primary \in Nat /\ n \in Nat /\ Done = n - 1
  <2>1. driver \in ConfigDriver
    BY <1>1
  <2>2. Done \in Nat
    BY SearchAdds DEF LInv
  <2> QED
    BY <1>1, <2>1, <2>2 DEF ConfigDriver
<1> HIDE DEF n, driver
<1>4. /\ chosen \subseteq Candidates(driver, failed)
      /\ driver.primary = 0 \/ Cardinality(chosen) <= driver.primary
      /\ chosen \subseteq Hosts
  <2>1. Candidates(driver, failed) \in SUBSET Hosts
    BY DEF Candidates, IInv, TypeOK
  <2> QED
    BY <1>2, <1>3, <2>1, FoundWithin
<1>5. \A d \in chosen : Facts[d].driver = driver.name /\ d \notin Got
  BY <1>1, <1>4 DEF Candidates, ValidateForDriver, Got, Primaries
<1> DEFINE more == chosen \ NamedDevices(Source)
<1>6. Attributed(found \cup more, Source, n)
  <2>1. Attributed(found, Source, n - 1)
    BY <1>1, <1>3 DEF LInv, GotAttributed, Working
  <2>2. found \in SUBSET Hosts /\ more \in SUBSET Hosts /\ found \cap more = {}
    BY <1>4, <1>5, GotType DEF IInv
  <2>3. \A d \in more : Facts[d].driver = Source.drivers[n].name
    BY <1>5 DEF driver
  <2>4. Source.drivers[n].primary = 0
          \/ Cardinality(more) <= Source.drivers[n].primary
    <3>1. Cardinality(more) <= Cardinality(chosen)
      BY <1>4, SmallerSets
    <3>2. Cardinality(more) \in Nat /\ Cardinality(chosen) \in Nat
      BY <1>4, HostSets
    <3> QED
      BY <1>3, <1>4, <3>1, <3>2 DEF driver
  <2> HIDE DEF found, more
  <2> QED
    BY <1>1, <2>1, <2>2, <2>3, <2>4, MoreAttributed
<1>7. Got' \ NamedDevices(Source) = found \cup more
  BY <1>2
<1> QED
  BY <1>1, <1>6, <1>7 DEF GotAttributed

LEMMA LimitStep ==
  ASSUME IInv, TypeOK', LInv, [Next]_vars
  PROVE  LInv'
<1>0. TypeOK /\ Suffix /\ GotAttributed /\ PoolsAttributed
  BY DEF IInv, LInv
<1>1. CASE StartPool
  <2>1. Got' \ NamedDevices(Source) = {}
    BY <1>0, <1>1, StartAdds
  <2>2. Attributes([d \in Hosts |-> 0], {}, Source, 0)
    BY DEF Attributes
  <2>3. Attributed({}, Source, 0)
    BY <2>2 DEF Attributed
  <2>4. GotAttributed'
    BY <1>0, <1>1, <2>1, <2>3, StartAdds DEF GotAttributed
  <2> QED
    BY <1>0, <1>1, <2>4, StartAdds, PoolsStayAttributed DEF LInv
<1>2. CASE SearchDriver
  BY <1>0, <1>2, SearchAdds, SearchAttributed, PoolsStayAttributed DEF LInv
<1>3. CASE EndSearch
  <2>1. GotAttributed'
    BY <1>0, <1>3, EndSearchAdds DEF GotAttributed, Working
  <2> QED
    BY <1>0, <1>3, <2>1, EndSearchAdds, PoolsStayAttributed DEF LInv
<1>4. ASSUME NEW e \in entries, AssignEntry(e) PROVE LInv'
  <2>1. /\ Source' = Source /\ Done' = Done /\ Got' \subseteq Got /\ phase = "assign"
        /\ UNCHANGED <<config, pools>> /\ Suffix'
    BY <1>0, <1>4, AssignAdds
  <2>2. Source.drivers \in Seq(ConfigDriver) /\ Len(drivers) = 0
    BY <1>0, <2>1, CurrentType DEF TypeOK, Source, Suffix
  <2>3. Done \in Nat /\ Done <= Len(Source.drivers)
    BY <2>2 DEF Done
  <2>4. Attributed(Got \ NamedDevices(Source), Source, Done)
    BY <1>0, <2>1 DEF GotAttributed, Working
  <2>5. Got \ NamedDevices(Source) \in SUBSET Hosts
    BY <1>0, GotType
  <2>6. Attributed(Got' \ NamedDevices(Source), Source, Done)
    BY <2>1, <2>2, <2>3, <2>4, <2>5, FewerAttributed
  <2>7. GotAttributed'
    BY <2>1, <2>6 DEF GotAttributed
  <2> QED
    BY <1>0, <2>1, <2>7, PoolsStayAttributed DEF LInv
<1>5. CASE FinishPool
  <2>1. phase = "assign" /\ phase' = "pool" /\ config' = config
    BY <1>5 DEF FinishPool
  <2>2. Suffix' /\ GotAttributed'
    BY <2>1 DEF Suffix, GotAttributed, Working
  <2>3. CASE pools' = pools
    BY <1>0, <2>1, <2>2, <2>3, PoolsStayAttributed DEF LInv
  <2>4. CASE pools' = Append(pools, [of |-> k, devices |-> devices])
    <3>1. /\ DOMAIN pools' = 1..Len(pools) + 1 /\ DOMAIN pools = 1..Len(pools)
          /\ Len(pools) \in Nat
          /\ \A i \in DOMAIN pools : pools'[i] = pools[i]
          /\ pools'[Len(pools) + 1].devices = devices
          /\ pools'[Len(pools) + 1].of = k
      BY <1>0, <2>4 DEF TypeOK
    <3>2. Attributed(Primaries(devices) \ NamedDevices(Source), Source,
                     Len(Source.drivers))
      BY <1>0, <1>5, <2>1, FinishHas DEF GotAttributed, Working
    <3>3. ASSUME NEW i \in DOMAIN pools'
          PROVE  LET source == Effective(config[pools'[i].of])
                 IN /\ pools'[i].of \in DOMAIN config
                    /\ Attributed(Primaries(pools'[i].devices) \ NamedDevices(source),
                                  source, Len(source.drivers))
      <4>1. CASE i \in DOMAIN pools
        BY <1>0, <3>1, <4>1 DEF PoolsAttributed
      <4>2. CASE i = Len(pools) + 1
        BY <1>0, <2>1, <3>1, <3>2, <4>2 DEF Source, Current, TypeOK
      <4> QED
        BY <3>1, <4>1, <4>2
    <3>4. PoolsAttributed'
      BY <2>1, <3>3 DEF PoolsAttributed
    <3> QED
      BY <2>2, <3>4 DEF LInv
  <2> QED
    BY <1>5, <2>3, <2>4 DEF FinishPool
<1>6. CASE UNCHANGED vars
  <2>1. UNCHANGED <<phase, config, k, entries, drivers, devices, pools>>
    BY <1>6 DEF vars
  <2>2. Source' = Source
    BY <2>1 DEF Source, Current, Effective
  <2>3. Done' = Done /\ Got' = Got
    BY <2>1, <2>2 DEF Done, Got, Primaries
  <2>4. Suffix' /\ GotAttributed'
    BY <1>0, <2>1, <2>2, <2>3 DEF Suffix, GotAttributed, Working
  <2> QED
    BY <1>0, <2>1, <2>4, PoolsStayAttributed DEF LInv
<1>7. CASE UNCHANGED <<config, pools>> /\ ~Working /\ ~Working'
  <2>1. Suffix' /\ GotAttributed'
    BY <1>7 DEF Suffix, GotAttributed, Working
  <2> QED
    BY <1>0, <1>7, <2>1, PoolsStayAttributed DEF LInv
<1> QED
  BY <1>1, <1>2, <1>3, <1>4, <1>5, <1>6, <1>7, StepKinds

\* Putting the devices down to the drivers is a function on those devices.
LEMMA LimitFollows == TypeOK /\ LInv => LimitRespected
<1> SUFFICES ASSUME TypeOK, LInv, NEW i \in DOMAIN pools
             PROVE  LET source == Effective(config[pools[i].of])
                        found == Primaries(pools[i].devices) \ NamedDevices(source)
                    IN \E by \in [found -> DOMAIN source.drivers] :
                         \A n \in DOMAIN source.drivers :
                           LET its == {d \in found : by[d] = n} IN
                           /\ \A d \in its : Facts[d].driver = source.drivers[n].name
                           /\ \/ source.drivers[n].primary = 0
                              \/ Cardinality(its) <= source.drivers[n].primary
  BY DEF LimitRespected
<1> DEFINE source == Effective(config[pools[i].of])
           found == Primaries(pools[i].devices) \ NamedDevices(source)
<1>1. /\ pools[i].of \in DOMAIN config
      /\ Attributed(found, source, Len(source.drivers))
  BY DEF LInv, PoolsAttributed
<1>2. source.drivers \in Seq(ConfigDriver)
  <2>1. config[pools[i].of] \in Pool
    BY <1>1, PoolAssumption DEF TypeOK
  <2>2. config[pools[i].of].drivers \in Seq(ConfigDriver)
        /\ config[pools[i].of].node.drivers \in Seq(ConfigDriver)
    BY <2>1 DEF Pool, Node
  <2> QED
    BY <2>2 DEF Effective
<1>3. found \subseteq Hosts
  BY PoolDevices DEF Primaries, Device
<1> HIDE DEF source, found
<1>4. PICK by \in [Hosts -> Nat] : Attributes(by, found, source, Len(source.drivers))
  BY <1>1 DEF Attributed
<1>5. DOMAIN source.drivers = 1..Len(source.drivers)
  BY <1>2
<1> DEFINE on == [d \in found |-> by[d]]
<1>6. on \in [found -> DOMAIN source.drivers]
  BY <1>3, <1>4, <1>5 DEF Attributes
<1>7. ASSUME NEW n \in DOMAIN source.drivers
      PROVE  /\ \A d \in {x \in found : on[x] = n} :
                  Facts[d].driver = source.drivers[n].name
             /\ \/ source.drivers[n].primary = 0
                \/ Cardinality({x \in found : on[x] = n}) <= source.drivers[n].primary
  <2>1. {x \in found : on[x] = n} = {x \in found : by[x] = n}
    OBVIOUS
  <2> QED
    BY <1>4, <1>5, <2>1 DEF Attributes
<1> HIDE DEF on
<1> QED
  BY <1>6, <1>7 DEF source, found

(***************************************************************************)
(* No driver brings a pool more primaries than its limit, whatever order   *)
(* the host's devices are searched in and whatever pools came before       *)
(* (GetPoolConfigs, the loop over drivers).                                *)
(***************************************************************************)
THEOREM LimitSafety == Spec => []LimitRespected
<1>1. Init => TypeOK /\ IInv /\ LInv
  BY TypeInit, SharingInit, LimitInit
<1>2. IInv /\ LInv /\ [Next]_vars => IInv' /\ LInv'
  BY SharingStep, LimitStep DEF IInv
<1>3. IInv /\ LInv => LimitRespected
  BY LimitFollows DEF IInv
<1> QED
  BY <1>1, <1>2, <1>3, PTL DEF Spec

-----------------------------------------------------------------------------
(***************************************************************************)
(* The other direction, for pools of whole devices.  A driver is sated     *)
(* when nothing is left that it may take, or its limit is reached.  It     *)
(* stays so: what the pool got stays got, and no device becomes free.      *)
(***************************************************************************)
MayTake(driver, d) == /\ Facts[d].driver = driver.name
                      /\ d \notin driver.excluded
                      /\ FreeFor(d, "primary")

GotOf(driver) == {d \in Got : Facts[d].driver = driver.name}

Sated(driver) ==
  \/ \A d \in hostDevices \ Got : ~MayTake(driver, d)
  \/ driver.primary > 0 /\ Cardinality(GotOf(driver)) >= driver.primary

AtPrimaries == Working /\ Current.mode = "primary"

HostUsable    == \A d \in hostDevices : Usable(d)
EntriesInMode == AtPrimaries => \A e \in entries : InMode(e.dev, "primary")
DriversSated  == AtPrimaries =>
                   \A driver \in ConfigDriver :
                     (\E n \in 1..Done : Source.drivers[n] = driver) =>
                       driver.exclAddr \/ Sated(driver)

PInv == Suffix /\ HostUsable /\ EntriesInMode /\ DriversSated

LEMMA StaysSated ==
  ASSUME TypeOK, TypeOK', hostDevices' = hostDevices, Got \subseteq Got',
         \A d \in hostDevices : FreeFor(d, "primary")' => FreeFor(d, "primary")
  PROVE  \A driver \in ConfigDriver : Sated(driver) => Sated(driver)'
<1> TAKE driver \in ConfigDriver
<1> HAVE Sated(driver)
<1>1. CASE \A d \in hostDevices \ Got : ~MayTake(driver, d)
  <2>1. \A d \in hostDevices' \ Got' : ~MayTake(driver, d)'
    BY <1>1 DEF MayTake
  <2> QED
    BY <2>1 DEF Sated
<1>2. CASE driver.primary > 0 /\ Cardinality(GotOf(driver)) >= driver.primary
  <2>1. GotOf(driver) \subseteq GotOf(driver)'
    BY DEF GotOf
  <2>2. GotOf(driver) \subseteq Hosts /\ GotOf(driver)' \subseteq Hosts
    <3>1. Got \subseteq Hosts
      BY GotType
    <3>2. Got' \subseteq Hosts
      BY GotTypeNext
    <3> QED
      BY <3>1, <3>2 DEF GotOf
  <2>3. Cardinality(GotOf(driver)) <= Cardinality(GotOf(driver)')
    BY <2>1, <2>2, SmallerSets
  <2>4. Cardinality(GotOf(driver)) \in Nat /\ Cardinality(GotOf(driver)') \in Nat
    BY <2>2, HostSets
  <2>5. driver.primary \in Nat
    BY DEF ConfigDriver
  <2>6. Cardinality(GotOf(driver)') >= driver.primary
    BY <1>2, <2>3, <2>4, <2>5
  <2> QED
    BY <1>2, <2>6 DEF Sated
<1> QED
  BY <1>1, <1>2 DEF Sated

-----------------------------------------------------------------------------
(***************************************************************************)
(* A search sates its driver.                                              *)
(***************************************************************************)
LEMMA SearchSates ==
  ASSUME IInv, TypeOK', PInv, SearchDriver, Current.mode = "primary",
         ~Source.drivers[Done + 1].exclAddr
  PROVE  \A driver \in ConfigDriver :
           driver = Source.drivers[Done + 1] => Sated(driver)'
<1> SUFFICES ASSUME NEW driver \in ConfigDriver, driver = Source.drivers[Done + 1]
             PROVE  Sated(driver)'
  OBVIOUS
<1>1. PICK failed, chosen \in SUBSET hostDevices :
        /\ Found(Candidates(driver, failed), driver.primary, chosen)
        /\ Got' = Got \cup chosen
  BY SearchAdds DEF PInv
<1>2. UNCHANGED <<hostDevices, mode, full, taken>>
  BY DEF SearchDriver, hostVars
<1>3. driver.primary \in Nat /\ hostDevices \subseteq Hosts
  BY DEF ConfigDriver, IInv, TypeOK
<1>4. Candidates(driver, failed) \in SUBSET Hosts
  BY <1>3 DEF Candidates
<1>5. /\ chosen \subseteq Candidates(driver, failed)
      /\ chosen = Candidates(driver, failed)
           \/ (driver.primary > 0 /\ Cardinality(chosen) = driver.primary)
  BY <1>1, <1>3, <1>4, FoundWithin
<1>6. CASE chosen = Candidates(driver, failed)
  <2>1. ASSUME NEW d \in hostDevices \ Got', MayTake(driver, d)' PROVE FALSE
    <3>1. /\ Facts[d].driver = driver.name /\ d \notin driver.excluded
          /\ InMode(d, "primary") /\ ~full[d]
      BY <1>2, <2>1 DEF MayTake, FreeFor, InMode
    <3>2. d \notin Prohibited
      BY DEF PInv, HostUsable, Usable
    <3>3. d \notin {e.dev : e \in entries}
      BY <1>1, <2>1 DEF Got
    <3>4. ValidateForDriver(d, Current.mode, driver, {e.dev : e \in entries}, d \in failed)
      BY <3>1, <3>2, <3>3 DEF ValidateForDriver, Validate
    <3> QED
      BY <1>1, <1>6, <2>1, <3>1, <3>4 DEF Candidates
  <2> QED
    BY <1>2, <2>1 DEF Sated
<1>7. CASE driver.primary > 0 /\ Cardinality(chosen) = driver.primary
  <2>1. chosen \subseteq GotOf(driver)'
    BY <1>1, <1>5 DEF GotOf, Candidates
  <2>2. GotOf(driver)' \subseteq Hosts
    BY GotTypeNext DEF GotOf
  <2>3. Cardinality(chosen) <= Cardinality(GotOf(driver)')
    BY <2>1, <2>2, SmallerSets
  <2>4. Cardinality(GotOf(driver)') >= driver.primary
    BY <1>7, <2>3, <2>2, HostSets, <1>3
  <2> QED
    BY <1>7, <2>4 DEF Sated
<1> QED
  BY <1>5, <1>6, <1>7

LEMMA SatedInit == Init => PInv
BY DEF Init, PInv, Suffix, HostUsable, EntriesInMode, DriversSated, AtPrimaries, Working

\* Only discovery changes the devices of the host, and it leaves the usable ones.
LEMMA UsableStep ==
  ASSUME HostUsable, [Next]_vars
  PROVE  HostUsable'
<1>1. CASE DiscoverDevices
  BY <1>1 DEF DiscoverDevices, HostUsable
<1>2. CASE ~DiscoverDevices
  <2>1. hostDevices' = hostDevices
    BY <1>2 DEF Next, ReadConfigFile, DiscoverFails, SkipPool, StartPool, SearchDriver,
                EndSearch, AssignEntry, FinishPool, Finish, hostVars, vars
  <2> QED
    BY <2>1 DEF HostUsable
<1> QED
  BY <1>1, <1>2

\* A step that works on no driver keeps those done sated, if it takes nothing
\* from the pool and frees no device.
LEMMA SatedKept ==
  ASSUME TypeOK, TypeOK', DriversSated, AtPrimaries,
         Source' = Source, Done' = Done, hostDevices' = hostDevices, Got \subseteq Got',
         \A d \in hostDevices : FreeFor(d, "primary")' => FreeFor(d, "primary")
  PROVE  DriversSated'
BY StaysSated DEF DriversSated

LEMMA SatedStep ==
  ASSUME IInv, TypeOK', PInv, [Next]_vars
  PROVE  PInv'
<1>0. TypeOK /\ Suffix /\ HostUsable' /\ EntriesInMode /\ DriversSated
  BY UsableStep DEF IInv, PInv
<1> SUFFICES Suffix' /\ EntriesInMode' /\ DriversSated'
  BY <1>0 DEF PInv
<1>1. CASE StartPool
  <2>1. Suffix' /\ Done' = 0
    BY <1>0, <1>1, StartAdds
  <2>2. UNCHANGED <<config, k, mode>>
        /\ \A e \in entries' : InMode(e.dev, Current.mode)
    BY <1>1 DEF StartPool, Validate, hostVars
  <2>3. EntriesInMode'
    BY <2>2 DEF EntriesInMode, AtPrimaries, Current, InMode
  <2>4. DriversSated'
    BY <2>1 DEF DriversSated
  <2> QED
    BY <2>1, <2>3, <2>4
<1>2. CASE SearchDriver
  <2>1. /\ Done \in Nat /\ Done + 1 \in DOMAIN Source.drivers
        /\ Source' = Source /\ Done' = Done + 1 /\ Suffix'
        /\ UNCHANGED <<config, hostDevices, mode, full, k>>
        /\ phase = "drivers" /\ phase' = "drivers"
    BY <1>0, <1>2, SearchAdds
  <2>2. PICK failed, chosen \in SUBSET hostDevices :
          /\ Found(Candidates(Source.drivers[Done + 1], failed),
                   Source.drivers[Done + 1].primary, chosen)
          /\ Got' = Got \cup chosen
    BY <1>0, <1>2, SearchAdds
  <2>3. \A e \in entries' \ entries : InMode(e.dev, Current.mode)
    BY <1>2 DEF SearchDriver, Found, Candidates, ValidateForDriver, Validate
  <2>4. Current' = Current
    BY <2>1 DEF Current
  <2>5. EntriesInMode'
    BY <1>0, <2>1, <2>3, <2>4 DEF EntriesInMode, AtPrimaries, Working, InMode
  <2>6. UNCHANGED taken
    BY <1>2 DEF SearchDriver, hostVars
  <2>7. \A driver \in ConfigDriver : Sated(driver) => Sated(driver)'
    BY <1>0, <2>1, <2>2, <2>6, StaysSated DEF FreeFor, InMode, Unassigned
  <2>8. ASSUME AtPrimaries', NEW driver \in ConfigDriver, NEW n \in 1..Done',
               Source'.drivers[n] = driver, ~driver.exclAddr
        PROVE  Sated(driver)'
    <3>1. AtPrimaries /\ Current.mode = "primary"
      BY <2>1, <2>4, <2>8 DEF AtPrimaries, Working
    <3>2. CASE n = Done + 1
      BY <1>0, <1>2, <2>1, <2>8, <3>1, <3>2, SearchSates
    <3>3. CASE n # Done + 1
      <4>1. n \in 1..Done
        BY <2>1, <3>3
      <4> QED
        BY <1>0, <2>1, <2>7, <2>8, <3>1, <4>1 DEF DriversSated
    <3> QED
      BY <3>2, <3>3
  <2> QED
    BY <2>1, <2>5, <2>8 DEF DriversSated
<1>3. CASE EndSearch
  <2>1. /\ Source' = Source /\ Done' = Done /\ Suffix' /\ Got' = Got
        /\ phase = "drivers"
    BY <1>0, <1>3, EndSearchAdds
  <2>2. UNCHANGED <<config, k, hostDevices, mode, full, taken, entries>>
    BY <1>3 DEF EndSearch, hostVars, poolVars
  <2>3. AtPrimaries' => AtPrimaries
    BY <2>1, <2>2 DEF AtPrimaries, Working, Current
  <2>4. EntriesInMode'
    BY <1>0, <2>2, <2>3 DEF EntriesInMode, InMode
  <2>5. DriversSated'
    <3>1. CASE AtPrimaries
      BY <1>0, <2>1, <2>2, <3>1, SatedKept DEF FreeFor, InMode, Unassigned
    <3>2. CASE ~AtPrimaries
      BY <2>3, <3>2 DEF DriversSated
    <3> QED
      BY <3>1, <3>2
  <2> QED
    BY <2>1, <2>4, <2>5
<1>4. ASSUME NEW e \in entries, AssignEntry(e)
      PROVE  Suffix' /\ EntriesInMode' /\ DriversSated'
  <2>1. /\ Source' = Source /\ Done' = Done /\ Suffix'
        /\ UNCHANGED <<config, hostDevices, k>> /\ phase = "assign" /\ phase' = "assign"
    BY <1>0, <1>4, AssignAdds
  <2>2. Current' = Current
    BY <2>1 DEF Current
  <2>3. CASE Current.mode = "primary"
    <3>1. AtPrimaries /\ e.dev \in Hosts /\ InMode(e.dev, "primary")
      BY <1>0, <2>1, <2>3 DEF AtPrimaries, Working, EntriesInMode, TypeOK, Entry
    <3>2. AssignAsPrimary(e.dev) /\ entries' = entries \ {e}
      BY <1>4, <2>3, <3>1 DEF AssignEntry, Incompatible
    <3>3. Got \subseteq Got'
      <4>1. \A a \in devices : a \in devices'
        BY <3>2 DEF AssignAsPrimary
      <4>2. e.dev \in Primaries(devices')
        <5>1. <<e.dev, 0>> \in devices'
          BY <3>2 DEF AssignAsPrimary
        <5> QED
          BY <5>1 DEF Primaries
      <4>3. \A f \in entries : f = e \/ f \in entries'
        BY <3>2
      <4> QED
        BY <4>1, <4>2, <4>3 DEF Got, Primaries
    <3>4. /\ mode' = [mode EXCEPT ![e.dev] = "primary"]
          /\ full' = [full EXCEPT ![e.dev] = TRUE]
      BY <3>2 DEF AssignAsPrimary
    <3>5. \A d \in hostDevices : FreeFor(d, "primary")' => FreeFor(d, "primary")
      BY <1>0, <3>1, <3>4 DEF FreeFor, InMode, TypeOK
    <3>6. EntriesInMode'
      BY <1>0, <3>1, <3>2, <3>4 DEF EntriesInMode, InMode, TypeOK, Entry
    <3> QED
      BY <1>0, <2>1, <3>1, <3>3, <3>5, <3>6, SatedKept
  <2>4. CASE Current.mode # "primary"
    BY <2>1, <2>2, <2>4 DEF EntriesInMode, DriversSated, AtPrimaries
  <2> QED
    BY <2>3, <2>4
<1>5. CASE FinishPool
  <2>1. phase' = "pool"
    BY <1>5 DEF FinishPool
  <2> QED
    BY <2>1 DEF Suffix, EntriesInMode, DriversSated, AtPrimaries, Working
<1>6. CASE UNCHANGED vars
  <2>1. UNCHANGED <<phase, config, k, hostDevices, mode, full, taken, entries, drivers,
                    devices>>
    BY <1>6 DEF vars
  <2>2. Source' = Source /\ Current' = Current
    BY <2>1 DEF Source, Current, Effective
  <2>3. Done' = Done /\ Got' = Got
    BY <2>1, <2>2 DEF Done, Got, Primaries
  <2>4. Suffix' /\ EntriesInMode'
    BY <1>0, <2>1, <2>2, <2>3 DEF Suffix, EntriesInMode, AtPrimaries, Working, InMode
  <2>5. DriversSated'
    <3>1. CASE AtPrimaries
      BY <1>0, <2>1, <2>2, <2>3, <3>1, SatedKept DEF FreeFor, InMode, Unassigned
    <3>2. CASE ~AtPrimaries
      BY <2>1, <2>2, <3>2 DEF DriversSated, AtPrimaries, Working
    <3> QED
      BY <3>1, <3>2
  <2> QED
    BY <2>4, <2>5
<1>7. CASE ~Working'
  BY <1>7 DEF Suffix, EntriesInMode, DriversSated, AtPrimaries, Working
<1> QED
  BY <1>1, <1>2, <1>3, <1>4, <1>5, <1>6, <1>7, StepKinds

\* A pool of whole devices ends only with every driver done and sated.
LEMMA FilledAtEnd ==
  ASSUME IInv, PInv, [Next]_vars, EndsPool, Current.mode = "primary",
         NEW driver \in CurrentDrivers, ~driver.exclAddr
  PROVE  Filled(driver)
<1>1. TypeOK /\ Suffix /\ phase = "assign" /\ Working
  BY DEF IInv, PInv, EndsPool, Working
<1>2. FinishPool
  BY StepKinds DEF EndsPool, Working, StartPool, SearchDriver, EndSearch, AssignEntry, vars
<1>3. /\ Got = Primaries(devices) /\ Source.drivers \in Seq(ConfigDriver)
      /\ Done = Len(Source.drivers)
  BY <1>1, <1>2, FinishHas
<1>4. PICK n \in DOMAIN Source.drivers : driver = Source.drivers[n]
  BY DEF CurrentDrivers, Source
<1>5. n \in 1..Done /\ driver \in ConfigDriver
  BY <1>3, <1>4
<1>6. Sated(driver)
  BY <1>1, <1>4, <1>5 DEF PInv, DriversSated, AtPrimaries
<1> DEFINE has == {d \in Primaries(devices) : Facts[d].driver = driver.name}
<1>7. CASE \A d \in hostDevices \ Got : ~MayTake(driver, d)
  BY <1>3, <1>7 DEF Filled, MayTake
<1>8. CASE driver.primary > 0 /\ Cardinality(GotOf(driver)) >= driver.primary
  <2>1. GotOf(driver) = has
    BY <1>3 DEF GotOf
  <2> QED
    BY <1>8, <2>1 DEF Filled
<1> QED
  BY <1>6, <1>7, <1>8 DEF Sated

(***************************************************************************)
(* A pool of whole devices is not finished while one of its drivers is     *)
(* below its limit and could take a device that is there and free, however *)
(* many pools and drivers had their turn before (GetPoolConfigs).          *)
(***************************************************************************)
THEOREM PrimarySafety == Spec => PrimaryFilled
<1>1. Init => IInv /\ PInv
  BY SharingInit, SatedInit
<1>2. IInv /\ PInv /\ [Next]_vars => IInv' /\ PInv'
  BY SharingStep, SatedStep DEF IInv
<1>3. IInv /\ PInv /\ [Next]_vars =>
        [EndsPool /\ Current.mode = "primary" =>
           \A driver \in CurrentDrivers : driver.exclAddr \/ Filled(driver)]_vars
  BY FilledAtEnd
<1> QED
  BY <1>1, <1>2, <1>3, PTL DEF Spec, PrimaryFilled
=============================================================================
