------------------------- MODULE KindNetwork_proofs -------------------------
(***************************************************************************)
(* Proofs about KindNetwork, for any number of pairs, pods and faults.     *)
(*                                                                         *)
(* Pods and main interleave, so the invariant says of each step of the     *)
(* loop that what the steps before it did holds for every pair there still *)
(* is: a pair that goes with a pod takes its obligations with it.          *)
(***************************************************************************)
EXTENDS KindNetwork, TLAPS

\* Of two numbers made of a leading part and a last one, below r, the larger has the
\* larger leading part, or the same one and the larger last part.
LEMMA LeadingPart ==
  ASSUME NEW a \in Nat, NEW b \in Nat, NEW x \in Nat, NEW y \in Nat,
         NEW r \in Nat, x < r, y < r, a * r + x >= b * r + y
  PROVE  a > b \/ (a = b /\ x >= y)
<1>1. SUFFICES ASSUME a < b PROVE FALSE
  OBVIOUS
<1>2. PICK d \in Nat : b = a + 1 + d
  <2>1. b - a - 1 \in Nat /\ b = a + 1 + (b - a - 1)
    BY <1>1
  <2> QED
    BY <2>1
<1>3. b * r = a * r + r + d * r
  BY <1>2
<1>4. d * r \in Nat /\ a * r \in Nat
  OBVIOUS
<1> QED
  BY <1>3, <1>4

\* Padding does not make a number smaller.
LEMMA PadGrows ==
  ASSUME NEW a \in Nat, NEW r \in Nat \ {0}
  PROVE  a * r \in Nat /\ a <= a * r
<1>1. PICK e \in Nat : r = 1 + e
  <2>1. r - 1 \in Nat /\ r = 1 + (r - 1)
    OBVIOUS
  <2> QED
    BY <2>1
<1>2. a * r = a + a * e /\ a * e \in Nat
  BY <1>1
<1> QED
  BY <1>2

LEMMA RadixPositive == Radix \in Nat \ {0}
BY KindAssumption

\* A version of two numbers, behind each other, is not below their sum.
LEMMA NotBelow ==
  ASSUME NEW a \in Nat, NEW b \in Nat, NEW r \in Nat \ {0}
  PROVE  a * r + b \in Nat /\ a + b <= a * r + b
BY PadGrows

\* What a version is made of.
LEMMA VersionNumbers ==
  ASSUME NEW v \in Versions
  PROVE  /\ Len(v) \in 1..5 /\ \A i \in 1..Len(v) : v[i] \in Nat
         /\ ~Misread(v) => Len(v) \in 1..3 /\ \A i \in 1..Len(v) : v[i] < Radix
<1>1. v \in Seq(Nat) /\ Len(v) \in 1..5
  BY DEF Versions
<1>2. \A i \in 1..Len(v) : v[i] \in Nat
  BY <1>1
<1>3. ASSUME ~Misread(v)
      PROVE  Len(v) \in 1..3 /\ \A i \in 1..Len(v) : v[i] < Radix
  <2>1. \A i \in 1..Len(v) : ~(v[i] >= Radix)
    BY <1>3, Zenon DEF Misread
  <2>2. Len(v) \in 1..3
    <3>1. Len(v) \in 1..5
      BY <1>1
    <3>2. ~(Len(v) > 3)
      BY <1>3, Zenon DEF Misread
    <3>3. \A n \in 1..5 : ~(n > 3) => n \in 1..3
      OBVIOUS
    <3> QED
      BY <3>1, <3>2, <3>3, Zenon
  <2>3. ASSUME NEW i \in 1..Len(v) PROVE v[i] < Radix
    <3>1. v[i] \in Nat /\ Radix \in Nat /\ ~(v[i] >= Radix)
      BY <1>2, <2>1, <2>3, RadixPositive
    <3> QED
      BY <3>1
  <2> QED
    BY <2>2, <2>3
<1> QED
  BY <1>1, <1>2, <1>3

LEMMA MinimumFits ==
  MinKernel \in Versions /\ Len(MinKernel) = 3 /\ ~Misread(MinKernel)
<1>1. /\ MinKernel \in Versions /\ Len(MinKernel) = 3
      /\ \A i \in 1..3 : MinKernel[i] < Radix
  BY KindAssumption
<1>2. \A i \in 1..3 : ~(MinKernel[i] >= Radix)
  <2>1. \A i \in 1..3 : MinKernel[i] \in Nat /\ MinKernel[i] < Radix
    BY <1>1, VersionNumbers
  <2> QED
    BY <2>1, RadixPositive
<1>3. ~(3 > 3)
  OBVIOUS
<1> QED
  BY <1>1, <1>2, <1>3, Zenon DEF Misread

\* Up to three numbers that the padding holds are read as what they are in the base
\* of the padding.
LEMMA ReadAs ==
  ASSUME NEW v \in Versions, ~Misread(v)
  PROVE  /\ Len(v) = 1 => KernelVersionInt(v) = v[1]
         /\ Len(v) = 2 => KernelVersionInt(v) = v[1] * Radix + v[2]
         /\ Len(v) = 3 => KernelVersionInt(v) = (v[1] * Radix + v[2]) * Radix + v[3]
<1>1. \A i \in 1..Len(v) : \A n : AppendPadded(n, v[i]) = n * Radix + v[i]
  BY VersionNumbers, RadixPositive DEF AppendPadded
<1>2. CASE Len(v) = 1
  BY <1>2 DEF KernelVersionInt
<1>3. CASE Len(v) = 2
  BY <1>1, <1>3 DEF KernelVersionInt
<1>4. CASE Len(v) = 3
  BY <1>1, <1>4 DEF KernelVersionInt
<1> QED
  BY <1>2, <1>3, <1>4

\* Reading versions as one number keeps their order, when one has three numbers and
\* the other no more, and the padding holds them all.
LEMMA IntKeepsOrder ==
  ASSUME NEW v \in Versions, NEW w \in Versions, ~Misread(v), ~Misread(w), Len(w) = 3,
         KernelVersionInt(v) >= KernelVersionInt(w)
  PROVE  AtLeast(v, w)
<1>1. Len(v) \in 1..3 /\ \A i \in 1..Len(v) : v[i] \in Nat /\ v[i] < Radix
  BY VersionNumbers
<1>2. \A i \in 1..3 : w[i] \in Nat /\ w[i] < Radix
  BY VersionNumbers
<1> DEFINE high == w[1] * Radix + w[2]
<1>3. high \in Nat /\ w[1] + w[2] <= high
  BY <1>2, NotBelow, RadixPositive
<1>4. high * Radix + w[3] \in Nat /\ high + w[3] <= high * Radix + w[3]
  <2> HIDE DEF high
  <2> QED
    BY <1>2, <1>3, NotBelow, RadixPositive
<1>5. KernelVersionInt(v) >= high * Radix + w[3]
  BY ReadAs
<1>6. CASE Len(v) = 3
  <2> DEFINE low == v[1] * Radix + v[2]
  <2>1. low \in Nat
    BY <1>1, <1>6, NotBelow, RadixPositive
  <2>2. low > high \/ (low = high /\ v[3] >= w[3])
    <3>1. low * Radix + v[3] >= high * Radix + w[3]
      BY <1>5, <1>6, ReadAs
    <3> HIDE DEF low, high
    <3> QED
      BY <1>1, <1>2, <1>3, <1>6, <2>1, <3>1, LeadingPart, RadixPositive
  <2>3. v[1] > w[1] \/ (v[1] = w[1] /\ v[2] >= w[2])
    <3>1. v[1] * Radix + v[2] >= w[1] * Radix + w[2]
      BY <1>3, <2>1, <2>2
    <3>2. /\ v[1] \in Nat /\ v[2] \in Nat /\ v[2] < Radix
          /\ w[1] \in Nat /\ w[2] \in Nat /\ w[2] < Radix /\ Radix \in Nat
      BY <1>1, <1>2, <1>6, RadixPositive
    <3> QED
      BY <3>1, <3>2, LeadingPart
  <2>4. low > high /\ v[1] = w[1] => v[2] > w[2]
    BY <1>1, <1>2, <1>6, RadixPositive
  <2> QED
    BY <1>1, <1>2, <1>6, <2>2, <2>3, <2>4 DEF AtLeast
<1>7. CASE Len(v) = 2
  <2>1. v[1] > high \/ (v[1] = high /\ v[2] >= w[3])
    <3>1. v[1] * Radix + v[2] >= high * Radix + w[3]
      BY <1>5, <1>7, ReadAs
    <3>2. /\ v[1] \in Nat /\ v[2] \in Nat /\ v[2] < Radix
          /\ high \in Nat /\ w[3] \in Nat /\ w[3] < Radix /\ Radix \in Nat
      BY <1>1, <1>2, <1>3, <1>7, RadixPositive
    <3> HIDE DEF high
    <3> QED
      BY <3>1, <3>2, LeadingPart
  <2> HIDE DEF high
  <2> QED
    BY <1>1, <1>2, <1>3, <1>7, <2>1 DEF AtLeast
<1>8. CASE Len(v) = 1
  <2>1. v[1] >= high * Radix + w[3]
    BY <1>5, <1>8, ReadAs
  <2> HIDE DEF high
  <2>2. v[1] >= high + w[3]
    BY <1>1, <1>2, <1>3, <1>4, <1>8, <2>1
  <2> QED
    BY <1>1, <1>2, <1>3, <1>8, <2>2 DEF AtLeast
<1> QED
  BY <1>1, <1>6, <1>7, <1>8

-----------------------------------------------------------------------------
USE KindAssumption

Loop == {"veth", "attach", "up", "pass"}

WiredPair(m) == place[m] # "none" => m \in port /\ m \in up /\ m \in pass

\* What the loop has done: the pairs before the current one, and the steps
\* before the current one.
Built ==
  /\ pc \in Loop \cup {"addr"} => bridge
  /\ pc \in Loop => \A m \in Pairs : m < pair => WiredPair(m)
  /\ pc = "addr" => \A m \in Pairs : WiredPair(m)
  /\ pc \in {"up", "pass"} => (place[pair] # "none" => pair \in port)
  /\ pc = "pass" => (place[pair] # "none" => pair \in up)

IInv == TypeOK /\ Built /\ Wired

\* The parts of TypeOK: main, the bridge and the veths, the peers, the rest.
MainOK   == /\ pc \in Loop \cup {"down", "check", "delete", "bridge", "addr",
                                 "host", "pools", "running"}
            /\ pair \in Nat /\ (pc \in Loop => pair \in Pairs)
BridgeOK == bridge \in BOOLEAN /\ addr \in BOOLEAN /\ (addr => bridge)
VethsOK  == /\ place \in [Pairs -> {"none", "host"} \cup Pods]
            /\ grant \in [Pairs -> {"none"} \cup Pods]
            /\ \A n \in Pairs : place[n] \in Pods => grant[n] = place[n]
PeersOK  == /\ port \cup up \cup pass \subseteq {n \in Pairs : place[n] # "none"}
            /\ port # {} => bridge
HostOK   == /\ kernel \in Kernels /\ libxdp \in {"found", "missing", "unreadable"}
            /\ faults \in 0..MaxFaults

LEMMA TypeParts == TypeOK <=> MainOK /\ BridgeOK /\ VethsOK /\ PeersOK /\ HostOK
BY DEF TypeOK, MainOK, BridgeOK, VethsOK, PeersOK, HostOK, Loop

LEMMA TypePartsNext ==
  TypeOK' <=> MainOK' /\ BridgeOK' /\ VethsOK' /\ PeersOK' /\ HostOK'
BY DEF TypeOK, MainOK, BridgeOK, VethsOK, PeersOK, HostOK, Loop

-----------------------------------------------------------------------------
\* The pairs are the even steps from the first one.
LEMMA FirstPair == Offset \in Pairs /\ \A m \in Pairs : m >= Offset
BY DEF Pairs

\* Between a pair and the next step of the loop there is no pair, and past the
\* last one there is none either.
LEMMA NextPair ==
  ASSUME NEW n \in Pairs, NEW m \in Pairs
  PROVE  /\ m < n + 2 => m < n \/ m = n
         /\ n + 2 \notin Pairs => m < n \/ m = n
<1>1. /\ n \in Nat /\ m \in Nat
      /\ (n - Offset) % 2 = 0 /\ (m - Offset) % 2 = 0
      /\ m <= Offset + 2 * NumVeths - 1 /\ n >= Offset
  BY DEF Pairs
<1>2. m # n + 1
  BY <1>1
<1>3. ASSUME n + 2 \notin Pairs, m >= n + 2 PROVE FALSE
  <2>1. (n + 2 - Offset) % 2 = 0
    BY <1>1
  <2>2. n + 2 \in Offset..(Offset + 2 * NumVeths - 1)
    BY <1>1, <1>3
  <2> QED
    BY <2>1, <2>2, <1>3 DEF Pairs
<1> QED
  BY <1>1, <1>2, <1>3

-----------------------------------------------------------------------------
LEMMA InvInit == Init => IInv
<1> SUFFICES ASSUME Init PROVE IInv
  OBVIOUS
<1>1. MainOK /\ BridgeOK /\ HostOK
  <2>1. MainOK
    BY DEF Init, MainOK, Loop
  <2>2. BridgeOK
    BY DEF Init, BridgeOK
  <2> QED
    BY <2>1, <2>2 DEF Init, HostOK
<1>2. VethsOK /\ PeersOK
  <2>1. VethsOK
    BY DEF Init, VethsOK
  <2> QED
    BY <2>1 DEF Init, PeersOK
<1>3. Built /\ Wired
  BY DEF Init, Built, Wired, Loop
<1> QED
  BY <1>1, <1>2, <1>3, TypeParts DEF IInv

\* The steps of main keep the types.
LEMMA MainType ==
  ASSUME TypeOK, Built, MainStep
  PROVE  TypeOK'
<1> USE DEF MainStep, NoFault, Fault, Goto, Exit, host, peers, network, Unpaired
<1> DEFINE Parts == MainOK /\ BridgeOK /\ VethsOK /\ PeersOK /\ HostOK
<1>0. Parts
  BY TypeParts
<1>1. HostOK'
  BY <1>0 DEF HostOK, Start, CheckKindNetworkExists, DeleteKindNetwork, NewBridge,
              CreateVeth, Attach, SetVethUp, LoadAttachBpfXdpPass, IPAddrAdd,
              HostChecked, ServePools
<1>2. CASE Start \/ CheckKindNetworkExists \/ HostChecked \/ ServePools
  <2>1. UNCHANGED <<network, grant>>
    BY <1>2 DEF Start, CheckKindNetworkExists, HostChecked, ServePools
  <2>2. MainOK'
    BY <1>0, <1>2 DEF Start, CheckKindNetworkExists, HostChecked, ServePools,
                      MainOK, Loop
  <2>3. BridgeOK' /\ VethsOK' /\ PeersOK'
    BY <1>0, <2>1 DEF BridgeOK, VethsOK, PeersOK
  <2> QED
    BY <1>1, <2>2, <2>3, TypePartsNext
<1>3. CASE DeleteKindNetwork \/ NewBridge
  <2>1. MainOK'
    BY <1>0, <1>3, FirstPair DEF DeleteKindNetwork, NewBridge, MainOK, Loop
  <2>2. BridgeOK'
    <3>1. \/ UNCHANGED <<bridge, addr>>
          \/ bridge' \in BOOLEAN /\ addr' = FALSE
      BY <1>3 DEF DeleteKindNetwork, NewBridge
    <3>2. BridgeOK
      BY <1>0
    <3>3. CASE UNCHANGED <<bridge, addr>>
      BY <3>2, <3>3 DEF BridgeOK
    <3>4. CASE bridge' \in BOOLEAN /\ addr' = FALSE
      BY <3>4, Zenon DEF BridgeOK
    <3> QED
      BY <3>1, <3>3, <3>4
  <2>3. VethsOK'
    BY <1>0, <1>3 DEF DeleteKindNetwork, NewBridge, VethsOK
  <2>4. PeersOK'
    BY <1>0, <1>3 DEF DeleteKindNetwork, NewBridge, PeersOK
  <2> QED
    BY <1>1, <2>1, <2>2, <2>3, <2>4, TypePartsNext
<1>4. CASE CreateVeth
  <2>1. pair \in Pairs /\ MainOK'
    BY <1>0, <1>4 DEF CreateVeth, MainOK, Loop
  <2>2. VethsOK'
    BY <1>0, <1>4, <2>1 DEF CreateVeth, VethsOK
  <2>3. BridgeOK' /\ PeersOK'
    BY <1>0, <1>4, <2>1 DEF CreateVeth, BridgeOK, PeersOK, VethsOK
  <2> QED
    BY <1>1, <2>1, <2>2, <2>3, TypePartsNext
<1>5. CASE Attach \/ SetVethUp
  <2>1. pair \in Pairs /\ MainOK'
    BY <1>0, <1>5 DEF Attach, SetVethUp, MainOK, Loop
  <2>2. BridgeOK' /\ VethsOK'
    BY <1>0, <1>5 DEF Attach, SetVethUp, BridgeOK, VethsOK
  <2>3. PeersOK'
    <3>1. CASE Attach
      <4>1. bridge /\ bridge' = bridge
        BY <3>1 DEF Attach, Built, Loop
      <4> QED
        BY <1>0, <3>1, <2>1, <4>1 DEF Attach, PeersOK
    <3>2. CASE SetVethUp
      BY <1>0, <3>2, <2>1 DEF SetVethUp, PeersOK
    <3> QED
      BY <1>5, <3>1, <3>2
  <2> QED
    BY <1>1, <2>1, <2>2, <2>3, TypePartsNext
<1>6. CASE LoadAttachBpfXdpPass
  <2>1. pair \in Pairs /\ MainOK'
    BY <1>0, <1>6 DEF LoadAttachBpfXdpPass, MainOK, Loop
  <2>2. BridgeOK' /\ VethsOK' /\ PeersOK'
    BY <1>0, <1>6, <2>1 DEF LoadAttachBpfXdpPass, BridgeOK, VethsOK, PeersOK
  <2> QED
    BY <1>1, <2>1, <2>2, TypePartsNext
<1>7. CASE IPAddrAdd
  <2>1. MainOK' /\ VethsOK' /\ PeersOK'
    BY <1>0, <1>7 DEF IPAddrAdd, MainOK, VethsOK, PeersOK, Loop
  <2>2. BridgeOK'
    BY <1>0, <1>7 DEF IPAddrAdd, BridgeOK, Built
  <2> QED
    BY <1>1, <2>1, <2>2, TypePartsNext
<1> QED
  BY <1>2, <1>3, <1>4, <1>5, <1>6, <1>7

\* The steps of the pods, and the death of the process, keep the types: what a pod
\* moves is a pair, and main's part is its own.
LEMMA OtherType ==
  ASSUME TypeOK, Crash \/ PodStep
  PROVE  TypeOK'
<1> USE DEF Fault, Goto, Exit, host, peers, network, Unpaired, Unheld
<1>0. MainOK /\ BridgeOK /\ VethsOK /\ PeersOK /\ HostOK
  BY TypeParts
<1>1. CASE Crash
  <2>1. MainOK' /\ HostOK'
    BY <1>0, <1>1 DEF Crash, MainOK, HostOK, Loop
  <2>2. BridgeOK' /\ VethsOK' /\ PeersOK'
    BY <1>0, <1>1 DEF Crash, BridgeOK, VethsOK, PeersOK
  <2> QED
    BY <2>1, <2>2, TypePartsNext
<1>2. ASSUME NEW n \in Pairs,
             \/ \E p \in Pods : Allocate(n, p)
             \/ CmdAdd(n) \/ CmdDel(n) \/ NamespaceGone(n) \/ GiveUp(n)
      PROVE  TypeOK'
  <2>1. UNCHANGED <<pc, pair, bridge, addr, host, faults>>
    BY <1>2 DEF Allocate, CmdAdd, CmdDel, NamespaceGone, GiveUp
  <2>2. MainOK' /\ BridgeOK' /\ HostOK'
    BY <1>0, <2>1 DEF MainOK, BridgeOK, HostOK, Loop
  <2>3. VethsOK'
    <3>1. CASE \E p \in Pods : Allocate(n, p)
      BY <1>0, <3>1 DEF Allocate, VethsOK
    <3>2. CASE CmdAdd(n)
      BY <1>0, <3>2 DEF CmdAdd, VethsOK
    <3>3. CASE CmdDel(n)
      BY <1>0, <3>3 DEF CmdDel, VethsOK
    <3>4. CASE NamespaceGone(n)
      BY <1>0, <3>4 DEF NamespaceGone, VethsOK
    <3>5. CASE GiveUp(n)
      BY <1>0, <3>5 DEF GiveUp, VethsOK
    <3> QED
      BY <1>2, <3>1, <3>2, <3>3, <3>4, <3>5
  <2>4. PeersOK'
    <3>1. CASE \E p \in Pods : Allocate(n, p)
      BY <1>0, <3>1 DEF Allocate, PeersOK
    <3>2. CASE CmdAdd(n)
      BY <1>0, <3>2 DEF CmdAdd, PeersOK, VethsOK
    <3>3. CASE CmdDel(n)
      BY <1>0, <3>3 DEF CmdDel, PeersOK, VethsOK
    <3>4. CASE NamespaceGone(n)
      BY <1>0, <3>4 DEF NamespaceGone, PeersOK, VethsOK
    <3>5. CASE GiveUp(n)
      BY <1>0, <3>5 DEF GiveUp, PeersOK
    <3> QED
      BY <1>2, <3>1, <3>2, <3>3, <3>4, <3>5
  <2> QED
    BY <2>2, <2>3, <2>4, TypePartsNext
<1> QED
  BY <1>1, <1>2 DEF PodStep

LEMMA TypeNext ==
  ASSUME TypeOK, Built, [Next]_vars
  PROVE  TypeOK'
<1>1. CASE UNCHANGED vars
  BY <1>1, TypeParts, TypePartsNext DEF vars, network, peers, host, MainOK, BridgeOK,
                                        VethsOK, PeersOK, HostOK, Loop
<1> QED
  BY <1>1, MainType, OtherType DEF Next

-----------------------------------------------------------------------------
\* A pod step leaves main and the bridge alone, and a pair that is there after it
\* was there before it, wired as it is now.
LEMMA PodKeepsPairs ==
  ASSUME TypeOK, PodStep
  PROVE  /\ UNCHANGED <<pc, pair, bridge, addr, host, faults>>
         /\ \A m \in Pairs : place'[m] # "none" =>
              /\ place[m] # "none"
              /\ m \in port => m \in port'
              /\ m \in up => m \in up'
              /\ m \in pass => m \in pass'
<1>1. VethsOK
  BY TypeParts
<1>2. ASSUME NEW n \in Pairs,
             (\E p \in Pods : Allocate(n, p)) \/ CmdAdd(n) \/ CmdDel(n) \/ GiveUp(n)
      PROVE  /\ UNCHANGED <<pc, pair, bridge, addr, host, faults, peers>>
             /\ \A m \in Pairs : place'[m] # "none" => place[m] # "none"
  BY <1>1, <1>2 DEF Allocate, CmdAdd, CmdDel, GiveUp, VethsOK, network, peers, Unheld
<1>3. ASSUME NEW n \in Pairs, NamespaceGone(n)
      PROVE  /\ UNCHANGED <<pc, pair, bridge, addr, host, faults>>
             /\ \A m \in Pairs : place'[m] # "none" => m # n /\ place[m] # "none"
             /\ port' = port \ {n} /\ up' = up \ {n} /\ pass' = pass \ {n}
  BY <1>1, <1>3 DEF NamespaceGone, VethsOK, Unpaired
<1> QED
  BY <1>2, <1>3 DEF PodStep, peers

LEMMA BuiltNext ==
  ASSUME TypeOK, Built, [Next]_vars
  PROVE  Built'
<1> USE DEF NoFault, Fault, Goto, Exit, Loop
<1>1. pair \in Nat /\ (pc \in Loop => pair \in Pairs) /\ VethsOK
  BY TypeParts DEF MainOK
<1>2. CASE \/ Start \/ CheckKindNetworkExists \/ DeleteKindNetwork \/ HostChecked
           \/ ServePools \/ Crash
  <2>1. pc' \notin (Loop \cup {"addr"}) \ {"bridge"}
    BY <1>2 DEF Start, CheckKindNetworkExists, DeleteKindNetwork, HostChecked,
                ServePools, Crash
  <2> QED
    BY <2>1 DEF Built
<1>3. CASE NewBridge
  BY <1>3, FirstPair DEF NewBridge, Built, Pairs
<1>4. CASE CreateVeth
  <2>1. \/ pc' = "down"
        \/ /\ pc = "veth" /\ pc' = "attach" /\ UNCHANGED <<pair, bridge>>
           /\ place' = [place EXCEPT ![pair] = "host"] /\ Unpaired(pair)
    BY <1>4 DEF CreateVeth
  <2>2. CASE pc' = "down"
    BY <2>2 DEF Built
  <2>3. CASE pc = "veth" /\ pc' = "attach" /\ UNCHANGED <<pair, bridge>>
             /\ place' = [place EXCEPT ![pair] = "host"] /\ Unpaired(pair)
    <3>1. \A m \in Pairs : m < pair => WiredPair(m)'
      <4> TAKE m \in Pairs
      <4> HAVE m < pair
      <4>1. m # pair /\ WiredPair(m)
        BY <1>1, <2>3 DEF Built, Pairs
      <4> QED
        BY <1>1, <2>3, <4>1 DEF WiredPair, VethsOK, Unpaired
    <3> QED
      BY <2>3, <3>1 DEF Built
  <2> QED
    BY <2>1, <2>2, <2>3
<1>5. CASE Attach
  BY <1>1, <1>5 DEF Attach, Built, WiredPair
<1>6. CASE SetVethUp
  BY <1>1, <1>6 DEF SetVethUp, Built, WiredPair
<1>7. CASE LoadAttachBpfXdpPass
  <2>1. CASE Exit
    BY <2>1 DEF Built
  <2>2. CASE ~Exit
    <3>1. /\ UNCHANGED <<bridge, place, port, up>> /\ pass' = pass \cup {pair}
          /\ pair' = pair + 2 /\ bridge /\ pair \in Pairs
          /\ pc' = IF pair + 2 \in Pairs THEN "veth" ELSE "addr"
      BY <1>1, <1>7, <2>2 DEF LoadAttachBpfXdpPass, Built
    <3>2. \A m \in Pairs : m < pair \/ m = pair => WiredPair(m)'
      BY <1>7, <3>1 DEF LoadAttachBpfXdpPass, Built, WiredPair
    <3>3. /\ pc' = "veth" => \A m \in Pairs : m < pair' => WiredPair(m)'
          /\ pc' = "addr" => \A m \in Pairs : WiredPair(m)'
      BY <3>1, <3>2, NextPair
    <3> QED
      BY <3>1, <3>3 DEF Built
  <2> QED
    BY <2>1, <2>2
<1>8. CASE IPAddrAdd
  BY <1>8 DEF IPAddrAdd, Built
<1>9. CASE PodStep
  BY <1>1, <1>9, PodKeepsPairs DEF Built, WiredPair
<1>10. CASE UNCHANGED vars
  BY <1>10 DEF vars, network, peers, Built, WiredPair
<1> QED
  BY <1>2, <1>3, <1>4, <1>5, <1>6, <1>7, <1>8, <1>9, <1>10 DEF Next, MainStep

LEMMA WiredNext ==
  ASSUME TypeOK, Built, Wired, [Next]_vars
  PROVE  Wired'
<1> USE DEF NoFault, Fault, Goto, Exit
<1>1. SUFFICES ASSUME KindCluster, pc' \in {"host", "pools", "running"}
               PROVE  /\ bridge' /\ addr'
                      /\ \A n \in Pairs : WiredPair(n)'
  BY DEF Wired, WiredPair
<1>2. CASE HostChecked \/ ServePools
  BY <1>1, <1>2 DEF HostChecked, ServePools, Wired, WiredPair, network, peers
<1>3. CASE IPAddrAdd
  BY <1>1, <1>3 DEF IPAddrAdd, Built, WiredPair, peers
<1>4. CASE PodStep
  BY <1>1, <1>4, PodKeepsPairs DEF Wired, WiredPair
<1>5. CASE UNCHANGED vars
  BY <1>1, <1>5 DEF vars, network, peers, Wired, WiredPair
<1> QED
  BY <1>1, <1>2, <1>3, <1>4, <1>5
     DEF Next, MainStep, Crash, Start, CheckKindNetworkExists, DeleteKindNetwork,
         NewBridge, CreateVeth, Attach, SetVethUp, LoadAttachBpfXdpPass

LEMMA InvHolds == Spec => []IInv
<1>1. IInv /\ [Next]_vars => IInv'
  BY TypeNext, BuiltNext, WiredNext DEF IInv
<1> QED
  BY InvInit, <1>1, PTL DEF Spec

-----------------------------------------------------------------------------
\* Every variable stays in its type, and the parts of the network fit together:
\* the veths a pod has are the ones it was given (kind.go, bridge.go, veth.go).
THEOREM TypeCorrect == Spec => []TypeOK
<1>1. IInv => TypeOK
  BY DEF IInv
<1> QED
  BY InvHolds, <1>1, PTL

\* Past CreateKindNetwork, main's network is complete, whatever was there before
\* it (kind.go:33-85).
THEOREM WiredSafety == Spec => []Wired
<1>1. IInv => Wired
  BY DEF IInv
<1> QED
  BY InvHolds, <1>1, PTL

\* No step of main moves or deletes a veth that is in a pod (veth.go:38-44).
THEOREM KeepsVeth == Spec => PodKeepsVeth
<1>1. ASSUME IInv, [Next]_vars
      PROVE  [\A n \in Pairs : (pc' # pc /\ place[n] \in Pods) => place'[n] = place[n]]_vars
  <2> SUFFICES ASSUME NEW n \in Pairs, pc' # pc, place[n] \in Pods
               PROVE  place'[n] = place[n]
    OBVIOUS
  <2>1. CASE CreateVeth
    <3>1. pair \in Pairs /\ VethsOK
      BY <1>1, <2>1, TypeParts DEF IInv, MainOK, Loop, CreateVeth
    <3>2. CASE place' = place
      BY <3>2
    <3>3. CASE place' # place
      <4>1. pair # n
        BY <2>1, <3>3 DEF CreateVeth, KindAssumption
      <4> QED
        BY <2>1, <3>1, <4>1 DEF CreateVeth, VethsOK
    <3> QED
      BY <3>2, <3>3
  <2>2. CASE ~CreateVeth
    <3>1. ~PodStep /\ ~UNCHANGED vars
      BY <1>1, PodKeepsPairs DEF IInv, vars
    <3> QED
      BY <1>1, <2>2, <3>1 DEF Next, MainStep, Start, CheckKindNetworkExists,
         DeleteKindNetwork, NewBridge, Attach, SetVethUp, LoadAttachBpfXdpPass,
         IPAddrAdd, HostChecked, ServePools, Crash, network
  <2> QED
    BY <2>1, <2>2
<1> QED
  BY InvHolds, <1>1, PTL DEF Spec, PodKeepsVeth

-----------------------------------------------------------------------------
\* A process does not change the kernel it runs on.
LEMMA KernelStays ==
  ASSUME [Next]_vars
  PROVE  kernel' = kernel
<1>1. CASE MainStep \/ Crash
  BY <1>1 DEF MainStep, Start, CheckKindNetworkExists, DeleteKindNetwork,
     NewBridge, CreateVeth, Attach, SetVethUp, LoadAttachBpfXdpPass,
     IPAddrAdd, HostChecked, ServePools, Crash, host
<1>2. CASE PodStep
  BY <1>2 DEF PodStep, Allocate, CmdAdd, CmdDel, NamespaceGone, GiveUp, host
<1>3. CASE UNCHANGED vars
  BY <1>3 DEF vars, host
<1> QED
  BY <1>1, <1>2, <1>3 DEF Next

\* The plugin serves pools on no kernel that is too old, but for one whose version is
\* misread: has more than three numbers, or one of more than four digits
\* (main.go:229-256, tools.go:90-106).
THEOREM KernelSafety == Spec => []KernelRecent
<1>1. Init => KernelRecent
  BY DEF Init, KernelRecent
<1>2. ASSUME IInv, KernelRecent, [Next]_vars
      PROVE  KernelRecent'
  <2> SUFFICES ASSUME pc' \in {"pools", "running"}
               PROVE  kernel' # <<>> /\ (AtLeast(kernel', MinKernel) \/ Misread(kernel'))
    BY DEF KernelRecent
  <2>1. kernel' = kernel /\ kernel \in Versions \cup {<<>>}
    <3>1. kernel \in Kernels
      BY <1>2, TypeParts DEF IInv, HostOK
    <3> QED
      BY <1>2, <3>1, KernelStays
  <2>2. CASE pc \in {"pools", "running"}
    BY <1>2, <2>1, <2>2 DEF KernelRecent
  <2>3. CASE HostChecked /\ CheckHost
    <3>1. AtLeast(kernel, MinKernel) \/ Misread(kernel)
      <4>1. /\ kernel \in Versions
            /\ KernelVersionInt(kernel) >= KernelVersionInt(MinKernel)
        BY <2>1, <2>3 DEF CheckHost
      <4> QED
        BY <4>1, MinimumFits, IntKeepsOrder, Zenon
    <3> QED
      BY <2>1, <2>3, <3>1 DEF CheckHost
  <2>4. pc \in {"pools", "running"} \/ (HostChecked /\ CheckHost)
    <3>1. CASE PodStep \/ UNCHANGED vars
      BY <1>2, <3>1, PodKeepsPairs DEF IInv, vars
    <3>2. CASE MainStep \/ Crash
      BY <3>2 DEF MainStep, Start, CheckKindNetworkExists, DeleteKindNetwork,
         NewBridge, CreateVeth, Attach, SetVethUp, LoadAttachBpfXdpPass,
         IPAddrAdd, HostChecked, ServePools, Crash, Goto, Exit
    <3> QED
      BY <1>2, <3>1, <3>2 DEF Next
  <2> QED
    BY <2>2, <2>3, <2>4
<1>3. IInv /\ KernelRecent /\ [Next]_vars => KernelRecent'
  BY <1>2
<1> QED
  BY InvHolds, <1>1, <1>3, PTL DEF Spec
=============================================================================
