---------------------------- MODULE KindNetwork ----------------------------
(***************************************************************************)
(* The start of the device plugin in a Kind cluster: main                  *)
(* (cmd/deviceplugin/main.go) builds a bridge and a number of veth pairs   *)
(* (internal/networking: kind.go, bridge.go, veth.go), checks the host,    *)
(* and only then serves its pools.  One end of a pair is moved into a pod; *)
(* the other, its peer, stays on the host as a port of the bridge.         *)
(*                                                                         *)
(* Any call may fail, and the process may die at any moment.  Nothing it   *)
(* built is taken down then; the DaemonSet starts it again, and it builds  *)
(* its network over what it finds, while pods come and go.                 *)
(***************************************************************************)
EXTENDS Naturals, Sequences

CONSTANTS
  NumVeths,     \* pairs of the network; configureKindSecondaryNetwork has 4
  Offset,       \* number of the first veth; it has 6
  Pods,
  KindCluster,  \* TRUE when the configuration says so
  Kernels,      \* kernel versions a host may have; <<>>: one that does not parse
  MinKernel,    \* constants.Afxdp.MinumumKernel
  Radix,        \* 10000: the numbers of a version are padded to four digits
  MaxFaults     \* bound: failing calls and deaths of the process

\* The pairs, named by the number of the veth that pods get.
Pairs == {n \in Offset..(Offset + 2 * NumVeths - 1) : (n - Offset) % 2 = 0}

\* The numbers between the dots of a version, as many as there are; of six, padded,
\* the integer has no place in 64 bits, and the version does not parse.  A number
\* may need one digit more than it is padded to.
Versions ==
  {v \in Seq(Nat) : Len(v) \in 1..5 /\ \A i \in 1..Len(v) : v[i] < 10 * Radix}

ASSUME KindAssumption ==
  /\ NumVeths \in Nat \ {0}
  /\ Offset \in Nat /\ Offset >= NumVeths
  /\ "none" \notin Pods /\ "host" \notin Pods
  /\ KindCluster \in BOOLEAN
  /\ Radix \in Nat \ {0}
  /\ Kernels \subseteq Versions \cup {<<>>}
  /\ MinKernel \in Versions /\ Len(MinKernel) = 3
  /\ \A i \in 1..3 : MinKernel[i] < Radix
  /\ MaxFaults \in Nat

VARIABLES
  pc,       \* where main is, "down" when there is no process
  pair,     \* the pair of the loop of CreateKindNetwork
  bridge,   \* the bridge is there,
  addr,     \* ... with its address
  place,    \* place[n]: where veth n is: "none", "host" or the pod
  port,     \* pairs whose peer is a port of the bridge,
  up,       \* ... whose peer is up,
  pass,     \* ... and has the xdp-pass program
  grant,    \* grant[n]: the pod that Allocate gave veth n to, or "none"
  kernel,   \* version of the host's kernel
  libxdp,   \* "found" in the library paths, "missing", or "unreadable"
  faults    \* faults so far

peers   == <<port, up, pass>>
network == <<bridge, addr, place, peers>>
host    == <<kernel, libxdp>>
vars    == <<pc, pair, network, grant, host, faults>>

Init ==
  /\ pc = "down" /\ pair = Offset
  /\ bridge = FALSE /\ addr = FALSE
  /\ place = [n \in Pairs |-> "none"]
  /\ port = {} /\ up = {} /\ pass = {}
  /\ grant = [n \in Pairs |-> "none"]
  /\ kernel \in Kernels /\ libxdp \in {"found", "missing", "unreadable"}
  /\ faults = 0

Fault   == faults < MaxFaults /\ faults' = faults + 1
NoFault == UNCHANGED faults

\* main goes on at the given step; or it exits, whatever the code it exits with.
Goto(step) == pc' = step /\ UNCHANGED pair
Exit       == Goto("down")

-----------------------------------------------------------------------------
(***************************************************************************)
(* main, up to CreateKindNetwork.                                          *)
(***************************************************************************)
\* The DaemonSet starts the process; configuration and logging come first.
Start ==
  /\ pc = "down"
  /\ \/ Goto(IF KindCluster THEN "check" ELSE "host") /\ NoFault
     \/ Exit /\ Fault
  /\ UNCHANGED <<network, grant, host>>

\* A lookup that fails is taken for a bridge that is not there.
CheckKindNetworkExists ==
  /\ pc = "check"
  /\ \/ Goto(IF bridge THEN "delete" ELSE "bridge") /\ NoFault
     \/ Goto("bridge") /\ Fault
  /\ UNCHANGED <<network, grant, host>>

\* With the bridge go its address and its ports, not the interfaces they were.
\* The loop over the veths runs from Offset up to NumVeths: over none of them.
DeleteKindNetwork ==
  /\ pc = "delete"
  /\ \/ /\ Goto("bridge") /\ NoFault
        /\ bridge' = FALSE /\ addr' = FALSE /\ port' = {}
     \/ Exit /\ Fault /\ UNCHANGED <<bridge, addr, port>>
  /\ UNCHANGED <<place, up, pass, grant, host>>

\* A bridge that is there after all is deleted and made again; then it is set up.
NewBridge ==
  /\ pc = "bridge"
  /\ \/ /\ pc' = "veth" /\ pair' = Offset /\ NoFault
        /\ bridge' = TRUE /\ addr' = FALSE /\ port' = {}
     \/ /\ Exit /\ Fault
        /\ \/ UNCHANGED <<bridge, addr, port>>
           \/ bridge' \in BOOLEAN /\ addr' = FALSE /\ port' = {}
  /\ UNCHANGED <<place, up, pass, grant, host>>

-----------------------------------------------------------------------------
(***************************************************************************)
(* The body of CreateKindNetwork's loop, for one pair.                     *)
(***************************************************************************)
\* With a veth goes its peer, and what the peer was.
Unpaired(n) == port' = port \ {n} /\ up' = up \ {n} /\ pass' = pass \ {n}

\* Faulty variants: a pair that exists is an error; or it is deleted by the name
\* of its peer, which is always on the host.
CreateVethOnce ==
  /\ pc = "veth"
  /\ \/ /\ place[pair] = "none" /\ Goto("attach") /\ NoFault
        /\ place' = [place EXCEPT ![pair] = "host"] /\ Unpaired(pair)
     \/ place[pair] # "none" /\ Exit /\ NoFault /\ UNCHANGED <<place, peers>>
     \/ Exit /\ Fault /\ UNCHANGED <<place, peers>>
  /\ UNCHANGED <<bridge, addr, grant, host>>

CreateVethByPeer ==
  /\ pc = "veth"
  /\ \/ /\ Goto("attach") /\ NoFault
        /\ place' = [place EXCEPT ![pair] = "host"] /\ Unpaired(pair)
     \/ Exit /\ Fault /\ UNCHANGED <<place, peers>>
  /\ UNCHANGED <<bridge, addr, grant, host>>

\* A pair that exists is deleted, by the name of the veth, and made again.  The
\* peer's name alone makes the kernel refuse the new pair; but a veth that is in
\* a pod is not found on the host, and cannot be deleted.
CreateVeth ==
  /\ pc = "veth"
  /\ \/ /\ place[pair] \in {"none", "host"} /\ Goto("attach") /\ NoFault
        /\ place' = [place EXCEPT ![pair] = "host"] /\ Unpaired(pair)
     \/ place[pair] \in Pods /\ Exit /\ NoFault /\ UNCHANGED <<place, peers>>
     \/ /\ Exit /\ Fault
        /\ \/ UNCHANGED <<place, peers>>
           \/ /\ place[pair] = "host"
              /\ place' = [place EXCEPT ![pair] = "none"] /\ Unpaired(pair)
  /\ UNCHANGED <<bridge, addr, grant, host>>

\* Faulty variant: an error is only logged.
AttachLogged ==
  /\ pc = "attach" /\ Goto("up")
  /\ \/ place[pair] # "none" /\ NoFault /\ port' = port \cup {pair}
     \/ Fault /\ UNCHANGED port
  /\ UNCHANGED <<bridge, addr, place, up, pass, grant, host>>

\* Attach finds the peer, unless the pair went with a pod in the meantime.
Attach ==
  /\ pc = "attach"
  /\ \/ place[pair] # "none" /\ Goto("up") /\ NoFault /\ port' = port \cup {pair}
     \/ place[pair] = "none" /\ Exit /\ NoFault /\ UNCHANGED port
     \/ Exit /\ Fault /\ UNCHANGED port
  /\ UNCHANGED <<bridge, addr, place, up, pass, grant, host>>

\* The error of GetPeer is dropped: without a peer, SetVethUp panics.
SetVethUp ==
  /\ pc = "up"
  /\ \/ place[pair] # "none" /\ Goto("pass") /\ NoFault /\ up' = up \cup {pair}
     \/ place[pair] = "none" /\ Exit /\ NoFault /\ UNCHANGED up
     \/ Exit /\ Fault /\ UNCHANGED up
  /\ UNCHANGED <<bridge, addr, place, port, pass, grant, host>>

\* Faulty variant: the loop goes one pair too far.
LoadAttachBpfXdpPassOneMore ==
  /\ pc = "pass"
  /\ place[pair] # "none" /\ NoFault
  /\ pass' = pass \cup {pair}
  /\ pair' = pair + 2
  /\ pc' = IF pair + 2 <= Offset + 2 * NumVeths THEN "veth" ELSE "addr"
  /\ UNCHANGED <<bridge, addr, place, port, up, grant, host>>

\* xdp-loader unloads every program of the peer before it loads this one.
LoadAttachBpfXdpPass ==
  /\ pc = "pass"
  /\ \/ /\ place[pair] # "none" /\ NoFault
        /\ pass' = pass \cup {pair}
        /\ pair' = pair + 2 /\ pc' = IF pair + 2 \in Pairs THEN "veth" ELSE "addr"
     \/ place[pair] = "none" /\ Exit /\ NoFault /\ UNCHANGED pass
     \/ Exit /\ Fault /\ pass' \in {pass, pass \ {pair}}
  /\ UNCHANGED <<bridge, addr, place, port, up, grant, host>>

IPAddrAdd ==
  /\ pc = "addr"
  /\ \/ Goto("host") /\ NoFault /\ addr' = TRUE
     \/ Exit /\ Fault /\ UNCHANGED addr
  /\ UNCHANGED <<bridge, place, peers, grant, host>>

-----------------------------------------------------------------------------
(***************************************************************************)
(* main, after the network.                                                *)
(***************************************************************************)
\* Faulty variant: a number is padded to one digit less.
AppendPaddedNarrow(i, x) == i * (IF 10 * x < Radix THEN Radix \div 10 ELSE Radix) + x

\* The digits of x, padded with zeros, behind those of i.
AppendPadded(i, x) == i * (IF x < Radix THEN Radix ELSE 10 * Radix) + x

\* All numbers of the version, padded and put behind each other, read as one.
KernelVersionInt(v) ==
  LET two   == AppendPadded(v[1], v[2])
      three == AppendPadded(two, v[3])
      four  == AppendPadded(three, v[4])
  IN  CASE Len(v) = 1 -> v[1]
        [] Len(v) = 2 -> two
        [] Len(v) = 3 -> three
        [] Len(v) = 4 -> four
        [] Len(v) = 5 -> AppendPadded(four, v[5])

\* Both library paths are read; one that cannot be read is an error.
HasLibxdp == libxdp = "found"

CheckHost ==
  /\ kernel # <<>>
  /\ KernelVersionInt(kernel) >= KernelVersionInt(MinKernel)
  /\ HasLibxdp

\* An error, or a host that does not do, ends the process; the network stays.
HostChecked ==
  /\ pc = "host"
  /\ \/ Goto(IF CheckHost THEN "pools" ELSE "down") /\ NoFault
     \/ Exit /\ Fault
  /\ UNCHANGED <<network, grant, host>>

\* A syncer that cannot start, which GetPoolConfigs refuses, an error in the pool
\* configurations and a second pool end the process, a pool that cannot be
\* initialised does not.
ServePools ==
  /\ pc = "pools"
  /\ \/ Goto("running") /\ NoFault
     \/ Exit /\ Fault
  /\ UNCHANGED <<network, grant, host>>

Crash ==
  /\ pc # "down"
  /\ Exit /\ Fault
  /\ UNCHANGED <<network, grant, host>>

MainStep ==
  \/ Start
  \/ CheckKindNetworkExists \/ DeleteKindNetwork \/ NewBridge
  \/ CreateVeth \/ Attach \/ SetVethUp \/ LoadAttachBpfXdpPass \/ IPAddrAdd
  \/ HostChecked \/ ServePools

-----------------------------------------------------------------------------
(***************************************************************************)
(* The pods.  Only Allocate needs the plugin; the CNI plugin moves a veth  *)
(* whether the plugin is there or not.                                     *)
(***************************************************************************)
Unheld(n) == grant' = [grant EXCEPT ![n] = "none"]

Allocate(n, p) ==
  /\ pc = "running"
  /\ grant[n] = "none" /\ place[n] = "host"
  /\ grant' = [grant EXCEPT ![n] = p]
  /\ UNCHANGED <<pc, pair, network, host, faults>>

CmdAdd(n) ==
  /\ grant[n] \in Pods /\ place[n] = "host"
  /\ place' = [place EXCEPT ![n] = grant[n]]
  /\ UNCHANGED <<pc, pair, bridge, addr, peers, grant, host, faults>>

CmdDel(n) ==
  /\ place[n] \in Pods
  /\ place' = [place EXCEPT ![n] = "host"] /\ Unheld(n)
  /\ UNCHANGED <<pc, pair, bridge, addr, peers, host, faults>>

\* The network namespace of the pod goes, and the pair with it.
NamespaceGone(n) ==
  /\ place[n] \in Pods
  /\ place' = [place EXCEPT ![n] = "none"] /\ Unheld(n) /\ Unpaired(n)
  /\ UNCHANGED <<pc, pair, bridge, addr, host, faults>>

\* A pod that never came up.
GiveUp(n) ==
  /\ grant[n] \in Pods /\ place[n] \notin Pods
  /\ Unheld(n)
  /\ UNCHANGED <<pc, pair, network, host, faults>>

PodStep ==
  \E n \in Pairs : \/ \E p \in Pods : Allocate(n, p)
                   \/ CmdAdd(n) \/ CmdDel(n) \/ NamespaceGone(n) \/ GiveUp(n)

Next == MainStep \/ Crash \/ PodStep

Spec == Init /\ [][Next]_vars

(***************************************************************************)
(* The process runs when it can, and the DaemonSet restarts it whenever it *)
(* has ended (its pods have the restart policy Always).  Nothing is        *)
(* assumed of the pods.                                                    *)
(***************************************************************************)
FairSpec == Spec /\ WF_vars(MainStep)

-----------------------------------------------------------------------------
\* Every variable stays in its type; what a peer is, it is while there is a pair,
\* a port only while there is a bridge, and a veth in a pod was given to that pod.
TypeOK ==
  /\ pc \in {"down", "check", "delete", "bridge", "veth", "attach", "up", "pass",
             "addr", "host", "pools", "running"}
  /\ pair \in Nat /\ (pc \in {"veth", "attach", "up", "pass"} => pair \in Pairs)
  /\ bridge \in BOOLEAN /\ addr \in BOOLEAN /\ (addr => bridge)
  /\ place \in [Pairs -> {"none", "host"} \cup Pods]
  /\ grant \in [Pairs -> {"none"} \cup Pods]
  /\ \A n \in Pairs : place[n] \in Pods => grant[n] = place[n]
  /\ port \cup up \cup pass \subseteq {n \in Pairs : place[n] # "none"}
  /\ port # {} => bridge
  /\ kernel \in Kernels /\ libxdp \in {"found", "missing", "unreadable"}
  /\ faults \in 0..MaxFaults

(***************************************************************************)
(* When main goes on to serve pools in a Kind cluster, then, whatever an   *)
(* earlier process left half built and whatever pods did meanwhile, the    *)
(* bridge has its address and every pair there is is wired to it.          *)
(***************************************************************************)
Wired ==
  KindCluster /\ pc \in {"host", "pools", "running"} =>
    /\ bridge /\ addr
    /\ \A n \in Pairs : place[n] # "none" => n \in port /\ n \in up /\ n \in pass

(***************************************************************************)
(* No step of main takes a veth out of a pod or deletes its pair, although *)
(* main deletes every pair it finds on the host.                           *)
(***************************************************************************)
PodKeepsVeth ==
  [][\A n \in Pairs : (pc' # pc /\ place[n] \in Pods) => place'[n] = place[n]]_vars

(***************************************************************************)
(* A kernel that is older than the minimum (versions compared number by    *)
(* number) gets past the check only when the integer that it is read as    *)
(* has more digits than it should: when the version has more numbers than  *)
(* the minimum has, or one that its padding does not hold.                 *)
(***************************************************************************)
AtLeast(v, w) ==
  LET n(i) == IF i <= Len(v) THEN v[i] ELSE 0 IN
  \/ n(1) > w[1]
  \/ n(1) = w[1] /\ n(2) > w[2]
  \/ n(1) = w[1] /\ n(2) = w[2] /\ n(3) >= w[3]

Misread(v) == Len(v) > 3 \/ \E i \in 1..Len(v) : v[i] >= Radix

KernelRecent ==
  pc \in {"pools", "running"} =>
    kernel # <<>> /\ (AtLeast(kernel, MinKernel) \/ Misread(kernel))

(***************************************************************************)
(* On a host that does, with a version in three numbers, the plugin gets   *)
(* to run again after any fault, over whatever it finds (veth.go: "veth    *)
(* interface already exists. It will be recreated").                       *)
(***************************************************************************)
HostMeets == Len(kernel) = 3 /\ ~Misread(kernel) /\ AtLeast(kernel, MinKernel) /\ HasLibxdp

Recovers == HostMeets => []<>(pc = "running")

(***************************************************************************)
(* It does so if no veth stays in a pod for ever.                          *)
(***************************************************************************)
RecoversOnceFree ==
  (\A n \in Pairs : []<>(place[n] \notin Pods)) => Recovers
=============================================================================
