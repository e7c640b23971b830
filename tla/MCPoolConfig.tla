---------------------------- MODULE MCPoolConfig ----------------------------
(***************************************************************************)
(* Instances of PoolConfig for TLC: a small host and families of config    *)
(* files for it.                                                           *)
(***************************************************************************)
EXTENDS PoolConfig, TLC

CONSTANTS e1, e2, e3, v1, ice, i40e

Nic(drv, addr) == [driver |-> drv, port |-> "physical", special |-> FALSE,
                   oddVeth |-> FALSE, addressed |-> addr]

\* Two ports with subfunctions, one of them addressed, one plain, a veth.
MCFacts == e1 :> Nic(ice, TRUE) @@ e2 :> Nic(ice, FALSE) @@ e3 :> Nic(i40e, FALSE)
             @@ v1 :> [Nic(i40e, FALSE) EXCEPT !.port = "virtual"]

Dev(by, d, n) == [by |-> by, dev |-> d, sec |-> n]
Drv(name, p, n, ex, addr) ==
  [name |-> name, primary |-> p, sec |-> n, excluded |-> ex, exclAddr |-> addr]

Source(devs, drvs) == [devices |-> devs, drivers |-> drvs]
Empty == Source(<<>>, <<>>)

General(m, devs, drvs) ==
  [mode |-> m, unpriv |-> FALSE, nodes |-> "none", node |-> Empty,
   devices |-> devs, drivers |-> drvs]
ForNode(m, node) ==
  [General(m, <<>>, <<Drv(ice, 0, 0, {}, FALSE)>>) EXCEPT !.nodes = "this", !.node = node]

\* Drivers with and without limits and exclusions, alone or with a device.
IceDrivers == {Drv(ice, p, n, ex, FALSE) : p \in 0..2, n \in 0..1, ex \in {{}, {e1}}}
IceSources ==
  {Source(<<>>, <<v>>) : v \in IceDrivers}
    \cup {Source(<<Dev("name", e1, n)>>, <<v>>) : n \in 0..1, v \in IceDrivers}
MixedSources ==
  {Source(<<Dev("name", e2, 1), Dev("name", e2, 1), Dev("mac", e1, 0)>>,
          <<Drv(ice, 1, 0, {}, FALSE)>>),
   Source(<<>>, <<Drv(i40e, 0, 0, {}, FALSE), Drv(ice, 1, 2, {e2}, FALSE)>>),
   Source(<<>>, <<Drv(ice, 1, 1, {}, FALSE), Drv(ice, 1, 1, {}, FALSE)>>),
   Source(<<>>, <<Drv(ice, 0, 1, {}, TRUE)>>)}

GeneralPools(sources) == {General(m, s.devices, s.drivers) : m \in Modes, s \in sources}

\* One pool for every way to list devices, then two that compete.
FirstPools ==
  GeneralPools(IceSources \cup MixedSources)
    \cup {ForNode(m, s) : m \in Modes, s \in MixedSources}
LaterPools ==
  GeneralPools(MixedSources)
    \cup {[General("cdq", <<Dev("pci", e3, 0)>>, <<>>) EXCEPT !.unpriv = TRUE],
          General("primary", <<Dev("name", e3, 0)>>, <<>>),
          [General("primary", <<>>, <<>>) EXCEPT !.nodes = "others"],
          ForNode("primary", Empty)}
PairConfigs == {<<a, b>> : a \in FirstPools, b \in LaterPools}

\* Three pools after one another on the same two ports.
TriplePools == GeneralPools(MixedSources \cup {Source(<<>>, <<Drv(ice, 1, 1, {}, FALSE)>>)})
TripleConfigs == {<<a, b, c>> : a, b, c \in TriplePools}

MCConfigs == PairConfigs \cup TripleConfigs

\* The files of the runs that disagree with the documentation.
CdqConfigs ==
  {<<General("cdq", <<>>, <<Drv(ice, p, 0, {}, FALSE)>>),
     General("cdq", <<>>, <<Drv(ice, q, 0, {}, FALSE)>>)>> : p, q \in 1..2}
ListedConfigs ==
  {<<General(m, <<Dev(by, d, n)>>, <<>>)>> :
     m \in Modes, by \in {"name", "mac", "pci"}, d \in {e1, e2, e3}, n \in 0..1}
=============================================================================
