----------------------------- MODULE FdService -----------------------------
(***************************************************************************)
(* What a UDS server promises, without sockets, messages or timeouts.      *)
(*                                                                         *)
(* A server is born with the devices of one allocation.  It serves at most *)
(* one client.  It may come to trust that client, once, and only because   *)
(* one container of a pod known to the kubelet holds exactly the served    *)
(* devices at that moment.  From then on, and only then, it may hand the   *)
(* file descriptor of a served device to that client, and to nobody else,  *)
(* until it is over.                                                       *)
(***************************************************************************)
EXTENDS FiniteSets

CONSTANTS
  Clients,    \* processes able to connect to the socket
  NoClient,   \* the value of "client" before one is accepted
  Pods,       \* pods the kubelet may know of
  Devices,    \* devices of this type on the node
  Served      \* the devices of the allocation this server was created for

VARIABLES
  phase,      \* "waiting", "accepted", "trusted" or "over"
  client,     \* the only client ever served
  holds,      \* holds[p]: the device sets of the containers of pod p
  granted     \* granted[c]: the devices whose descriptor went to client c

vars == <<phase, client, holds, granted>>

Init ==
  /\ phase = "waiting"
  /\ client = NoClient
  /\ holds \in [Pods -> SUBSET SUBSET Devices]
  /\ granted = [c \in Clients |-> {}]

Accept(c) ==
  /\ phase = "waiting"
  /\ phase' = "accepted"
  /\ client' = c
  /\ UNCHANGED <<holds, granted>>

\* Some pod has a container with exactly the served devices.
Trust ==
  /\ phase = "accepted"
  /\ \E p \in Pods : Served \in holds[p]
  /\ phase' = "trusted"
  /\ UNCHANGED <<client, holds, granted>>

Grant(d) ==
  /\ phase = "trusted"
  /\ d \in Served
  /\ granted' = [granted EXCEPT ![client] = @ \cup {d}]
  /\ UNCHANGED <<phase, client, holds>>

Finish ==
  /\ phase # "over"
  /\ phase' = "over"
  /\ UNCHANGED <<client, holds, granted>>

\* The cluster changes on its own.
Reschedule ==
  /\ holds' \in [Pods -> SUBSET SUBSET Devices]
  /\ UNCHANGED <<phase, client, granted>>

Next ==
  \/ \E c \in Clients : Accept(c)
  \/ Trust
  \/ \E d \in Served : Grant(d)
  \/ Finish
  \/ Reschedule

Spec == Init /\ [][Next]_vars
============================================================================
