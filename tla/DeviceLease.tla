---------------------------- MODULE DeviceLease ----------------------------
(***************************************************************************)
(* What ADD and DEL promise together of one device and its addresses,      *)
(* without calls, retries or failures.                                     *)
(*                                                                         *)
(* A device is on the node or in one pod, and gets from pod to pod only by *)
(* way of the node.  With address management on, a pod has leased an       *)
(* address before the device comes to it; the device answers for that      *)
(* address only in the pod, and the lease is not returned before the       *)
(* device has left.                                                        *)
(***************************************************************************)
CONSTANTS
  Pods,
  NoPod,
  Node      \* the value of "where" for a device that is in no pod

VARIABLES
  paying,   \* addresses are leased
  where,    \* the pod the device is in, or Node
  answers,  \* the pod whose address the device answers for, or NoPod
  leases    \* pods that have leased an address

vars == <<paying, where, answers, leases>>

Init ==
  /\ paying \in BOOLEAN
  /\ where = Node
  /\ answers = NoPod
  /\ leases = {}

Lease(p) ==
  /\ paying
  /\ leases' = leases \cup {p}
  /\ UNCHANGED <<paying, where, answers>>

Enter(p) ==
  /\ where = Node
  /\ paying => p \in leases
  /\ where' = p
  /\ UNCHANGED <<paying, answers, leases>>

Answer(p) ==
  /\ where = p
  /\ p \in leases
  /\ answers' = p
  /\ UNCHANGED <<paying, where, leases>>

Leave ==
  /\ where # Node
  /\ where' = Node
  /\ answers' = NoPod
  /\ UNCHANGED <<paying, leases>>

Return(p) ==
  /\ where # p
  /\ leases' = leases \ {p}
  /\ UNCHANGED <<paying, where, answers>>

Next == Leave \/ \E p \in Pods : Lease(p) \/ Enter(p) \/ Answer(p) \/ Return(p)

Spec == Init /\ [][Next]_vars
=============================================================================
