---------------------------- MODULE DeviceShares ----------------------------
(***************************************************************************)
(* How the devices of a host are shared out among pools, without a config  *)
(* file, drivers, limits or marks.                                         *)
(*                                                                         *)
(* A share is <<d, 0>>, all of device d, or <<d, i>>, the i-th part of it. *)
(* The pools have their turns one after another.  In its turn a pool may   *)
(* be given a device of which nobody has a share, or parts that nobody has *)
(* of a device that nobody has as a whole.  What a pool was given it keeps *)
(* for good, and nothing is added to it when its turn is over.             *)
(***************************************************************************)
EXTENDS Naturals

CONSTANTS
  Hosts,   \* the devices
  Parts    \* numbers of the parts a device may be cut into

VARIABLES
  turn,    \* the pool whose turn it is
  given    \* pairs of a pool and a share it has

vars == <<turn, given>>

Init ==
  /\ turn = 0
  /\ given = {}

Given(d, i) == \E g \in given : g[2] = <<d, i>>

GiveWhole(d) ==
  /\ \A i \in Parts \cup {0} : ~Given(d, i)
  /\ given' = given \cup {<<turn, <<d, 0>>>>}
  /\ UNCHANGED turn

GiveParts(d, I) ==
  /\ \A i \in I \cup {0} : ~Given(d, i)
  /\ given' = given \cup {<<turn, <<d, i>>>> : i \in I}
  /\ UNCHANGED turn

NextTurn ==
  /\ turn' = turn + 1
  /\ UNCHANGED given

Next ==
  \/ NextTurn
  \/ \E d \in Hosts : GiveWhole(d) \/ \E I \in SUBSET Parts : GiveParts(d, I)

Spec == Init /\ [][Next]_vars
=============================================================================
