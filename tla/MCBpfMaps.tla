----------------------------- MODULE MCBpfMaps -----------------------------
(***************************************************************************)
(* Instances of BpfMaps for TLC.                                           *)
(***************************************************************************)
EXTENDS BpfMaps, TLC

CONSTANTS d1, d2, d3, q1, q2

\* Two devices in one pool, and one in a pool of its own.
MCPoolOf == d1 :> q1 @@ d2 :> q1 @@ d3 :> q2

Symmetry == Permutations(Pods)
=============================================================================
