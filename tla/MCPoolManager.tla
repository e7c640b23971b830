--------------------------- MODULE MCPoolManager ---------------------------
(***************************************************************************)
(* Instances of PoolManager for TLC.                                       *)
(***************************************************************************)
EXTENDS PoolManager, TLC

CONSTANTS d1, d2, d3

\* Pool 1 has two devices and both ways to share a map, pool 2 one device.
MCPoolOf == d1 :> 1 @@ d2 :> 1 @@ d3 :> 2
=============================================================================
