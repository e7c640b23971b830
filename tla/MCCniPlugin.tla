---------------------------- MODULE MCCniPlugin ----------------------------
(***************************************************************************)
(* Instances of CniPlugin for TLC.                                         *)
(***************************************************************************)
EXTENDS CniPlugin

\* Every configuration; and the plain one of a primary device with IPAM.
AllConfs == Conf
PlainConfs == {[mode |-> "primary", ipam |-> TRUE, filters |-> FALSE,
                ethtool |-> FALSE, pinned |-> FALSE, skip |-> FALSE]}
=============================================================================
