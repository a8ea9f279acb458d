------------------------------ MODULE MCCollect ------------------------------
(***************************************************************************)
(* Collect with two variables, one slave on a serial port and one on the   *)
(* network, room for the task of one device, and as many cells as the      *)
(* longest chain needs, so that a frame built again takes the cell of      *)
(* another.                                                                *)
(***************************************************************************)
EXTENDS Collect

CONSTANTS v1, v2, sa, sc, rs, net, c1, c2, e1, e2

DeviceOfSlave == [s \in Slaves |-> IF s = sc THEN net ELSE rs]
=============================================================================
