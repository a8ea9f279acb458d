------------------------------ MODULE MCZigbee ------------------------------
(* Zigbee with two nodes, polled in turn, in either role.                  *)
EXTENDS Zigbee

CONSTANTS n1, n2
MCChain == <<n1, n2>>
=============================================================================
