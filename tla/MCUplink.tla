------------------------------ MODULE MCUplink ------------------------------
(* Uplink with each protocol and its options, and transparent transfer in  *)
(* each role.                                                              *)
EXTENDS Uplink

MCRoles == {"tcp_client", "tcp_server", "udp_client", "udp_server"}
MCSetups ==
  {[proto |-> p[1], role |-> "tcp_client", opts |-> p[2]] :
     p \in {<<"bjdc", {"ini"}>>, <<"bjdc", {}>>,
            <<"hjt212", {}>>, <<"hjt212", {"heart"}>>,
            <<"hjt212", {"verify", "heart"}>>, <<"dm101", {}>>}}
  \cup {[proto |-> "xfer", role |-> r, opts |-> {}] : r \in MCRoles}
=============================================================================
