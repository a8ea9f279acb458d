------------------------------ MODULE MCReport ------------------------------
(* Report with variables of one and of two devices, in frames of two, for  *)
(* each protocol, with two kinds of averages and with and without the      *)
(* clock.                                                                  *)
EXTENDS Report

MCDevices == {<<"a", "a", "a">>, <<"a", "a", "b">>, <<"a", "b", "a">>}
MCSetups ==
  {[proto |-> "hjt212", order |-> <<"real">>, sharp |-> FALSE],
   [proto |-> "hjt212", order |-> <<"real", "min">>, sharp |-> TRUE],
   [proto |-> "bjdc", order |-> <<"real">>, sharp |-> FALSE],
   [proto |-> "dm101", order |-> <<"real">>, sharp |-> FALSE]}
=============================================================================
