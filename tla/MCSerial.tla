------------------------------ MODULE MCSerial ------------------------------
(* Serial with two variables, both protocols and a short burst.            *)
EXTENDS Serial
=============================================================================
