------------------------------ MODULE MCAverages -----------------------------
(***************************************************************************)
(* Averages of two variables on two devices: enough for two tasks to hold  *)
(* copies of the same name, which takes a change in between.               *)
(***************************************************************************)
EXTENDS Averages

CONSTANTS n1, n2, d1, d2
=============================================================================
