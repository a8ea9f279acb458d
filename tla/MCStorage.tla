------------------------------ MODULE MCStorage ------------------------------
(***************************************************************************)
(* Storage with few producers and a short queue and table, so that the     *)
(* queue fills up, rows are purged twice, and a commit, a reset and a      *)
(* power failure meet the storage thread in each of its steps.             *)
(***************************************************************************)
EXTENDS Storage

CONSTANT p1
=============================================================================
