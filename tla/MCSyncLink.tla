----------------------------- MODULE MCSyncLink ------------------------------
(***************************************************************************)
(* SyncLink with three variables over a few registers: equal, nested,      *)
(* overlapping, touching and distant variables in every order of entry.    *)
(***************************************************************************)
EXTENDS SyncLink

CONSTANTS v1, v2, v3
=============================================================================
