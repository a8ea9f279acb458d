------------------------------ MODULE MCVarList ------------------------------
(***************************************************************************)
(* VarList with a handful of variables: the sort moves a node to the head, *)
(* to the middle and past several others.                                  *)
(***************************************************************************)
EXTENDS VarList

CONSTANTS v1, v2, v3, v4

\* A name is only compared with names.
NameSymmetry == Permutations(Names)
=============================================================================
