------------------------------ MODULE MCAccess ------------------------------
(***************************************************************************)
(* Instance of Access for model checking: publish requests are alike.      *)
(***************************************************************************)
EXTENDS Access, TLC

Symmetry == Permutations(Managers)
=============================================================================
