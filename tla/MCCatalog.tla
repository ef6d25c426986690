----------------------------- MODULE MCCatalog -----------------------------
(***************************************************************************)
(* Instance of Catalog for model checking: the administrators are alike.   *)
(***************************************************************************)
EXTENDS Catalog, TLC

Symmetry == Permutations(Admins)
=============================================================================
