-------------------------- MODULE MCViewDispatcher --------------------------
(* An instance of ViewDispatcher for TLC.                                   *)
EXTENDS ViewDispatcher

ViewSymmetry == Permutations(Views)
=============================================================================
