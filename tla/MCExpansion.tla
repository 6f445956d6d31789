----------------------------- MODULE MCExpansion ----------------------------
(* Instances of Expansion for TLC.                                         *)
EXTENDS Expansion, TLC

\* Clients are interchangeable, and so are interfaces.
Symmetry == Permutations(Clients) \cup Permutations(Serials)
=============================================================================
