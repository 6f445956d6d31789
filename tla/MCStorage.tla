------------------------------ MODULE MCStorage -----------------------------
(* An instance of Storage for TLC.                                          *)
EXTENDS Storage
=============================================================================
