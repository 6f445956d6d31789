------------------------------ MODULE MCInput -------------------------------
(* An instance of Input for TLC.                                            *)
EXTENDS Input

OnePin == <<"up">>
=============================================================================
