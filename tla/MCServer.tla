------------------------------ MODULE MCServer ------------------------------
(* Small instances of Server, for TLC.                                      *)
EXTENDS Server
=============================================================================
