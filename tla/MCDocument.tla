------------------------------ MODULE MCDocument ------------------------------
(* Document for TLC. *)
EXTENDS Document
===============================================================================
