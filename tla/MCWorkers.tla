------------------------------ MODULE MCWorkers ------------------------------
(***************************************************************************)
(* The instance of Workers for TLC.                                        *)
(***************************************************************************)
EXTENDS Workers
=============================================================================
