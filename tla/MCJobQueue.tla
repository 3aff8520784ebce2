----------------------------- MODULE MCJobQueue -----------------------------
(***************************************************************************)
(* The instance of JobQueue for TLC: two thieves, a ring of two slots and  *)
(* four pushes, so that an instance can come round to a slot whose thief   *)
(* still carries an old tail_.                                             *)
(***************************************************************************)
EXTENDS JobQueue
=============================================================================
