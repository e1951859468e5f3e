------------------------------ MODULE MCApply ------------------------------
(***************************************************************************)
(* Small instances of Apply for TLC.                                       *)
(***************************************************************************)
EXTENDS Apply
=============================================================================
