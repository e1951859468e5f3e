------------------------------- MODULE MCPool -------------------------------
(***************************************************************************)
(* Small instances of Pool for TLC.                                        *)
(***************************************************************************)
EXTENDS Pool

\* Two runs of the pool, and one that wants environment 1 by name.
PoolAndOneNamed == <<{1, 2}, {1, 2}, {1}>>
=============================================================================
