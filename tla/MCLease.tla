------------------------------ MODULE MCLease ------------------------------
(***************************************************************************)
(* Small instances of Lease for TLC.                                       *)
(***************************************************************************)
EXTENDS LeaseRefines, TLC

\* The agents and the commands are interchangeable.
Symmetry == Permutations(Agents) \cup Permutations(Cmds)
=============================================================================
