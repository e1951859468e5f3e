-------------------------- MODULE MCLeaseCommands --------------------------
(***************************************************************************)
(* Small instances of LeaseCommands for TLC.                               *)
(***************************************************************************)
EXTENDS LeaseCommands, TLC

Symmetry == Permutations(Agents) \cup Permutations(Cmds)
=============================================================================
