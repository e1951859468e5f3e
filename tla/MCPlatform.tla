----------------------------- MODULE MCPlatform -----------------------------
(* EnvStart over the control plane, on small instances. *)
EXTENDS EnvStart, TLC

\* A full substrate with a graph and Trino; the core of a default environment.
FullAndCore == {Nodes, {"env-db", "deployed"}}

\* Processes are interchangeable.
Symmetry == Permutations(Procs)
=============================================================================
