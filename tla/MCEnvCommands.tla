--------------------------- MODULE MCEnvCommands ---------------------------
(***************************************************************************)
(* A small instance of EnvCommands for TLC: no environment, or two as two  *)
(* adds leave them, and a third name.                                      *)
(***************************************************************************)
EXTENDS EnvCommands, TLC

CONSTANTS p1, p2

TwoAndOneMore == [s \in {"a", "b", "c"} |-> IF s = "c" THEN 1 ELSE 0]

\* Both hash to slot 0.
AandB ==
  [acct |-> [s \in Slugs |-> CASE s = "a" -> 1 [] s = "b" -> 2 [] OTHER -> 0],
   slot |-> [s \in Slugs |-> IF s = "b" THEN 1 ELSE 0],
   retired |-> {}]

NoneOrTwo == {NoEnvironments, AandB}

Symmetry == Permutations({p1, p2})
=============================================================================
