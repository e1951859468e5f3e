---------------------------- MODULE MCPgUpgrade ----------------------------
(* PgUpgrade for TLC: two objects that a user may have, hence create or drop. *)
EXTENDS PgUpgrade

CONSTANTS o1, o2
=============================================================================
