---------------------------- MODULE LeaseRefines ----------------------------
(***************************************************************************)
(* The lease store keeps what EnvUse promises.                             *)
(***************************************************************************)
EXTENDS Lease

\* What the lease file of e says of its use.
UseOf(e) ==
  LET l == lease[e]
      State(phase) == [phase |-> phase, by |-> l.owner, stops |-> EndsInStop(l)]
      Bare(phase) == [phase |-> phase, by |-> Nobody, stops |-> FALSE]
  IN  CASE l.kind = "free" -> Bare("unused")
        [] l.kind = "stop" -> Bare(IF e \in due THEN "ending" ELSE "stopped")
        [] l.kind \in Kinds -> State(IF Live(l) THEN "used" ELSE "over")

Use == INSTANCE EnvUse WITH use <- [e \in Envs |-> UseOf(e)]

\* Leases give exclusive use of environments, and stop those of ended sessions
\* before anybody else gets them, as long as nobody steals, no stopping process
\* dies and no stop outlasts stopTTL.
ImplementsUse == Use!Spec

\* And no environment stays between two uses.
ImplementsFairUse == Use!FairSpec
=============================================================================
