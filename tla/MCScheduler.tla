---------------------------- MODULE MCScheduler ----------------------------
(***************************************************************************)
(* Instances of Scheduler for TLC.                                         *)
(***************************************************************************)
EXTENDS SchedulerRefines, SequencesExt

CONSTANTS a, b

N(class, deps) == [class |-> class, deps |-> deps]

\* Every graph on n nodes, cyclic ones included; edges in ascending order.
Graphs(n) ==
  {[i \in 1 .. n |-> SetToSortSeq(g[i], <)] :
     g \in {f \in [1 .. n -> SUBSET (1 .. n)] : \A i \in 1 .. n : i \notin f[i]}}

\* Who shares a class with whom, on three nodes.
Sharing == {<<NoClass, NoClass, NoClass>>, <<a, a, b>>, <<a, b, a>>, <<a, a, a>>}

AllGraphs ==
  {[i \in 1 .. 3 |-> N(c[i], g[i])] : c \in Sharing, g \in Graphs(3)}

(***************************************************************************)
(* The edges the code filters out: to a node outside the batch, to the     *)
(* node itself, and twice to the same node.  And the empty batch.          *)
(***************************************************************************)
OddEdges ==
  {<<>>,
   <<N(a, <<0>>), N(a, <<1, 1>>)>>,
   <<N(a, <<1>>), N(b, <<1, 2, 0>>), N(a, <<2, 1, 2>>)>>,
   <<N(b, <<2, 2>>), N(b, <<1, 1>>)>>}

\* Four nodes: a diamond, two chains that share a class, and a wide batch.
FourNodes ==
  {<<N(a, <<>>), N(b, <<1>>), N(b, <<1>>), N(a, <<2, 3>>)>>,
   <<N(a, <<>>), N(b, <<1>>), N(a, <<>>), N(b, <<3>>)>>,
   <<N(NoClass, <<>>), N(NoClass, <<>>), N(a, <<>>), N(a, <<1>>)>>}

SmallPayloads == OddEdges \cup AllGraphs \cup FourNodes
=============================================================================
