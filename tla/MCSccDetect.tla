----------------------------- MODULE MCSccDetect -----------------------------
(* Every graph on Nodes with at most MaxEdges edges. *)
EXTENDS SccDetect

CONSTANT MaxEdges

MCGraphs ==
  {g \in [Nodes -> SUBSET Nodes] :
     Cardinality({e \in Nodes \X Nodes : e[2] \in g[e[1]]}) <= MaxEdges}
=============================================================================
