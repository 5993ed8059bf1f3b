-------------------------- MODULE ConstraintGraph --------------------------
(***************************************************************************)
(* The constraint graph of the points-to analysis: class ConstraintGraph   *)
(* of include/analysis/points-to/ConstraintGraph.h.                        *)
(*                                                                         *)
(* A node is a value or an object of the program.  An edge src -> dst is   *)
(* a constraint between the two.  The graph keeps an edge in two places:   *)
(*   - edges: the typed sets m_AddrEdgeSet, m_DirectEdgeSet, m_StoreEdgeSet*)
(*     and m_LoadEdgeSet, which refuse a duplicate, and the In/Out sets of *)
(*     the nodes, which always hold the same edges;                        *)
(*   - liveEdges: the edges the solver finds again through a node, that is *)
(*     m_OutCopyEdgeSet and m_OutLoadEdgeSet of the source and             *)
(*     m_InStoreEdgeSet of the target.                                     *)
(* MergeNode empties the second for the merged node and not the first.     *)
(*                                                                         *)
(* m_MergeTarget is modelled by what GetMergeTarget and GetMergeTarget2    *)
(* return, the end of the chain of targets: the compression of the chain   *)
(* by the former changes no answer of either.                              *)
(***************************************************************************)
EXTENDS Constraint

\* The order of the edge sets (EqualGEdge): by attribute, source, target.
EdgeLess(e, f) ==
  \/ e.type < f.type
  \/ e.type = f.type /\ e.src < f.src
  \/ e.type = f.type /\ e.src = f.src /\ e.dst < f.dst

VARIABLES
  edges,      \* every edge of the graph
  liveEdges,  \* the copy, load and store edges the solver reaches through a node
  succ,       \* m_Successors of each node, what cycle detection walks
  pts,        \* m_PtsSet of each node
  rep         \* the representative GetMergeTarget returns for each node

graphVars == <<edges, liveEdges, succ, pts, rep>>

GraphTypeOK ==
  /\ edges \subseteq Constraint
  /\ liveEdges \subseteq edges
  /\ succ \in [Node -> SUBSET Node]
  /\ pts \in [Node -> SUBSET Node]
  /\ rep \in [Node -> Node]

GraphInit ==
  /\ edges = {}
  /\ liveEdges = {}
  /\ succ = [n \in Node |-> {}]
  /\ pts = [n \in Node |-> {}]
  /\ rep = [n \in Node |-> n]

\* Faults seeded to see the runs catch them: edges looked up by the node at
\* their other end.
OutCopyEdgeByDst(n) == {e \in liveEdges : e.type = E_COPY  /\ e.dst = n}
OutLoadEdgeByDst(n) == {e \in liveEdges : e.type = E_LOAD  /\ e.dst = n}
InStoreEdgeBySrc(n) == {e \in liveEdges : e.type = E_STORE /\ e.src = n}

OutCopyEdge(n) == {e \in liveEdges : e.type = E_COPY  /\ e.src = n}
OutLoadEdge(n) == {e \in liveEdges : e.type = E_LOAD  /\ e.src = n}
InStoreEdge(n) == {e \in liveEdges : e.type = E_STORE /\ e.dst = n}

\* The edges some node hands to the solver: all but the address edges.
Reachable(es) == {e \in es : e.type # E_ADDR_OF}

\* Seeded fault: the set is replaced, not united.
UnionPtsLoses(dst, src) == src

\* Whatever is united with a points-to set, nothing is taken out of it.
UnionPts(dst, src) == dst \cup src

\* Seeded fault: an edge may be added twice.
IsAnyEdge(t, s, d) == s # d

\* AddCstEdge returns an edge: not from a node to itself, and not there yet.
IsNewEdge(t, s, d) == s # d /\ Cst(t, s, d) \notin edges

AddCstEdge(t, s, d) ==
  IF IsNewEdge(t, s, d)
  THEN /\ edges' = edges \cup {Cst(t, s, d)}
       /\ liveEdges' = liveEdges \cup Reachable({Cst(t, s, d)})
       /\ succ' = [succ EXCEPT ![s] = @ \cup {d}]
  ELSE UNCHANGED <<edges, liveEdges, succ>>

\* Each of the two loops of MergeNode removes the edge its iterator stands
\* on and then advances that iterator.  The first edge is always handled;
\* which of the others are is whatever the freed tree node still holds.
Handled(es) ==
  {seen \in SUBSET es : \A e \in es : (\A f \in es : ~EdgeLess(f, e)) => e \in seen}

\* MergeNode(s, d).  Both loops move an edge by giving it the target d: an
\* out-edge s -> x becomes s -> d, not d -> x.
MergeNode(s, d) ==
  \E ins  \in Handled({e \in edges : e.dst = s /\ e.src # d}),
     outs \in Handled({e \in edges : e.src = s /\ e.dst # d}) :
    LET moved == ins \cup outs
        added == {[e EXCEPT !.dst = d] : e \in moved} \ edges
        ofS(e) == IF e.type = E_STORE THEN e.dst = s ELSE e.src = s
    IN
    /\ edges' = (edges \ moved) \cup added
    /\ liveEdges' = {e \in (liveEdges \ moved) \cup Reachable(added) : ~ofS(e)}
    /\ succ' = [n \in Node |->
                  IF n = s THEN {}
                  ELSE succ[n] \cup {e.dst : e \in {f \in added : f.src = n}}]
    /\ pts' = [pts EXCEPT ![d] = UnionPts(@, pts[s])]
    /\ rep' = [n \in Node |-> IF rep[n] = s THEN d ELSE rep[n]]

=============================================================================
