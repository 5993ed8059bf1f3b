---------------------------- MODULE CycleDetect ----------------------------
(***************************************************************************)
(* What a run of the cycle detectors of include/analysis/CycleDetect.h     *)
(* returns, as a function of the graph it walks.  Module SccDetect models  *)
(* the depth-first search that computes it, and its runs check that the    *)
(* search returns these sets.                                              *)
(*                                                                         *)
(* A graph is a set V of nodes and the successors g[n] of each of them; a  *)
(* successor outside V is one the search has finished with, and ignores.   *)
(* Reachability is stated with the sets closed under g, not by recursion,  *)
(* so that the proofs can use it.                                          *)
(***************************************************************************)
EXTENDS Naturals

ClosedSets(V, g) == {C \in SUBSET V : \A u \in C : g[u] \cap V \subseteq C}

\* The nodes of V a search from the nodes in start visits.
VisitedFrom(V, g, start) ==
  LET closed == ClosedSets(V, g)
  IN  {v \in V : \A C \in closed : start \cap V \subseteq C => v \in C}

\* For each node of V the nodes it reaches.
ReachMap(V, g) ==
  LET closed == ClosedSets(V, g)
  IN  [u \in V |-> {v \in V : \A C \in closed : u \in C => v \in C}]

SameCycle(r, u, v) == v \in r[u] /\ u \in r[v]

\* A node on a cycle has a successor and a predecessor.
Inner(V, g) ==
  {v \in V : (\E u \in V \ {v} : u \in g[v]) /\ (\E u \in V \ {v} : v \in g[u])}

\* Seeded fault: any smaller node of the cycle is taken, not the least.
MergePairsAny(V, g) ==
  LET I == Inner(V, g)
      r == ReachMap(I, g)
  IN  {p \in I \X I : p[2] < p[1] /\ SameCycle(r, p[1], p[2])}

\* m_MergeMap after the search: every node of a cycle but the least one,
\* with the least one (find_first) as the node it is merged into.
MergePairs(V, g) ==
  LET I == Inner(V, g)
      r == ReachMap(I, g)
  IN  {p \in I \X I : /\ p[2] < p[1]
                      /\ SameCycle(r, p[1], p[2])
                      /\ \A m \in I : SameCycle(r, p[1], m) => p[2] <= m}

=============================================================================
