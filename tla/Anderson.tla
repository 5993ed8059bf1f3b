----------------------------- MODULE Anderson -----------------------------
(***************************************************************************)
(* The points-to solver: InitCstGraph and SolveConstraints of              *)
(* lib/analysis/points-to/Anderson.cpp, with the offline and online cycle  *)
(* detectors it drives.  One action per iteration of each of its loops:    *)
(*                                                                         *)
(*   init    InitCst      the next constraint of m_Constraints             *)
(*           Offline      the cycles of the initial graph                  *)
(*   merge   Merge        collapse one node of m_MergeMap                  *)
(*           MergeEnd     m_MergeMap is empty                              *)
(*   pop     Pop          take a node off the work list                    *)
(*           Finish       the work list is empty                           *)
(*   deref   Deref        one (points-to target, load or store edge) pair  *)
(*           DerefEnd     all pairs are handled                            *)
(*   copy    Propagate    one copy edge                                    *)
(*           Online       cycle detection from the candidates              *)
(*                                                                         *)
(* prog is the vector m_Constraints as CollectConstraints leaves it.  A    *)
(* constraint is a record like an edge: src and dst are its S and D.       *)
(***************************************************************************)
EXTENDS ConstraintGraph, CycleDetect

CONSTANT Programs   \* the constraint vectors of the programs analysed

ASSUME ProgramsAssumption == Programs \subseteq Seq(Constraint)

\* The constraints CollectConstraints puts first in every program.
BaseConstraints ==
  << Cst(E_ADDR_OF, UniversalObj, UniversalPtr),
     Cst(E_STORE, UniversalObj, UniversalObj),
     Cst(E_ADDR_OF, NullObject, NullPtr) >>

VARIABLES
  prog,      \* m_Constraints
  next,      \* the index of the next constraint to enter in the graph
  phase,     \* the loop the solver is in
  queue,     \* m_WorkList, in order
  cur,       \* NodeId, the node taken off the work list
  todo,      \* the iterations left of the loops over cur
  cand,      \* m_Candiates of the online detector
  visited,   \* the nodes its search has visited (m_DfsNdMap, m_InComponent)
  mergeMap   \* m_MergeMap of the detector that ran last

solverVars == <<prog, next, phase, queue, cur, todo, cand, visited, mergeMap>>
vars == <<graphVars, solverVars>>

Queued == {queue[i] : i \in DOMAIN queue}

\* BitQueue::InQueue
InQueue(q, n) == IF \E i \in DOMAIN q : q[i] = n THEN q ELSE Append(q, n)

\* The iterations of the loops over a points-to set P and the edges es.
DerefItems(P, es) == [pt : P, edge : es]

\* For a target all the load edges come first, each kind in edge-set order.
ItemLess(x, y) ==
  \/ x.pt < y.pt
  \/ x.pt = y.pt /\ x.edge.type = E_LOAD /\ y.edge.type = E_STORE
  \/ x.pt = y.pt /\ x.edge.type = y.edge.type /\ EdgeLess(x.edge, y.edge)

Init ==
  /\ GraphInit
  /\ prog \in Programs
  /\ next = 1
  /\ phase = "init"
  /\ queue = <<>>
  /\ cur = UniversalPtr
  /\ todo = {}
  /\ cand = {}
  /\ visited = {}
  /\ mergeMap = {}

-----------------------------------------------------------------------------
(* InitCstGraph *)

InitCst ==
  /\ phase = "init" /\ next <= Len(prog)
  /\ LET c == prog[next]
         d == rep[c.dst]
     IN  /\ AddCstEdge(c.type, rep[c.src], d)
         /\ IF c.type = E_ADDR_OF
            THEN /\ pts' = [pts EXCEPT ![d] = @ \cup {c.src}]
                 /\ queue' = InQueue(queue, d)
            ELSE UNCHANGED <<pts, queue>>
  /\ next' = next + 1
  /\ UNCHANGED <<rep, prog, phase, cur, todo, cand, visited, mergeMap>>

-----------------------------------------------------------------------------
(* Cycle detection: RunDectect of both detectors *)

Offline ==
  /\ phase = "init" /\ next > Len(prog)
  /\ mergeMap' = MergePairs(Node, succ)
  /\ phase' = "merge"
  /\ UNCHANGED <<graphVars, prog, next, queue, cur, todo, cand, visited>>

\* The online search walks the representatives it never visited before.
Fresh == {n \in Node : rep[n] = n} \ visited
RepSucc == [n \in Node |-> {rep[m] : m \in succ[n]}]

Online ==
  /\ phase = "copy" /\ todo = {}
  /\ LET seen == VisitedFrom(Fresh, RepSucc, {rep[n] : n \in cand})
     IN  /\ mergeMap' = MergePairs(seen, RepSucc)
         /\ visited' = visited \cup seen
  /\ cand' = {}
  /\ phase' = "merge"
  /\ UNCHANGED <<graphVars, prog, next, queue, cur, todo>>

\* RunMerge and CollapseNodes walk m_MergeMap in the order of its hash
\* table, which is any order.
Merge ==
  /\ phase = "merge"
  /\ \E p \in mergeMap :
       /\ MergeNode(p[1], p[2])
       /\ mergeMap' = mergeMap \ {p}
  /\ UNCHANGED <<prog, next, phase, queue, cur, todo, cand, visited>>

MergeEnd ==
  /\ phase = "merge" /\ mergeMap = {}
  /\ phase' = "pop"
  /\ UNCHANGED <<graphVars, prog, next, queue, cur, todo, cand, visited, mergeMap>>

-----------------------------------------------------------------------------
(* The loop of SolveConstraints *)

Pop ==
  /\ phase = "pop" /\ queue # <<>>
  /\ queue' = Tail(queue)
  /\ LET n == rep[Head(queue)]
     IN  /\ cur' = n
         /\ todo' = DerefItems(pts[n], OutLoadEdge(n) \cup InStoreEdge(n))
  /\ phase' = "deref"
  /\ UNCHANGED <<graphVars, prog, next, cand, visited, mergeMap>>

\* ProcessLoad and ProcessStore: the copy edge the target o of the
\* dereferenced node calls for, and the node to visit if it is a new edge.
DerefSrc(x, o) == IF x.edge.type = E_LOAD THEN o ELSE x.edge.src
DerefDst(x, o) == IF x.edge.type = E_LOAD THEN x.edge.dst ELSE o

Deref ==
  /\ phase = "deref"
  /\ \E x \in todo :
       /\ \A y \in todo : y = x \/ ItemLess(x, y)
       /\ LET o == rep[x.pt]
              s == DerefSrc(x, o)
              d == DerefDst(x, o)
          IN  IF o # UniversalObj /\ IsNewEdge(E_COPY, s, d)
              THEN /\ AddCstEdge(E_COPY, s, d)
                   /\ queue' = InQueue(queue, s)
              ELSE UNCHANGED <<edges, liveEdges, succ, queue>>
       /\ todo' = todo \ {x}
  /\ UNCHANGED <<pts, rep, prog, next, phase, cur, cand, visited, mergeMap>>

DerefEnd ==
  /\ phase = "deref" /\ todo = {}
  /\ todo' = OutCopyEdge(cur)
  /\ phase' = "copy"
  /\ UNCHANGED <<graphVars, prog, next, queue, cur, cand, visited, mergeMap>>

\* ProcessCopy: a target that grows is visited again, one that does not is
\* a candidate for cycle detection.
Propagate ==
  /\ phase = "copy"
  /\ \E e \in todo :
       /\ \A f \in todo : f = e \/ EdgeLess(e, f)
       /\ pts' = [pts EXCEPT ![e.dst] = UnionPts(@, pts[cur])]
       /\ IF pts[cur] \subseteq pts[e.dst]
          THEN /\ cand' = cand \cup {e.dst}
               /\ UNCHANGED queue
          ELSE /\ queue' = InQueue(queue, e.dst)
               /\ UNCHANGED cand
       /\ todo' = todo \ {e}
  /\ UNCHANGED <<edges, liveEdges, succ, rep, prog, next, phase, cur, visited, mergeMap>>

Finish ==
  /\ phase = "pop" /\ queue = <<>>
  /\ phase' = "done"
  /\ UNCHANGED <<graphVars, prog, next, queue, cur, todo, cand, visited, mergeMap>>

-----------------------------------------------------------------------------

Next ==
  \/ InitCst \/ Offline \/ Online \/ Merge \/ MergeEnd
  \/ Pop \/ Deref \/ DerefEnd \/ Propagate \/ Finish

Spec == Init /\ [][Next]_vars

\* The solver is one sequential loop: as long as it can step it does.
FairSpec == Spec /\ WF_vars(Next)

\* The behaviours in which cycle detection never has a node to collapse: a
\* program stops here at the step that would find a cycle.
CycleFreeSpec == Init /\ [][Next /\ mergeMap' = {}]_vars

-----------------------------------------------------------------------------
(* Properties *)

\* The phases in which todo holds iterations, and what they are.
TypeOK ==
  /\ GraphTypeOK
  /\ prog \in Seq(Constraint) /\ next \in 1 .. Len(prog) + 1
  /\ phase \in {"init", "merge", "pop", "deref", "copy", "done"}
  /\ queue \in Seq(Node)
  /\ cur \in Node
  /\ phase = "deref" => todo \subseteq DerefItems(Node, Constraint)
  /\ phase = "copy" => todo \subseteq Constraint
  /\ cand \subseteq Node /\ visited \subseteq Node
  /\ mergeMap \subseteq Node \X Node

\* The points-to set that stands for each node, that of its merge target.
NodePts == [n \in Node |-> pts[rep[n]]]

\* What GetPtsTo answers: it takes the merge target 0 for none at all.
PointsTo == [n \in Node |-> IF rep[n] = UniversalPtr THEN {} ELSE NodePts[n]]

NothingCollapsed == \A n \in Node : rep[n] = n

\* When the work list of SolveConstraints runs empty and no cycle had to be
\* collapsed, the points-to sets satisfy every constraint of the program: no
\* change was left unpropagated.
SolvedUnlessCollapsed ==
  phase = "done" /\ NothingCollapsed => IsSolution(NodePts, prog)

\* GetMergeTarget ends: a node is merged only into a smaller one, and what
\* it is merged into is a representative, whatever cycles were found when.
MergeForest ==
  \A n \in Node : rep[n] <= n /\ rep[rep[n]] = rep[n]

\* No step of the solver, collapsing a cycle included, takes a target out of
\* the set that stands for a node, nor separates nodes it treats as one; and
\* none takes back what GetPtsTo already answered, but a merge into node 0.
FactsKept ==
  [][\A n \in Node : /\ NodePts[n] \subseteq NodePts'[n]
                     /\ PointsTo[n] \subseteq PointsTo'[n] \/ rep'[n] = UniversalPtr
                     /\ rep'[n] = rep'[rep[n]]]_vars

\* ConstraintGraph.h:673-677 without a condition on cycles: at the end the
\* set of a copy's target includes the set of its source.
CopySolved ==
  phase = "done" =>
    \A i \in DOMAIN prog : prog[i].type = E_COPY => Satisfies(NodePts, prog[i])

\* As long as nothing is collapsed the solver is chaotic iteration: whatever
\* it adds is justified, and it stops only when nothing is missing.
Abstract == INSTANCE Inclusion WITH
  sol <- pts, done <- (phase = "done")
ImplementsInclusion ==
  Abstract!Init /\ [][NothingCollapsed' => Abstract!Next]_(Abstract!vars)

\* The work list runs empty: SolveConstraints returns.
Termination == <>(phase = "done")

=============================================================================
