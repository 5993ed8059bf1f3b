----------------------------- MODULE SccDetect -----------------------------
(***************************************************************************)
(* The depth-first search of include/callgraph/SccDetect.h with the        *)
(* callbacks of CycleDetect.h, one action per step of the recursion.       *)
(*                                                                         *)
(* A run of the offline detector starts from every node (RunOnGraph); a    *)
(* run of the online one starts from the candidates and never visits again *)
(* what an earlier run visited (RunOnNode keeps m_DfsNdMap): earlier is    *)
(* the set of those nodes.  The graph may have changed since, so any graph *)
(* goes with any such set.  Nodes stand for representatives (GetRepNode).  *)
(***************************************************************************)
EXTENDS CycleDetect, FiniteSets, Sequences

CONSTANTS Nodes,    \* node ids
          Graphs    \* the graphs searched, functions from a node to its successors

ASSUME SccAssumption ==
  /\ Nodes \subseteq Nat /\ IsFiniteSet(Nodes)
  /\ Graphs \subseteq [Nodes -> SUBSET Nodes]

VARIABLES
  graph,     \* the successors of each node
  earlier,   \* the nodes visited by an earlier run
  start,     \* m_Candiates, or every node
  roots,     \* the nodes the run has still to start from
  low,       \* m_DfsNdMap, a function on the visited nodes
  inComp,    \* m_InComponent
  sccStack,  \* m_SccStack, top last
  calls,     \* the active calls of Dectect, innermost last
  timeStamp, \* m_TimeStamp
  mergeMap   \* m_MergeMap

vars == <<graph, earlier, start, roots, low, inComp, sccStack, calls, timeStamp, mergeMap>>

Visited == DOMAIN low
Top(s) == s[Len(s)]
Front(s) == SubSeq(s, 1, Len(s) - 1)

\* An active call of Dectect: its node, its CurTimeStamp, the children left.
Call(n) == [node |-> n, stamp |-> timeStamp, todo |-> graph[n]]

Init ==
  /\ graph \in Graphs
  /\ earlier \in SUBSET Nodes
  /\ start \in SUBSET Nodes
  /\ earlier = {} => start = Nodes
  /\ roots = start
  /\ low = [n \in earlier |-> 0]
  /\ inComp = earlier
  /\ sccStack = <<>>
  /\ calls = <<>>
  /\ timeStamp = Cardinality(earlier)
  /\ mergeMap = {}

\* The prologue of Dectect.
Enter(n) ==
  /\ low' = [m \in Visited \cup {n} |-> IF m = n THEN timeStamp ELSE low[m]]
  /\ timeStamp' = timeStamp + 1

\* The loops of RunOnGraph and of the online RunDectect walk hash tables:
\* the next node is any of those left.
StartFrom(n) ==
  /\ calls = <<>> /\ n \in roots
  /\ roots' = roots \ {n}
  /\ IF n \in Visited
     THEN UNCHANGED <<low, timeStamp, calls>>
     ELSE Enter(n) /\ calls' = <<Call(n)>>
  /\ UNCHANGED <<graph, earlier, start, inComp, sccStack, mergeMap>>

\* The children come in the order of their ids (GraphTraits walks the out
\* edges of the node), which are not those of their representatives: any one
\* left can be next.  That a child can also be looked at before the number of
\* the last one called is taken over only adds behaviours.
IsNextChild(c, todo) == c \in todo

\* An unvisited child: the recursive call.
Descend ==
  /\ calls # <<>>
  /\ \E c \in Nodes \ Visited :
       /\ IsNextChild(c, Top(calls).todo)
       /\ Enter(c)
       /\ calls' = Append(calls, Call(c))
  /\ UNCHANGED <<graph, earlier, start, roots, inComp, sccStack, mergeMap>>

\* Seeded fault: take over the number of a component already closed.
RelaxAcross ==
  /\ calls # <<>>
  /\ LET n == Top(calls).node
     IN  \E c \in Visited :
           /\ IsNextChild(c, Top(calls).todo)
           /\ low' = IF low[n] > low[c] THEN [low EXCEPT ![n] = low[c]] ELSE low
           /\ calls' = [calls EXCEPT ![Len(calls)].todo = @ \ {c}]
  /\ UNCHANGED <<graph, earlier, start, roots, inComp, sccStack, timeStamp, mergeMap>>

\* A visited child, or one whose call has returned: take over its number.
Relax ==
  /\ calls # <<>>
  /\ LET n == Top(calls).node
     IN  \E c \in Visited :
           /\ IsNextChild(c, Top(calls).todo)
           /\ low' = IF c \notin inComp /\ low[n] > low[c]
                     THEN [low EXCEPT ![n] = low[c]] ELSE low
           /\ calls' = [calls EXCEPT ![Len(calls)].todo = @ \ {c}]
  /\ UNCHANGED <<graph, earlier, start, roots, inComp, sccStack, timeStamp, mergeMap>>

\* The end of a call whose node reaches an earlier one: it is not a root.
LeaveInner ==
  /\ calls # <<>> /\ Top(calls).todo = {}
  /\ Top(calls).stamp # low[Top(calls).node]
  /\ sccStack' = Append(sccStack, Top(calls).node)
  /\ calls' = Front(calls)
  /\ UNCHANGED <<graph, earlier, start, roots, low, inComp, timeStamp, mergeMap>>

\* Seeded fault: the node numbered stamp stays on the stack.
PoppedAbove(stamp) ==
  CHOOSE k \in 0 .. Len(sccStack) :
    /\ \A i \in k + 1 .. Len(sccStack) : low[sccStack[i]] > stamp
    /\ k > 0 => low[sccStack[k]] <= stamp

\* The length of the stack once the nodes numbered stamp or later are popped.
PoppedTo(stamp) ==
  CHOOSE k \in 0 .. Len(sccStack) :
    /\ \A i \in k + 1 .. Len(sccStack) : low[sccStack[i]] >= stamp
    /\ k > 0 => low[sccStack[k]] < stamp

\* The end of the call of a root: its component is on top of the stack.
\* ProcRepNodeOnCycle maps every node of it but the least to the least.
LeaveRoot ==
  /\ calls # <<>> /\ Top(calls).todo = {}
  /\ Top(calls).stamp = low[Top(calls).node]
  /\ LET k == PoppedTo(Top(calls).stamp)
         onCycle == {sccStack[i] : i \in k + 1 .. Len(sccStack)}
         scc == onCycle \cup {Top(calls).node}
     IN  /\ sccStack' = SubSeq(sccStack, 1, k)
         /\ inComp' = inComp \cup scc
         /\ mergeMap' = mergeMap \cup {p \in scc \X scc : p[2] < p[1] /\ \A m \in scc : p[2] <= m}
  /\ calls' = Front(calls)
  /\ UNCHANGED <<graph, earlier, start, roots, low, timeStamp>>

Next ==
  \/ \E n \in Nodes : StartFrom(n)
  \/ Descend \/ Relax \/ LeaveInner \/ LeaveRoot

Spec == Init /\ [][Next]_vars

-----------------------------------------------------------------------------
(* Properties *)

TypeOK ==
  /\ graph \in Graphs /\ earlier \subseteq Nodes /\ start \subseteq Nodes
  /\ roots \subseteq start
  /\ Visited \subseteq Nodes /\ \A n \in Visited : low[n] \in Nat
  /\ inComp \subseteq Visited
  /\ sccStack \in Seq(Nodes)
  /\ calls \in Seq([node : Nodes, stamp : Nat, todo : SUBSET Nodes])
  /\ timeStamp \in Nat
  /\ mergeMap \subseteq Nodes \X Nodes

Ended == roots = {} /\ calls = <<>>

\* A run ends with exactly the cycles module CycleDetect states: every
\* strongly connected component of what it visited, each once, with its
\* least node to merge into, and nothing across two components.
FindsTheCycles ==
  Ended => LET seen == VisitedFrom(Nodes \ earlier, graph, start)
           IN  /\ Visited = earlier \cup seen
               /\ mergeMap = MergePairs(seen, graph)

\* The assertions of RunOnGraph and RunOnNode, "sccStack not empty after
\* cycle detection!": no node is left behind, whenever no call is active.
StackEmptyBetweenCalls == calls = <<>> => sccStack = <<>> /\ inComp = Visited

=============================================================================
