----------------------------- MODULE CallGraph -----------------------------
(***************************************************************************)
(* The call graph of lib/callgraph/CallGraph.cpp: its construction from the*)
(* call instructions, the marking of the functions the entry reaches, and  *)
(* the walk over call paths that refreshes the points-to facts, with the   *)
(* sweep of lib/analysis/Dependence.cpp over the functions it left.        *)
(* Functions are their node ids, 0 .. FuncNum-1.  The call instructions of *)
(* the analysed program are chosen while the graph is built: a direct call *)
(* has one callee, after GetFuncDef, and an indirect one the functions its *)
(* operand points to and a number of arguments.                            *)
(***************************************************************************)
EXTENDS Integers, Sequences, FiniteSets, SequencesExt

CONSTANTS
  FuncNum,     \* functions of all modules
  HasBody,     \* those with instructions
  ArgNum,      \* arg_size of each function
  Entry,       \* node of "main", or FuncNum when there is none
  PathDepth,   \* m_PathDepth
  MaxCall,     \* bound: call instructions in the program
  MaxCand      \* bound: functions one operand points to

Func == 0 .. FuncNum - 1

ASSUME FuncAssumption ==
  /\ FuncNum \in Nat \ {0} /\ PathDepth \in Nat \ {0} /\ {MaxCall, MaxCand} \subseteq Nat
  /\ HasBody \subseteq Func /\ Entry \in HasBody \cup {FuncNum}
  /\ ArgNum \in [Func -> Nat]

VARIABLES
  pc,        \* "build", "link", "walk", "sweep" or "done"
  scan,      \* ItF: the function whose instructions are read
  calls,     \* call instructions read so far
  edges,     \* the edges, at most one for a pair of functions
  siteEdges, \* m_CallInstToCgEdgeMap
  inSites,   \* m_InCallsiteSet of each node
  outSites,  \* m_OutCallsiteSet of each node
  leaf,      \* m_IsLeaf
  fail,      \* m_FailCallsite: instructions with a callee that is dropped
  queue,     \* NodeQueue of LinkGraph
  linked,    \* m_IsLinked
  frames,    \* the activations of DFSNode: node and out edges still to take
  onPath,    \* m_DfsNode
  paths,     \* the calls UpdatePtsByFs(m_NodeStack) so far
  updated,   \* m_UpdatePtsFunc
  left       \* functions refreshed by the sweep

built == <<scan, calls, edges, siteEdges, inSites, outSites, leaf, fail>>
vars == <<pc, built, queue, linked, frames, onPath, paths, updated, left>>

Succ(f) == {g \in Func : <<f, g>> \in edges}

\* The elements of S one by one, as the edge set is walked: by destination.
InOrder(S) ==
  {s \in [1 .. Cardinality(S) -> S] :
     ToSet(s) = S /\ \A i, j \in DOMAIN s : i < j => s[i] < s[j]}

Init ==
  /\ pc = "build" /\ scan = 0 /\ calls = 0 /\ edges = {} /\ siteEdges = {}
  /\ inSites = [f \in Func |-> <<>>] /\ outSites = [f \in Func |-> <<>>]
  /\ leaf = [f \in Func |-> TRUE]
  /\ fail = {} /\ queue = <<>> /\ linked = {}
  /\ frames = <<>> /\ onPath = {} /\ paths = {} /\ updated = {} /\ left = {}

-----------------------------------------------------------------------------
(* BuildCallGraph *)

\* Seeded fault: the caller notes the site only for callees with a body.
AddCgEdgesNoted(f, C) ==
  LET D == C \ {f} IN
    /\ edges' = edges \cup {<<f, g>> : g \in D}
    /\ siteEdges' = siteEdges \cup {<<calls + 1, f, g>> : g \in D}
    /\ outSites' = [outSites EXCEPT ![f] = @ \o [i \in 1 .. Cardinality(D \cap HasBody) |-> calls + 1]]
    /\ inSites' = [g \in Func |-> IF g \in D \cap HasBody THEN Append(inSites[g], calls + 1) ELSE inSites[g]]
    /\ leaf' = [leaf EXCEPT ![f] = @ /\ D \cap HasBody = {}]

\* Seeded fault: every callee makes its caller an inner node.
AddCgEdgesInner(f, C) ==
  LET D == C \ {f} IN
    /\ edges' = edges \cup {<<f, g>> : g \in D}
    /\ siteEdges' = siteEdges \cup {<<calls + 1, f, g>> : g \in D}
    /\ outSites' = [outSites EXCEPT ![f] = @ \o [i \in 1 .. Cardinality(D) |-> calls + 1]]
    /\ inSites' = [g \in Func |-> IF g \in D \cap HasBody THEN Append(inSites[g], calls + 1) ELSE inSites[g]]
    /\ leaf' = [leaf EXCEPT ![f] = @ /\ D = {}]

\* AddDirectCgEdge and AddIndirectCgEdge for the callees C of one instruction
\* of f.  A recursive call leaves no trace; a callee without a body gets an
\* edge, but does not make its caller an inner node.
AddCgEdges(f, C) ==
  LET D == C \ {f} IN
    /\ edges' = edges \cup {<<f, g>> : g \in D}
    /\ siteEdges' = siteEdges \cup {<<calls + 1, f, g>> : g \in D}
    /\ outSites' = [outSites EXCEPT ![f] = @ \o [i \in 1 .. Cardinality(D) |-> calls + 1]]
    /\ inSites' = [g \in Func |-> IF g \in D \cap HasBody THEN Append(inSites[g], calls + 1) ELSE inSites[g]]
    /\ leaf' = [leaf EXCEPT ![f] = @ /\ D \cap HasBody = {}]

ReadCall ==
  /\ pc = "build" /\ scan < FuncNum /\ scan \in HasBody /\ calls < MaxCall
  /\ calls' = calls + 1
  /\ UNCHANGED <<pc, scan, queue, linked, frames, onPath, paths, updated, left>>

DirectCall(g) ==
  /\ ReadCall
  /\ AddCgEdges(scan, {g})
  /\ UNCHANGED fail

\* cand is what the operand points to, args the number of actual arguments.
\* With an empty cand AddCgEdges adds nothing.
IndirectCall(cand, args) ==
  /\ ReadCall
  /\ AddCgEdges(scan, {g \in cand : ArgNum[g] = args})
  /\ fail' = IF cand = {} \/ \E g \in cand : ArgNum[g] # args
             THEN fail \cup {calls + 1} ELSE fail

NextFunction ==
  /\ pc = "build" /\ scan < FuncNum
  /\ scan' = scan + 1
  /\ UNCHANGED <<pc, calls, edges, siteEdges, inSites, outSites, leaf, fail,
                 queue, linked, frames, onPath, paths, updated, left>>

\* The dump of m_FailCallsite empties it; LinkGraph starts with the entry.
Built ==
  /\ pc = "build" /\ scan = FuncNum
  /\ pc' = "link"
  /\ fail' = {}
  /\ queue' = IF Entry = FuncNum THEN <<>> ELSE <<Entry>>
  /\ UNCHANGED <<scan, calls, edges, siteEdges, inSites, outSites, leaf, linked,
                 frames, onPath, paths, updated, left>>

-----------------------------------------------------------------------------
(* LinkGraph *)

\* Seeded fault: a node is marked when it is queued and its edges are taken
\* only when it was not marked.
LinkUnmarked ==
  /\ pc = "link" /\ queue # <<>>
  /\ LET f == Head(queue)
         new == IF f \in linked THEN {} ELSE Succ(f) \ (linked \cup {f})
     IN /\ linked' = linked \cup {f} \cup new
        /\ \E s \in InOrder(new) : queue' = Tail(queue) \o s
  /\ UNCHANGED <<pc, built, frames, onPath, paths, updated, left>>

\* A node is marked when it is popped, so it can be in the queue several times.
Link ==
  /\ pc = "link" /\ queue # <<>>
  /\ LET f == Head(queue)
     IN /\ linked' = linked \cup {f}
        /\ \E s \in InOrder(Succ(f) \ (linked \cup {f})) : queue' = Tail(queue) \o s
  /\ UNCHANGED <<pc, built, frames, onPath, paths, updated, left>>

-----------------------------------------------------------------------------
(* UpdatePtsByFs and DFSNode *)

NodeStack(fr) == [i \in 1 .. Len(fr) |-> fr[i].node]

\* The call DFSNode(f) up to its loop: at a leaf or at the depth limit the
\* functions on the stack are refreshed, and no edge is taken.
Enter(fr, f) ==
  LET end == leaf[f] \/ Len(fr) + 1 >= PathDepth
      now == Append(fr, [node |-> f, todo |-> IF end THEN {} ELSE Succ(f) \cap HasBody])
  IN /\ frames' = now
     /\ onPath' = onPath \cup {f}
     /\ paths' = IF end THEN paths \cup {NodeStack(now)} ELSE paths
     /\ updated' = IF end THEN updated \cup ToSet(NodeStack(now)) ELSE updated

StartWalk ==
  /\ pc = "link" /\ queue = <<>>
  /\ IF Entry = FuncNum
     THEN /\ pc' = "sweep"
          /\ UNCHANGED <<frames, onPath, paths, updated>>
     ELSE pc' = "walk" /\ Enter(<<>>, Entry)
  /\ UNCHANGED <<built, queue, linked, left>>

Top == frames[Len(frames)]

\* Seeded fault: the skipped callee is not taken off.
StepStuck ==
  /\ pc = "walk" /\ frames # <<>> /\ Top.todo # {}
  /\ \E g \in Top.todo :
       LET fr == [frames EXCEPT ![Len(frames)].todo = @ \ {g}] IN
         /\ \A h \in Top.todo : g <= h
         /\ IF g \in onPath
            THEN UNCHANGED <<frames, onPath, paths, updated>>
            ELSE Enter(fr, g)
  /\ UNCHANGED <<pc, built, queue, linked, left>>

\* The next out edge, in the order of the edge set; a callee on the stack is
\* skipped.
Step ==
  /\ pc = "walk" /\ frames # <<>> /\ Top.todo # {}
  /\ \E g \in Top.todo :
       LET fr == [frames EXCEPT ![Len(frames)].todo = @ \ {g}] IN
         /\ \A h \in Top.todo : g <= h
         /\ IF g \in onPath
            THEN frames' = fr /\ UNCHANGED <<onPath, paths, updated>>
            ELSE Enter(fr, g)
  /\ UNCHANGED <<pc, built, queue, linked, left>>

Leave ==
  /\ pc = "walk" /\ frames # <<>> /\ Top.todo = {}
  /\ frames' = Front(frames)
  /\ onPath' = onPath \ {Top.node}
  /\ UNCHANGED <<pc, built, queue, linked, paths, updated, left>>

EndWalk ==
  /\ pc = "walk" /\ frames = <<>>
  /\ pc' = "sweep" /\ onPath' = {}
  /\ UNCHANGED <<built, queue, linked, frames, paths, updated, left>>

\* Seeded fault: only what the entry calls directly is swept.
SweepNear ==
  /\ pc = "sweep"
  /\ left' = (Succ(Entry) \cap HasBody) \ updated
  /\ pc' = "done"
  /\ UNCHANGED <<built, queue, linked, frames, onPath, paths, updated>>

\* DgGraph::UpdatePtsByFs(): the reachable functions no path went through.
Sweep ==
  /\ pc = "sweep"
  /\ left' = (linked \cap HasBody) \ updated
  /\ pc' = "done"
  /\ UNCHANGED <<built, queue, linked, frames, onPath, paths, updated>>

Done == pc = "done" /\ UNCHANGED vars

\* What the program does after the call instructions are read.
Go == NextFunction \/ Built \/ Link \/ StartWalk \/ Step \/ Leave \/ EndWalk \/ Sweep

Next ==
  \/ \E g \in Func : DirectCall(g)
  \/ \E cand \in UNION {kSubset(k, Func) : k \in 0 .. MaxCand}, args \in {ArgNum[g] : g \in Func} : IndirectCall(cand, args)
  \/ NextFunction \/ Built \/ Link \/ StartWalk \/ Step \/ Leave \/ EndWalk \/ Sweep
  \/ Done

Spec == Init /\ [][Next]_vars

\* Every loop of the program runs on: it has one thread.
FairSpec == Spec /\ WF_vars(Go)

-----------------------------------------------------------------------------
TypeOK ==
  /\ pc \in {"build", "link", "walk", "sweep", "done"}
  /\ scan \in 0 .. FuncNum /\ calls \in 0 .. MaxCall
  /\ edges \subseteq Func \X Func
  /\ siteEdges \subseteq (1 .. MaxCall) \X Func \X Func
  /\ inSites \in [Func -> Seq(1 .. MaxCall)] /\ outSites \in [Func -> Seq(1 .. MaxCall)]
  /\ leaf \in [Func -> BOOLEAN]
  /\ fail \subseteq 1 .. MaxCall
  /\ queue \in Seq(Func) /\ linked \subseteq Func
  /\ frames \in Seq([node : Func, todo : SUBSET Func])
  /\ onPath \subseteq Func /\ paths \subseteq Seq(Func)
  /\ updated \subseteq Func /\ left \subseteq Func

\* Reference definition of the call paths: sequences of distinct functions with
\* bodies along the edges from the entry.
CallPath(p) ==
  /\ p[1] = Entry
  /\ \A i \in 1 .. Len(p) - 1 : <<p[i], p[i + 1]>> \in edges
  /\ \A i, j \in 1 .. Len(p) : i # j => p[i] # p[j]
  /\ \A i \in 1 .. Len(p) : p[i] \in HasBody

\* The functions of which a callee with a body is known.
Inner == {f \in Func : Succ(f) \cap HasBody # {}}

AllPaths ==
  {p \in UNION {[1 .. n -> Func] : n \in 1 .. PathDepth} :
     /\ CallPath(p)
     /\ \A i \in 1 .. Len(p) - 1 : p[i] \in Inner
     /\ Len(p) = PathDepth \/ p[Len(p)] \notin Inner}

\* The walk refreshes along every call path that ends at a leaf or at the depth
\* limit, and along no other.
PathsComplete == pc \in {"sweep", "done"} /\ Entry # FuncNum => paths = AllPaths

\* GetFuncDg(CurFunc) != NULL (lib/analysis/Dependence.cpp:792): a dependence
\* graph is built only for reachable functions with instructions, and the walk
\* asks for no other.
WalkedAreLinked == updated \cup left \subseteq linked \cap HasBody

\* Before the dependences are built every function with a body that the entry
\* reaches over call edges has its facts refreshed, by the walk or by the sweep,
\* those behind the depth limit and on paths that end in recursion included.
Reached == {f \in Func : \A S \in SUBSET Func :
              (Entry \in S /\ \A e \in edges : e[1] \in S => e[2] \in S) => f \in S}
EveryReachableRefreshed ==
  pc = "done" /\ Entry # FuncNum => updated \cup left = Reached \cap HasBody

\* A call instruction of the graph leads to the same functions through the map
\* of instructions as through the lists of call sites: a callee with a body
\* knows all the sites that call it, and a caller has one entry per edge.
SitesAgree ==
  /\ \A f \in HasBody : ToSet(inSites[f]) = {e[1] : e \in {x \in siteEdges : x[3] = f}}
  /\ \A f \in Func : Len(outSites[f]) = Cardinality({x \in siteEdges : x[2] = f})
  /\ edges = {<<x[2], x[3]>> : x \in siteEdges}

\* LinkGraph and the walk come to an end on every program, cyclic ones included.
BuildEnds == <>(pc = "done")
=============================================================================
