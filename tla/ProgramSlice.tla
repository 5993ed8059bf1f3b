---------------------------- MODULE ProgramSlice ----------------------------
(***************************************************************************)
(* The slice of lib/analysis/ProgramSlice.cpp for one allocation: forward  *)
(* along data dependences to the sinks, backward from those to the         *)
(* allocation, and along the control flow to see whether a way leads past  *)
(* every sink.  All three are depth-first searches; a frame of the stack   *)
(* is a call of ForwardDfs, BackwardDfs or CfgPathDfs.                     *)
(*                                                                         *)
(* A node is its id, an edge <<attribute, source, destination>>.           *)
(***************************************************************************)
EXTENDS Naturals, Sequences, FiniteSets, SequencesExt, Functions

CONSTANTS
  Func,     \* the functions
  Graphs    \* the dependence graphs analysed

EA_CFG == 1
EA_CFG_DMY == 2
EA_DD == 4
EA_CALL == 8
EA_RET == 16

Has(e, attr) == (e[1] \div attr) % 2 = 1

\* What the slice asks of an instruction.
Kind == {"malloc", "free", "exit", "call", "br", "nullcmp", "cmp", "ret", "other"}

\* The control flow that Dependence.cpp builds.  Flow within a function stays
\* there.  A call edge leads to the head of a function, the first node of it.  A
\* call that is no invoke ends no block: the edge to the node that follows is a
\* dummy if and only if there are callees to enter, and nothing leads to that
\* node but the call and returns.  Nothing leads out of the return of a function
\* that is not called.
Built(gr) ==
  LET flow == {e \in gr.edges : Has(e, EA_CFG)}
      calls == {e \in flow : Has(e, EA_CALL)}
      rets == {e \in flow : Has(e, EA_RET)}
      inner == flow \ (calls \cup rets)
  IN /\ \A e \in inner : gr.fun[e[2]] = gr.fun[e[3]]
     /\ \A c \in calls : /\ ~Has(c, EA_RET)
                          /\ \A n \in DOMAIN gr.fun : gr.fun[n] = gr.fun[c[3]] => c[3] <= n
     /\ \A e \in flow : Has(e, EA_CFG_DMY) /\ e[2] \notin gr.invokes => \E c \in calls : c[2] = e[2]
     /\ \A c \in calls, e \in inner : c[2] = e[2] /\ c[2] \notin gr.invokes =>
          /\ Has(e, EA_CFG_DMY)
          /\ \A d \in flow \ rets : d[3] = e[3] => d[2] = e[2]
     /\ \A e \in gr.edges : gr.kind[e[2]] = "ret" => \E c \in calls : gr.fun[c[3]] = gr.fun[e[2]]

\* The graphs that Dependence.cpp can build; invokes are the call sites that
\* are invoke instructions, pointed those that call through a pointer.
ASSUME GraphsAssumption ==
  \A gr \in Graphs :
    /\ gr.fun \in Seq(Func) /\ gr.kind \in [DOMAIN gr.fun -> Kind]
    /\ gr.edges \subseteq (1 .. 31) \X (DOMAIN gr.fun) \X (DOMAIN gr.fun)
    /\ gr.invokes \subseteq DOMAIN gr.fun /\ gr.pointed \subseteq DOMAIN gr.fun
    /\ Built(gr)

VARIABLES
  g,             \* the dependence graph
  phase,         \* the part of the analysis that runs
  root,          \* m_Root
  sinkSet,       \* the nodes that free
  stack,         \* the calls of the search
  visited,       \* Visited and Path of the search
  toSinks,       \* the sinks still to slice backward from
  sinks,         \* m_Sinks
  forward,       \* m_ForwardSlice
  fdFuncs,       \* m_FdFuncSet
  maxId,         \* m_FuncToMaxId
  backward,      \* m_BackwardSlice
  bdFuncs,       \* m_BdFuncSet
  pathFuncs,     \* m_PathFuncSet
  reachType,     \* m_ReachType
  reachOut,      \* m_ReachOut
  crossFuncNum,  \* m_CrossFuncNum
  check          \* Queue of IsPathValid; <<>> outside of it

searchVars == <<stack, visited>>
fdVars == <<sinks, forward, fdFuncs, maxId>>
bdVars == <<toSinks, backward, bdFuncs, pathFuncs>>
outVars == <<reachOut, crossFuncNum, check>>
sliceVars == <<phase, root, searchVars, fdVars, bdVars, reachType, outVars>>

Node == DOMAIN g.fun
Fun(n) == g.fun[n]
IsCallSite(n) == g.kind[n] \in {"malloc", "free", "exit", "call"}
IsCallInst(n) == IsCallSite(n) /\ n \notin g.invokes

\* Edge sets are ordered by attribute, source and destination, and walked in
\* that order: a frame holds the edges its loop has left.
EdgeLess(a, b) ==
  \/ a[1] < b[1]
  \/ a[1] = b[1] /\ (a[2] < b[2] \/ (a[2] = b[2] /\ a[3] < b[3]))
First(E) == CHOOSE e \in E : \A d \in E : d = e \/ EdgeLess(e, d)
OutEdges(n, attr) == {e \in g.edges : e[2] = n /\ Has(e, attr)}
InEdges(n, attr) == {e \in g.edges : e[3] = n /\ Has(e, attr)}

Top == stack[Len(stack)]
Edge == First(Top.edges)
Rest == [stack EXCEPT ![Len(stack)].edges = @ \ {Edge}]
Break == [stack EXCEPT ![Len(stack)].edges = {}]
Frame(n, edges) == [node |-> n, edges |-> edges]
Running(p) == phase = p /\ stack # <<>> /\ Top.edges # {}
Leaving(p) == phase = p /\ stack # <<>> /\ Top.edges = {}

SliceInit ==
  /\ root = 0 /\ stack = <<>> /\ visited = {} /\ toSinks = {} /\ sinks = {}
  /\ forward = {} /\ fdFuncs = {} /\ maxId = [f \in Func |-> 0] /\ backward = {} /\ bdFuncs = {}
  /\ pathFuncs = {} /\ reachType = "none" /\ reachOut = FALSE /\ crossFuncNum = 0
  /\ check = <<>>

\* A new ProgramSlice, and the call of ForwardDfs for the root.
StartSlice(n) ==
  /\ phase' = "forward" /\ root' = n
  /\ stack' = <<Frame(n, OutEdges(n, EA_DD))>> /\ visited' = {n}
  /\ toSinks' = {} /\ sinks' = {} /\ forward' = {} /\ fdFuncs' = {} /\ maxId' = [f \in Func |-> 0]
  /\ backward' = {} /\ bdFuncs' = {} /\ pathFuncs' = {}
  /\ reachType' = "none" /\ reachOut' = FALSE /\ crossFuncNum' = 0 /\ check' = <<>>
  /\ UNCHANGED <<g, sinkSet>>

-----------------------------------------------------------------------------
(* ForwardDfs *)

\* The ids of a function are positive, so 0 stands for no entry.
IsForward(n) == n > maxId[Fun(n)]
NoteForward(n) == maxId' = [maxId EXCEPT ![Fun(n)] = IF IsForward(n) THEN n ELSE @]

\* Seeded fault: the search does not leave the function.
ForwardVisitedStay ==
  /\ Running("forward") /\ (Edge[3] \in visited \/ Fun(Edge[3]) # Fun(Top.node))
  /\ stack' = Rest
  /\ UNCHANGED <<g, phase, root, sinkSet, visited, fdVars, bdVars, reachType, outVars>>

ForwardVisited ==
  /\ Running("forward") /\ Edge[3] \in visited
  /\ stack' = Rest
  /\ UNCHANGED <<g, phase, root, sinkSet, visited, fdVars, bdVars, reachType, outVars>>

\* A return to an earlier node of a function is not followed.
ForwardBack ==
  /\ Running("forward") /\ Edge[3] \notin visited
  /\ ~IsForward(Edge[3]) /\ Has(Edge, EA_RET)
  /\ stack' = Rest
  /\ UNCHANGED <<g, phase, root, sinkSet, visited, fdVars, bdVars, reachType, outVars>>

Forward ==
  /\ Running("forward") /\ Edge[3] \notin visited
  /\ IsForward(Edge[3]) \/ ~Has(Edge, EA_RET)
  /\ NoteForward(Edge[3])
  /\ forward' = forward \cup {Edge[3]} /\ fdFuncs' = fdFuncs \cup {Fun(Edge[3])}
  /\ \/ /\ Edge[3] \in sinkSet
        /\ sinks' = sinks \cup {Edge[3]} /\ reachType' = "partial"
        /\ stack' = Break
        /\ UNCHANGED visited
     \/ /\ Edge[3] \notin sinkSet
        /\ stack' = Append(Rest, Frame(Edge[3], OutEdges(Edge[3], EA_DD)))
        /\ visited' = visited \cup {Edge[3]}
        /\ UNCHANGED <<sinks, reachType>>
  /\ UNCHANGED <<g, phase, root, sinkSet, bdVars, outVars>>

ForwardReturn ==
  /\ Leaving("forward")
  /\ stack' = Front(stack)
  /\ IF Len(stack) = 1 THEN phase' = "sinks" /\ toSinks' = sinks ELSE UNCHANGED <<phase, toSinks>>
  /\ UNCHANGED <<g, root, sinkSet, visited, fdVars, backward, bdFuncs, pathFuncs, reachType, outVars>>

-----------------------------------------------------------------------------
(* BackwardDfs *)

\* m_Sinks is ordered by addresses.
BackwardStart ==
  /\ phase = "sinks" /\ toSinks # {}
  /\ \E s \in toSinks :
       /\ toSinks' = toSinks \ {s}
       /\ pathFuncs' = pathFuncs \cup {Fun(s)}
       /\ stack' = <<Frame(s, InEdges(s, EA_DD))>> /\ visited' = {s}
  /\ phase' = "backward"
  /\ UNCHANGED <<g, root, sinkSet, fdVars, backward, bdFuncs, reachType, outVars>>

NotePath == pathFuncs' = pathFuncs \cup ({Fun(Edge[2])} \ {Fun(Top.node)})

\* Seeded fault: the slice gets the end of the way only.
BackwardHitEnd ==
  /\ Running("backward") /\ (Edge[2] = root \/ Edge[2] \in backward)
  /\ NotePath
  /\ bdFuncs' = bdFuncs \cup pathFuncs'
  /\ backward' = backward \cup {Edge[2]}
  /\ stack' = Break
  /\ UNCHANGED <<g, phase, root, sinkSet, visited, fdVars, toSinks, reachType, outVars>>

\* The root or the slice is reached: what was visited joins the slice.
BackwardHit ==
  /\ Running("backward") /\ (Edge[2] = root \/ Edge[2] \in backward)
  /\ NotePath
  /\ bdFuncs' = bdFuncs \cup pathFuncs'
  /\ backward' = backward \cup visited \cup {Edge[2]}
  /\ stack' = Break
  /\ UNCHANGED <<g, phase, root, sinkSet, visited, fdVars, toSinks, reachType, outVars>>

BackwardGoes == Edge[2] \notin visited /\ Edge[2] \in forward /\ Fun(Edge[2]) \in fdFuncs

Backward ==
  /\ Running("backward") /\ Edge[2] # root /\ Edge[2] \notin backward
  /\ NotePath
  /\ IF BackwardGoes
     THEN /\ stack' = Append(Rest, Frame(Edge[2], InEdges(Edge[2], EA_DD)))
          /\ visited' = visited \cup {Edge[2]}
     ELSE stack' = Rest /\ UNCHANGED visited
  /\ UNCHANGED <<g, phase, root, sinkSet, fdVars, toSinks, backward, bdFuncs, reachType, outVars>>

BackwardReturn ==
  /\ Leaving("backward")
  /\ stack' = Front(stack)
  /\ phase' = IF Len(stack) = 1 THEN "sinks" ELSE phase
  /\ UNCHANGED <<g, root, sinkSet, visited, fdVars, bdVars, reachType, outVars>>

-----------------------------------------------------------------------------
(* CfgPathDfs *)

\* Seeded fault: a callee is entered though it is on the way.
VisitEdgeTypeAgain(n, path) ==
  LET out == OutEdges(n, EA_CFG) IN
    IF ~IsCallInst(n) THEN EA_CFG
    ELSE IF \E e \in out : Has(e, EA_CALL) /\ Fun(e[3]) \in bdFuncs THEN EA_CALL
    ELSE IF \E e \in out : Has(e, EA_CFG_DMY) THEN EA_CFG_DMY
    ELSE EA_CFG

\* A call is entered if a callee the backward slice passes is not on the way
\* yet; else it is stepped over.  Of an invoke every edge is followed.
VisitEdgeType(n, path) ==
  LET out == OutEdges(n, EA_CFG) IN
    IF ~IsCallInst(n) THEN EA_CFG
    ELSE IF \E e \in out : Has(e, EA_CALL) /\ Fun(e[3]) \in bdFuncs /\ e[3] \notin path THEN EA_CALL
    ELSE IF \E e \in out : Has(e, EA_CFG_DMY) THEN EA_CFG_DMY
    ELSE EA_CFG

CfgFrame(n, path) ==
  Frame(n, {e \in OutEdges(n, EA_CFG) : Has(e, VisitEdgeType(n, path))})

\* A call of CfgPathDfs on top of frames; at exit it returns at once.
CfgCall(n, frames) ==
  IF g.kind[n] = "exit" THEN visited' = visited /\ stack' = frames
  ELSE visited' = visited \cup {n} /\ stack' = Append(frames, CfgFrame(n, visited \cup {n}))

CfgStart ==
  /\ phase = "sinks" /\ toSinks = {} /\ sinks # {}
  /\ phase' = "path" /\ reachOut' = FALSE /\ crossFuncNum' = 0
  /\ visited' = {root} /\ stack' = <<CfgFrame(root, {root})>>
  /\ UNCHANGED <<g, root, sinkSet, fdVars, bdVars, reachType, check>>

NoSink ==
  /\ phase = "sinks" /\ toSinks = {} /\ sinks = {}
  /\ phase' = "sliced" /\ reachType' = "none"
  /\ UNCHANGED <<g, root, sinkSet, searchVars, fdVars, bdVars, outVars>>

CfgEdge == Running("path") /\ check = <<>>

CfgOnPath ==
  /\ CfgEdge /\ Edge[3] \in visited
  /\ stack' = Rest
  /\ UNCHANGED <<g, phase, root, sinkSet, visited, fdVars, bdVars, reachType, outVars>>

EndsHere(n) == \A e \in g.edges : e[2] # n

\* Nothing follows the node: the way out is found.
CfgOut ==
  /\ CfgEdge /\ Edge[3] \notin visited /\ EndsHere(Edge[3])
  /\ reachOut' = TRUE
  /\ stack' = Break
  /\ UNCHANGED <<g, phase, root, sinkSet, visited, fdVars, bdVars, reachType, crossFuncNum, check>>

\* IsRetContext: having crossed a function, the flow into node n must come from
\* the way behind.
IsRetContext(n) ==
  \A e \in InEdges(n, EA_CFG) : Has(e, EA_RET) \/ crossFuncNum = 0 \/ e[2] \in visited

CfgInto == CfgEdge /\ Edge[3] \notin visited /\ ~EndsHere(Edge[3])

\* A return out of the functions of the slice, or into a wrong context.
CfgLeave ==
  /\ CfgInto /\ Has(Edge, EA_RET)
  /\ \/ Fun(Edge[3]) \notin fdFuncs /\ reachOut' = TRUE
     \/ Fun(Edge[3]) \in fdFuncs /\ ~IsRetContext(Edge[3]) /\ UNCHANGED reachOut
  /\ stack' = Rest
  /\ UNCHANGED <<g, phase, root, sinkSet, visited, fdVars, bdVars, reachType, crossFuncNum, check>>

CfgGo ==
  /\ CfgInto /\ (Has(Edge, EA_RET) => Fun(Edge[3]) \in fdFuncs /\ IsRetContext(Edge[3]))
  /\ crossFuncNum' = IF Has(Edge, EA_RET) THEN crossFuncNum + 1 ELSE crossFuncNum
  /\ IF Edge[3] \in sinks
     THEN stack' = Rest /\ check' = <<Edge[3]>> /\ UNCHANGED visited
     ELSE CfgCall(Edge[3], IF g.kind[Edge[3]] = "exit" /\ reachOut THEN Break ELSE Rest) /\ UNCHANGED check
  /\ UNCHANGED <<g, phase, root, sinkSet, fdVars, bdVars, reachType, reachOut>>

\* Seeded fault: the node is left on the way.
CfgReturnKeeps ==
  /\ Leaving("path") /\ check = <<>>
  /\ stack' = IF Len(stack) > 1 /\ reachOut
              THEN [Front(stack) EXCEPT ![Len(stack) - 1].edges = {}] ELSE Front(stack)
  /\ IF Len(stack) = 1
     THEN phase' = "sliced" /\ reachType' = IF reachOut THEN reachType ELSE "all"
     ELSE UNCHANGED <<phase, reachType>>
  /\ UNCHANGED <<g, root, sinkSet, visited, fdVars, bdVars, outVars>>

\* The node is taken off the way; the caller stops if a way out was found.
CfgReturn ==
  /\ Leaving("path") /\ check = <<>>
  /\ visited' = visited \ {Top.node}
  /\ stack' = IF Len(stack) > 1 /\ reachOut
              THEN [Front(stack) EXCEPT ![Len(stack) - 1].edges = {}] ELSE Front(stack)
  /\ IF Len(stack) = 1
     THEN phase' = "sliced" /\ reachType' = IF reachOut THEN reachType ELSE "all"
     ELSE UNCHANGED <<phase, reachType>>
  /\ UNCHANGED <<g, root, sinkSet, fdVars, bdVars, outVars>>

-----------------------------------------------------------------------------
(* IsPathValid *)

\* IsDeBranch: every branch on the way depends on the allocation and, if a
\* comparison decides it, is a test for null.
IsDeBranch ==
  LET branches == {n \in visited : g.kind[n] = "br"}
      Decides(n) == LET in == InEdges(n, EA_DD) IN IF in = {} THEN "other" ELSE g.kind[First(in)[2]]
  IN branches # {} /\ \A n \in branches : n \in forward /\ Decides(n) # "cmp"

Behind(n) ==
  LET open == {e \in InEdges(n, EA_DD) : (e[2] \in visited \/ IsCallSite(e[2])) /\ e[2] \in backward}
      way == SetToSortSeq(open, EdgeLess)
  IN [i \in DOMAIN way |-> way[i][2]]

\* One round; there is no set of visited nodes, ComQueue only refuses what it
\* holds at the time.
CheckNode ==
  /\ check # <<>>
  /\ LET Add(q, n) == IF n \in ToSet(q) THEN q ELSE Append(q, n)
         next == FoldLeft(Add, Tail(check), Behind(Head(check)))
     IN IF root \in ToSet(next) THEN reachOut' = FALSE /\ check' = <<>>
        ELSE check' = next /\ reachOut' = IF next = <<>> THEN ~IsDeBranch ELSE reachOut
  /\ UNCHANGED <<g, phase, root, sinkSet, searchVars, fdVars, bdVars, reachType, crossFuncNum>>

SliceStep ==
  \/ ForwardVisited \/ ForwardBack \/ Forward \/ ForwardReturn
  \/ BackwardStart \/ BackwardHit \/ Backward \/ BackwardReturn
  \/ CfgStart \/ NoSink \/ CfgOnPath \/ CfgOut \/ CfgLeave \/ CfgGo \/ CfgReturn
  \/ CheckNode
=============================================================================
